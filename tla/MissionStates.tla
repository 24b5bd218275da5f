--------------------------- MODULE MissionStates ---------------------------
(***************************************************************************)
(* The patrol state machine of car_mission/state_machine.py: the states of *)
(* a mission and the table of transitions its owner may perform.           *)
(***************************************************************************)

TERMINAL_STATES == {"COMPLETED", "CANCELLED", "FAILED"}

ActiveStates ==
  {"PREPARING", "LOCALIZING", "NAVIGATING", "ARRIVAL_CONFIRMING",
   "CHECKING_IN", "CAPTURING", "INSPECTING", "RECORDING", "BLOCKED",
   "RECOVERING", "PAUSING", "PAUSED", "WAITING_OPERATOR", "ESTOPPED"}

MissionState == {"IDLE"} \cup ActiveStates \cup TERMINAL_STATES

WithTerminal(states) == states \cup {"CANCELLED", "FAILED"}

\* Interruptions the table admits while a checkpoint is being worked on.
Interrupts == {"PAUSING", "ESTOPPED"}

\* ALLOWED_TRANSITIONS: the successors of every state.
ALLOWED_TRANSITIONS ==
  [s \in MissionState |->
     CASE s = "IDLE"      -> {"PREPARING"}
       [] s = "PREPARING" -> WithTerminal({"LOCALIZING"} \cup Interrupts)
       [] s = "LOCALIZING" ->
            WithTerminal({"NAVIGATING", "WAITING_OPERATOR"} \cup Interrupts)
       [] s = "NAVIGATING" ->
            WithTerminal({"ARRIVAL_CONFIRMING", "RECOVERING", "BLOCKED",
                          "WAITING_OPERATOR", "COMPLETED"} \cup Interrupts)
       [] s = "ARRIVAL_CONFIRMING" ->
            WithTerminal({"CHECKING_IN", "RECORDING", "WAITING_OPERATOR"}
                         \cup Interrupts)
       [] s \in {"CHECKING_IN", "INSPECTING"} ->
            WithTerminal({"CAPTURING", "RECORDING", "WAITING_OPERATOR"}
                         \cup Interrupts)
       [] s = "CAPTURING" ->
            WithTerminal({"INSPECTING", "RECORDING", "WAITING_OPERATOR"}
                         \cup Interrupts)
       [] s = "RECORDING" ->
            WithTerminal({"NAVIGATING", "COMPLETED"} \cup Interrupts)
       [] s = "RECOVERING" ->
            WithTerminal({"NAVIGATING", "BLOCKED", "WAITING_OPERATOR"}
                         \cup Interrupts)
       [] s = "BLOCKED" ->
            WithTerminal({"RECOVERING", "NAVIGATING", "WAITING_OPERATOR"}
                         \cup Interrupts)
       [] s = "PAUSING" -> WithTerminal({"PAUSED", "ESTOPPED"})
       [] s = "PAUSED" ->
            WithTerminal({"NAVIGATING", "LOCALIZING", "WAITING_OPERATOR",
                          "ESTOPPED"})
       [] s = "WAITING_OPERATOR" ->
            WithTerminal({"NAVIGATING", "LOCALIZING"} \cup Interrupts)
       [] s = "ESTOPPED" ->
            WithTerminal({"WAITING_OPERATOR", "NAVIGATING", "LOCALIZING"})
       [] OTHER -> {}]

can_transition(s, target) == target \in ALLOWED_TRANSITIONS[s]
=============================================================================
