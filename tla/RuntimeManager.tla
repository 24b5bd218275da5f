--------------------------- MODULE RuntimeManager ---------------------------
(***************************************************************************)
(* car_runtime_manager/node_manager.py: the switch between the mutually    *)
(* exclusive profiles, each a "ros2 launch" process in a process group of  *)
(* its own.  The executor's thread accepts one transition at a time, a     *)
(* transition thread carries it out, and shutdown() runs on the main       *)
(* thread when the executor has stopped, beside a transition that may      *)
(* still be under way.                                                     *)
(*                                                                         *)
(* A launch is named by the generation that started it.  Its leader is the *)
(* child the manager waits for, its nodes are the rest of its group.       *)
(***************************************************************************)
EXTENDS Naturals

CONSTANTS
  Profiles,         \* the profiles that have a process
  InitialProfile,   \* parameter initial_profile, perhaps "idle"
  Faults,           \* what may happen: see FaultAssumption
  MaxGeneration     \* bound on the transitions

ASSUME ProfileAssumption ==
  "idle" \notin Profiles /\ InitialProfile \in Profiles \cup {"idle"}
ASSUME FaultAssumption ==
  Faults \subseteq {"crash",       \* a leader ends without being told to
                    "orphans",     \* nodes may outlive their leader, for
                                   \* a moment or for good
                    "unkillable",  \* a group may survive SIGKILL for 3 s
                    "shutdown"}    \* the manager is stopped
ASSUME GenerationAssumption == MaxGeneration \in Nat

VARIABLES
  pc,       \* the transition thread; "none" when there is none alive
  main,     \* the main thread: spinning, or how far shutdown() has come
  status,   \* what _set_status last recorded and published
  asked,    \* the profile of each generation's request
  initial,  \* the one-shot timer of the initial profile is armed
  handle,   \* _profile_process: the generation of a launch, or 0
  leader,   \* of each launch: unborn, alive, gone
  nodes,    \* the launches whose nodes are alive
  victim,   \* what each thread is stopping, or 0
  signal,   \* the last signal each thread has sent to its victim
  lost      \* history: the launches that were given up when SIGKILL failed

Threads == {"transition", "main"}
Launches == 1..MaxGeneration

processes == <<leader, nodes>>
stops == <<victim, signal, lost>>
vars == <<pc, main, status, asked, initial, handle, leader, nodes, victim, signal, lost>>

-----------------------------------------------------------------------------
(* Helpers.                                                                *)

TransitionAlive == pc # "none"
Generation == status.generation
Target == asked[Generation]

set_status(active, requested, state, ready) ==
  status' = [status EXCEPT !.active = active, !.requested = requested,
                           !.state = state, !.ready = ready]

\* _stop_profile_process reads the handle and then clears it, with no lock
\* around the two; the group of a leader that lives gets SIGINT.
Read(t) ==
  /\ victim' = [victim EXCEPT ![t] = handle]
  /\ UNCHANGED <<handle, signal, lost>>

Take(t) ==
  /\ handle' = 0
  /\ signal' = [signal EXCEPT ![t] =
                  IF victim[t] # 0 /\ leader[victim[t]] = "alive" THEN "INT" ELSE "none"]
  /\ UNCHANGED <<victim, lost>>

Stopped(t) == victim[t] # 0 => leader[victim[t]] = "gone"

Release(t) ==
  /\ victim' = [victim EXCEPT ![t] = 0]
  /\ signal' = [signal EXCEPT ![t] = "none"]

-----------------------------------------------------------------------------
Init ==
  /\ pc = "none" /\ main = "spin"
  /\ status = [active |-> "idle", requested |-> "idle", state |-> "IDLE",
               ready |-> TRUE, generation |-> 0]
  /\ asked = [g \in Launches |-> "idle"]
  /\ initial = (InitialProfile # "idle")
  /\ handle = 0 /\ leader = [g \in Launches |-> "unborn"] /\ nodes = {}
  /\ victim = [t \in Threads |-> 0] /\ signal = [t \in Threads |-> "none"]
  /\ lost = {}

(* The executor: requests for a profile.                                   *)

Acceptable(p) ==
  /\ ~TransitionAlive
  /\ ~(status.ready /\ status.active = p)

queue_transition(p) ==
  /\ Acceptable(p) /\ Generation < MaxGeneration
  /\ status' = [status EXCEPT !.generation = @ + 1, !.requested = p,
                              !.state = "STARTING", !.ready = FALSE]
  /\ asked' = [asked EXCEPT ![Generation + 1] = p]
  /\ pc' = "begin"

\* A refused request changes nothing.
on_set_profile(p) ==
  /\ main = "spin" /\ queue_transition(p)
  /\ UNCHANGED <<main, initial, handle, processes, stops>>

\* The timer's own request: a refusal is published as a failure.
start_initial_profile ==
  /\ main = "spin" /\ initial /\ initial' = FALSE
  /\ \/ queue_transition(InitialProfile)
     \/ /\ ~Acceptable(InitialProfile)
        /\ set_status("idle", InitialProfile, "FAILED", FALSE)
        /\ UNCHANGED <<pc, asked>>
  /\ UNCHANGED <<main, handle, processes, stops>>

-----------------------------------------------------------------------------
(* The transition thread: _run_transition.                                 *)

Step(from, to) == main # "exited" /\ pc = from /\ pc' = to

\* Stop the motion; is there a profile to stop?
Begin ==
  /\ IF handle # 0
     THEN /\ Step("begin", "stop")
          /\ set_status(status.active, Target, "STOPPING", FALSE)
     ELSE Step("begin", "launch?") /\ UNCHANGED status
  /\ UNCHANGED <<main, asked, initial, handle, processes, stops>>

StopOld ==
  /\ Step("stop", "taking") /\ Read("transition")
  /\ UNCHANGED <<main, status, asked, initial, processes>>

TakeOld ==
  /\ Step("taking", "stopping") /\ Take("transition")
  /\ UNCHANGED <<main, status, asked, initial, processes>>

\* Mutant: the old profile is told to stop and not waited for.
OldInPassing ==
  /\ Step("stopping", "launch?") /\ Release("transition")
  /\ UNCHANGED <<main, status, asked, initial, handle, processes, lost>>

OldStopped ==
  /\ Step("stopping", "launch?") /\ Stopped("transition") /\ Release("transition")
  /\ UNCHANGED <<main, status, asked, initial, handle, processes, lost>>

GoIdle ==
  /\ Step("launch?", "none") /\ Target = "idle"
  /\ set_status("idle", "idle", "IDLE", TRUE)
  /\ UNCHANGED <<main, asked, initial, handle, processes, stops>>

AnnounceStart ==
  /\ Step("launch?", "launch") /\ Target # "idle"
  /\ set_status(status.active, Target, "STARTING", FALSE)
  /\ UNCHANGED <<main, asked, initial, handle, processes, stops>>

\* Mutant: a profile is ready as soon as it is launched.
ReadyOnLaunch ==
  /\ Step("launch", "waiting") /\ set_status(Target, Target, "READY", TRUE)
  /\ handle' = Generation /\ leader' = [leader EXCEPT ![Generation] = "alive"]
  /\ nodes' = nodes \cup {Generation}
  /\ UNCHANGED <<main, asked, initial, stops>>

start_profile_process ==
  /\ Step("launch", "waiting")
  /\ handle' = Generation /\ leader' = [leader EXCEPT ![Generation] = "alive"]
  /\ nodes' = nodes \cup {Generation}
  /\ UNCHANGED <<main, status, asked, initial, stops>>

\* The log or the command cannot be opened.
LaunchFails ==
  /\ Step("launch", "fail")
  /\ UNCHANGED <<main, status, asked, initial, handle, processes, stops>>

\* wait_for_profile_ready returns.
SeenReady ==
  /\ Step("waiting", "ready")
  /\ handle # 0 /\ leader[handle] = "alive"
  /\ UNCHANGED <<main, status, asked, initial, handle, processes, stops>>

\* It raises: the process is gone, the manager is ending, or time is up.
NotReady ==
  /\ Step("waiting", "fail")
  /\ UNCHANGED <<main, status, asked, initial, handle, processes, stops>>

ReportReady ==
  /\ Step("ready", "none") /\ set_status(Target, Target, "READY", TRUE)
  /\ UNCHANGED <<main, asked, initial, handle, processes, stops>>

\* Mutant: the failed profile is left as it is.
LeaveFailed ==
  /\ Step("fail", "failing")
  /\ UNCHANGED <<main, status, asked, initial, handle, processes, stops>>

StopFailed ==
  /\ Step("fail", "clearing") /\ Read("transition")
  /\ UNCHANGED <<main, status, asked, initial, processes>>

TakeFailed ==
  /\ Step("clearing", "failing") /\ Take("transition")
  /\ UNCHANGED <<main, status, asked, initial, processes>>

\* The motion is stopped, then the failure reported.
ReportFailed ==
  /\ Step("failing", "none") /\ Stopped("transition") /\ Release("transition")
  /\ set_status("idle", Target, "FAILED", FALSE)
  /\ UNCHANGED <<main, asked, initial, handle, processes, lost>>

\* An exception in _stop_profile_process: in the body it leads to the except
\* clause, in that clause it ends the thread.
StopRaises ==
  /\ Step("stopping", "fail") \/ Step("failing", "none")
  /\ Release("transition")
  /\ UNCHANGED <<main, status, asked, initial, handle, processes>>

\* The wait after SIGKILL times out.
SurvivesKill ==
  /\ "unkillable" \in Faults /\ ~Stopped("transition")
  /\ signal["transition"] = "KILL"
  /\ StopRaises
  /\ lost' = lost \cup {victim["transition"]}

\* The main thread has reaped the leader, so that its group is not found, or
\* has closed the log.
StoppedTwice ==
  /\ main \in {"halting", "leaving"} /\ Stopped("transition")
  /\ StopRaises
  /\ UNCHANGED lost

-----------------------------------------------------------------------------
(* Both threads wait for a leader for some time after each signal.         *)

\* Mutant: a profile that ignores SIGINT is waited for without end.
NeverEscalate(t) == FALSE /\ UNCHANGED vars

Escalate(t) ==
  /\ main # "exited" /\ ~Stopped(t) /\ signal[t] \in {"INT", "TERM"}
  /\ t = "main" => main = "halting"
  /\ signal' = [signal EXCEPT ![t] = IF @ = "INT" THEN "TERM" ELSE "KILL"]
  /\ UNCHANGED <<pc, main, status, asked, initial, handle, processes, victim, lost>>

-----------------------------------------------------------------------------
(* shutdown(), on the main thread.                                         *)

Halt(from, to) == main = from /\ main' = to

Interrupt ==
  /\ "shutdown" \in Faults /\ Halt("spin", "halt")
  /\ UNCHANGED <<pc, status, asked, initial, handle, processes, stops>>

ReadAtShutdown ==
  /\ Halt("halt", "taking") /\ Read("main")
  /\ UNCHANGED <<pc, status, asked, initial, processes>>

StopAtShutdown ==
  /\ Halt("taking", "halting") /\ Take("main")
  /\ UNCHANGED <<pc, status, asked, initial, processes>>

\* shutdown() returns or raises; the interpreter ends, and with it every
\* daemon thread.
Leave ==
  /\ Halt("halting", "leaving")
  /\ \/ Stopped("main")
     \/ "unkillable" \in Faults /\ signal["main"] = "KILL"
  /\ UNCHANGED <<pc, status, asked, initial, handle, processes, stops>>

Exit ==
  /\ Halt("leaving", "exited")
  /\ UNCHANGED <<pc, status, asked, initial, handle, processes, stops>>

-----------------------------------------------------------------------------
(* The operating system.                                                   *)

Signalled(g) == \E t \in Threads : victim[t] = g /\ signal[t] # "none"
Killed(g) == \E t \in Threads : victim[t] = g /\ signal[t] = "KILL"

\* A leader ends; ros2 launch waits for its nodes, unless it is lost itself.
\* SIGKILL reaches the whole group at once.
LeaderEnds(g) ==
  /\ Signalled(g) \/ "crash" \in Faults
  /\ leader[g] = "alive" /\ leader' = [leader EXCEPT ![g] = "gone"]
  /\ \/ nodes' = nodes \ {g}
     \/ "orphans" \in Faults /\ ~Killed(g) /\ UNCHANGED nodes
  /\ UNCHANGED <<pc, main, status, asked, initial, handle, stops>>

\* Nodes end before their leader, or after they have outlived it.
NodesEnd(g) ==
  /\ Signalled(g) \/ "crash" \in Faults
  /\ g \in nodes /\ nodes' = nodes \ {g}
  /\ UNCHANGED <<pc, main, status, asked, initial, handle, leader, stops>>

Next ==
  \/ \E p \in Profiles \cup {"idle"} : on_set_profile(p)
  \/ start_initial_profile
  \/ Begin \/ StopOld \/ TakeOld \/ OldStopped \/ GoIdle \/ AnnounceStart
  \/ start_profile_process \/ LaunchFails \/ SeenReady \/ NotReady \/ ReportReady
  \/ StopFailed \/ TakeFailed \/ ReportFailed \/ SurvivesKill \/ StoppedTwice
  \/ \E t \in Threads : Escalate(t)
  \/ Interrupt \/ ReadAtShutdown \/ StopAtShutdown \/ Leave \/ Exit
  \/ \E g \in Launches : LeaderEnds(g) \/ NodesEnd(g)

Spec == Init /\ [][Next]_vars

\* Both threads go on, signals and timeouts take effect, and a killed leader
\* is gone in the end (or the wait for it given up).
ThreadStep ==
  \/ Begin \/ StopOld \/ TakeOld \/ OldStopped \/ GoIdle \/ AnnounceStart
  \/ start_profile_process \/ LaunchFails \/ SeenReady \/ NotReady \/ ReportReady
  \/ StopFailed \/ TakeFailed \/ ReportFailed

FairSpec ==
  /\ Spec /\ WF_vars(ThreadStep)
  /\ WF_vars(ReadAtShutdown \/ StopAtShutdown \/ Leave \/ Exit)
  /\ \A t \in Threads : WF_vars(Escalate(t))
  /\ \A g \in Launches : WF_vars(Killed(g) /\ LeaderEnds(g))

-----------------------------------------------------------------------------
(* Properties.                                                             *)

States == {"IDLE", "STARTING", "STOPPING", "READY", "FAILED"}
Places == {"none", "begin", "stop", "taking", "stopping", "launch?", "launch",
           "waiting", "ready", "fail", "clearing", "failing"}

\* Every variable keeps to its range.
TypeOK ==
  /\ pc \in Places /\ main \in {"spin", "halt", "taking", "halting", "leaving", "exited"}
  /\ status \in [active: Profiles \cup {"idle"}, requested: Profiles \cup {"idle"},
                 state: States, ready: BOOLEAN, generation: 0..MaxGeneration]
  /\ asked \in [Launches -> Profiles \cup {"idle"}] /\ initial \in BOOLEAN
  /\ handle \in {0} \cup Launches
  /\ leader \in [Launches -> {"unborn", "alive", "gone"}] /\ nodes \subseteq Launches
  /\ victim \in [Threads -> {0} \cup Launches]
  /\ signal \in [Threads -> {"none", "INT", "TERM", "KILL"}] /\ lost \subseteq Launches

\* What no step of the manager can stop any more: nodes that outlive their
\* leader, and groups that survive SIGKILL.
LeftOver == lost \cup {g \in Launches : leader[g] = "gone"}

\* The profiles are mutually exclusive: while the manager runs, the nodes of
\* two launches never run side by side, unless those of one are left over.
ExclusiveProfiles ==
  main = "spin" => \A g, h \in nodes \ LeftOver : g = h

\* Between transitions, what runs is what the status says, left-over nodes
\* apart: nothing else is left of a failed profile or runs under idle.
RestIsTold ==
  ~TransitionAlive /\ main = "spin" =>
    \A g \in nodes \ LeftOver : status.state = "READY" /\ status.active = asked[g]

\* A transition that has been reported as over, whatever its end, is never
\* reported on again: a client that saw the end of its generation saw it all.
\* (With an initial profile the refusal of the timer's request breaks it.)
Over == status.state \in {"IDLE", "READY", "FAILED"}
EndIsFinal ==
  [][Over /\ status.generation' = status.generation => status' = status]_vars

\* A transition that was accepted ends, in IDLE, READY or FAILED unless some
\* launch has survived SIGKILL.
TransitionEnds == pc = "begin" ~> ~TransitionAlive /\ (Over \/ lost # {})

\* The manager ends when it is told to, even if a profile cannot be killed or
\* a transition is under way.
ShutdownEnds == main = "halt" ~> main = "exited"

-----------------------------------------------------------------------------
(* The inductive invariants of the proofs, for a manager to which anything *)
(* may happen.                                                             *)

TypeInv == TypeOK /\ (TransitionAlive => Generation > 0)

\* Until a shutdown, whatever lives is the process the manager holds, the one
\* it is waiting to see stopped, or one it has given up; it holds none while
\* it waits, and none when it launches.
NothingForgotten ==
  main = "spin" =>
    /\ \A g \in nodes : leader[g] # "unborn"
    /\ \A g \in Launches :
         leader[g] = "alive" => g \in {handle, victim["transition"]} \cup lost
    /\ victim["transition"] # 0 => pc \in {"taking", "stopping", "clearing", "failing"}
    /\ pc \in {"taking", "clearing"} => victim["transition"] = handle
    /\ pc \in {"stopping", "launch?", "launch", "failing"} => handle = 0

\* At rest a process is held only for a profile that is READY; during the
\* transition that launched it, it is the target's.  (No initial profile.)
HandleIsTold ==
  /\ ~initial
  /\ main = "spin" /\ handle # 0 =>
       \/ pc \in {"begin", "stop", "taking"}
       \/ pc \in {"waiting", "ready", "fail", "clearing"} /\ handle = Generation
       \/ pc = "none" /\ status.state = "READY" /\ status.active = asked[handle]

IInv == TypeInv /\ NothingForgotten

\* While its thread lives, a transition has not been reported as over.  (No
\* initial profile: its timer reports at any time.)
NotYetOver == ~initial /\ (TransitionAlive => ~Over)

-----------------------------------------------------------------------------
(* What comments and documents say, and the code does not do.              *)

\* What the status message promises: a profile said to be ready can be used.
ReadyIsUsable == status.ready /\ status.active # "idle" => nodes # {}

\* The active profile is the one in effect.
ActiveIsInEffect ==
  status.active # "idle" => \E g \in nodes : asked[g] = status.active

\* Every failure is reported, and ends with the motion stopped.
FailureIsReported == ~TransitionAlive => Over

\* The profiles exclude each other, whatever happens to a launch.
NeverSideBySide == \A g, h \in nodes : g = h

\* When the manager has ended, no profile goes on that it has not at least
\* told to stop.
NothingLeftBehind == main = "exited" => \A g \in nodes : Signalled(g)
=============================================================================
