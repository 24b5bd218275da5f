-------------------------- MODULE MissionLifecycle --------------------------
(***************************************************************************)
(* What the mission node promises to whoever submitted a patrol, with      *)
(* everything about navigation, check-in and waiting abstracted away: one  *)
(* patrol at a time; every checkpoint from the requested one on is visited *)
(* or skipped exactly once per lap and in order; a patrol is COMPLETED     *)
(* only when none is left; and an outcome, once reported, stands until the *)
(* next patrol begins.                                                     *)
(***************************************************************************)
EXTENDS Naturals

CONSTANTS N, Laps   \* checkpoints of the route; bound on the laps of a patrol

Outcomes == {"COMPLETED", "CANCELLED", "FAILED"}

VARIABLES
  status,    \* "none", "active", or the outcome of the last patrol
  position,  \* the next checkpoint to account for
  accounted, \* checkpoints of this patrol accounted for (completed or skipped)
  lap        \* laps completed, at most Laps

vars == <<status, position, accounted, lap>>

Init == status = "none" /\ position = 0 /\ accounted = 0 /\ lap = 0

Begin ==
  /\ status # "active" /\ status' = "active"
  /\ position' \in 0..(N - 1) /\ accounted' = 0 /\ lap' = 0

Account ==
  /\ status = "active" /\ position < N
  /\ position' = position + 1 /\ accounted' = accounted + 1
  /\ UNCHANGED <<status, lap>>

Lap ==
  /\ status = "active" /\ position = N /\ lap < Laps
  /\ position' = 0 /\ lap' = lap + 1
  /\ UNCHANGED <<status, accounted>>

End(outcome) ==
  /\ status = "active" /\ status' = outcome
  /\ outcome = "COMPLETED" => position = N
  /\ UNCHANGED <<position, accounted, lap>>

Next == Begin \/ Account \/ Lap \/ \E o \in Outcomes : End(o)

Spec == Init /\ [][Next]_vars
=============================================================================
