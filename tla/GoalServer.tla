----------------------------- MODULE GoalServer -----------------------------
(***************************************************************************)
(* What the mission manager relies on when it awaits a goal of the         *)
(* check-in or the inspection server, with sensors, frames and verdicts    *)
(* abstracted away: one goal at a time; each goal is answered once, while  *)
(* it has time left; it is answered as cancelled only if that was asked    *)
(* for; and the answer stands until the next goal begins.                  *)
(***************************************************************************)
EXTENDS Integers

CONSTANTS
  Answers,    \* the outcomes a goal may have
  Canceled    \* the one for a goal that was cancelled

VARIABLES
  phase,   \* "none", or the goal is "running" or "canceling"
  left,    \* time left for the answer, 0 when there is no goal
  answer   \* the outcome of the last goal, "NONE" while there is none

vars == <<phase, left, answer>>

Init == phase = "none" /\ left = 0 /\ answer = "NONE"

Begin ==
  /\ phase = "none" /\ phase' = "running"
  /\ left' \in Nat \ {0} /\ answer' = "NONE"

Cancel ==
  /\ phase = "running" /\ phase' = "canceling"
  /\ UNCHANGED <<left, answer>>

\* Time passes only as far as the goal can still be answered.
Pass ==
  /\ phase # "none" /\ left > 1 /\ left' = left - 1
  /\ UNCHANGED <<phase, answer>>

Answer ==
  /\ phase # "none" /\ phase' = "none" /\ left' = 0
  /\ answer' \in Answers
  /\ answer' = Canceled => phase = "canceling"

Next == Begin \/ Cancel \/ Pass \/ Answer

Spec == Init /\ [][Next]_vars
=============================================================================
