--------------------------- MODULE MissionManager ---------------------------
(***************************************************************************)
(* car_mission/mission_manager.py: the coroutine that executes one patrol  *)
(* (execute_patrol and everything it awaits) interleaved with the ROS     *)
(* callbacks of a MultiThreadedExecutor: operator control, effective stop, *)
(* obstacle, sensor fault, localization and the 5 Hz monitor.              *)
(*                                                                         *)
(* pc names the place the coroutine has reached; between two places any    *)
(* callback may run.  A callback whose body releases the lock between its  *)
(* flag and its transition leaves a tail in "tails".  A coroutine that     *)
(* asks for a transition the table refuses continues at "raise", the       *)
(* except clause of execute_patrol.                                       *)
(***************************************************************************)
EXTENDS Naturals, Sequences, MissionStates

CONSTANTS
  N,                    \* number of checkpoints of the route
  Route,                \* [0..N-1 -> policies, retries and tasks of a checkpoint]
  MaxNavRetries,        \* parameter max_nav_retries
  MaxBlockedRetries,    \* parameter max_blocked_retries
  RequireLocalization,  \* parameter require_localization
  Loops,                \* values of the loop flag a goal may carry
  Controls,             \* operator commands that may arrive
  Signals,              \* topics that may publish
  RetryCap,             \* retry_count saturates here, above every limit
  FailCap,              \* failed_checkpoints saturates here
  MaxLaps               \* bound on the laps of a looping patrol

CheckpointPolicy ==
  [nav: {"abort_mission", "retry_then_skip", "retry_then_wait_operator"},
   checkin: {"none", "abort_mission", "retry_then_wait_operator",
             "alert_and_continue"},
   retries: Nat,                     \* checkin.retries
   tasks: Seq(BOOLEAN),              \* for each inspection task: required
   inspection: {"abort_mission", "wait_operator", "alert_and_continue"}]

ASSUME SizeAssumption == N \in Nat \ {0}
ASSUME RouteAssumption == Route \in [0..(N - 1) -> CheckpointPolicy]
ASSUME RetryAssumption ==
  /\ MaxNavRetries \in Nat /\ MaxBlockedRetries \in Nat /\ RetryCap \in Nat
  /\ RetryCap > MaxNavRetries /\ RetryCap >= MaxBlockedRetries
  /\ \A i \in 0..(N - 1) : RetryCap > Route[i].retries
ASSUME BoundAssumption == FailCap \in Nat /\ MaxLaps \in Nat
ASSUME OptionAssumption ==
  /\ RequireLocalization \in BOOLEAN /\ Loops \subseteq BOOLEAN
  /\ Controls \subseteq {"pause", "resume", "cancel", "action_cancel"}
  /\ Signals \subseteq {"estop", "obstacle", "sensor_fault", "localization"}

VARIABLES
  pc,          \* where the coroutine is; "idle" when runtime is None
  ret,         \* where await_resume returns to
  mstate,      \* runtime.state_machine.state
  goal,        \* state of the ExecutePatrol goal handle in the action server
  start, loop, laps,           \* the request, and the laps completed
  index,       \* runtime.checkpoint_index
  task,        \* position in checkpoint.tasks
  completed, failed, skipped,  \* the checkpoint counters
  retry,       \* runtime.retry_count
  pause, cancel, estop,        \* pause_requested, cancel_requested, estop_active
  fault, lost, blocked,        \* sensor_fault_active, localization_lost, obstacle_blocked
  overdue,     \* obstacle_since is older than obstacle_blocked_timeout_sec
  resume,      \* resume_future: none, pending, or its result
  clear,       \* obstacle_clear_future: none, pending, or done
  ok,          \* the last action result was a success
  cancelSent,  \* cancel_goal_async was called on the stored goal handle
  tails,       \* callbacks between their flag and their transition
  effEstop,    \* self._effective_estop_active
  fresh        \* has_fresh_localization()

flags == <<pause, cancel, estop, fault, lost, blocked, overdue>>
node  == <<effEstop, fresh>>
lap   == <<start, loop, laps>>
count == <<completed, failed, skipped>>
work  == <<lap, index, task, count, retry>>
still == <<goal, flags, resume, clear, ok, cancelSent, tails, node>>
vars  == <<pc, ret, mstate, goal, work, flags, resume, clear, ok, cancelSent,
           tails, node>>

-----------------------------------------------------------------------------
(* Helpers shared by the coroutine's steps.                                *)

Live == pc # "idle"

\* A goal is being sent to Nav2, the verifier or the inspector; the handle of
\* an accepted one is stored.
Sending == {"nav_sent", "chk_sent", "ins_sent"}
AwaitResult == {"nav_result", "chk_result", "ins_result"}
HandleStored == pc \in AwaitResult

\* Mutant: the retry is not counted.
BumpForgotten(n, cap) == n

Bump(n, cap) == IF n < cap THEN n + 1 ELSE n

\* cancel_goal_async on whichever handle is stored.
CancelActiveGoals == cancelSent' = IF HandleStored THEN TRUE ELSE cancelSent

CanEnter(target) == mstate = target \/ can_transition(mstate, target)

\* transition(target), then on to place l; a refused one raises.
Enter(target, l) ==
  IF CanEnter(target) THEN mstate' = target /\ pc' = l
                      ELSE mstate' = mstate /\ pc' = "raise"

Goto(l) == pc' = l /\ UNCHANGED mstate

\* Mutant: waits without saying so.
WaitSilently(target, l) == Goto("park") /\ ret' = l

\* Enter a waiting state, then await_resume, which on success returns to l.
WaitIn(target, l) == Enter(target, "park") /\ ret' = l

\* Mutant: a cancel through /mission/control is overlooked.
cancel_of_action_only == goal = "canceling"

cancel_requested == cancel \/ goal = "canceling"

\* Mutant: the emergency stop is left out of the check.
should_cancel_no_estop == cancel \/ pause

\* Tested under the lock that stores a handle.
should_cancel == cancel \/ pause \/ estop

\* Why check-in and inspection give up their goal and re-navigate.
Disturbed == pause \/ estop \/ lost \/ fault

Policy == Route[index]

AddFailed == failed' = Bump(failed, FailCap)

-----------------------------------------------------------------------------
(* Starting a patrol.                                                      *)

Init ==
  /\ pc = "idle" /\ ret = "loop_top" /\ mstate = "IDLE" /\ goal = "none"
  /\ start = 0 /\ loop = FALSE /\ laps = 0
  /\ index = 0 /\ task = 0 /\ retry = 0
  /\ completed = 0 /\ failed = 0 /\ skipped = 0
  /\ pause = FALSE /\ cancel = FALSE /\ estop = FALSE
  /\ fault = FALSE /\ lost = FALSE /\ blocked = FALSE /\ overdue = FALSE
  /\ resume = "none" /\ clear = "none" /\ ok = FALSE /\ cancelSent = FALSE
  /\ tails = {} /\ effEstop = FALSE /\ fresh = FALSE

\* A goal is accepted only while runtime is None; it gets a fresh runtime.
AcceptGoal ==
  /\ ~Live
  /\ start' \in 0..(N - 1) /\ index' = start'
  /\ loop' \in Loops /\ laps' = 0
  /\ pc' = "created" /\ mstate' = "IDLE" /\ goal' = "executing"
  /\ ret' = "loop_top" /\ task' = 0 /\ retry' = 0
  /\ completed' = 0 /\ failed' = 0 /\ skipped' = 0
  /\ pause' = FALSE /\ cancel' = FALSE /\ estop' = FALSE
  /\ fault' = FALSE /\ lost' = FALSE /\ blocked' = FALSE /\ overdue' = FALSE
  /\ resume' = "none" /\ clear' = "none" /\ ok' = FALSE /\ cancelSent' = FALSE
  /\ tails' = {} /\ UNCHANGED node

Begin ==
  /\ \/ pc = "created" /\ Enter("PREPARING", "prepared")
     \/ pc = "prepared" /\ Enter("LOCALIZING", "ensure_start")
  /\ UNCHANGED <<ret, work, still>>

\* Returns to "next" once the pose is fresh; otherwise the operator is asked,
\* and after a resume the pose is checked again.
EnsureAt(here, recheck, next) ==
  \/ /\ pc = here
     /\ IF ~RequireLocalization
        THEN Goto(next) /\ UNCHANGED <<ret, lost>>
        ELSE IF fresh THEN Goto(next) /\ lost' = FALSE /\ UNCHANGED ret
        ELSE WaitIn("WAITING_OPERATOR", recheck) /\ lost' = TRUE
  \/ pc = recheck /\ Enter("LOCALIZING", here) /\ UNCHANGED <<ret, lost>>

\* Its three callers: the start of a patrol, and both checks of navigation.
ensure_localization ==
  /\ \/ EnsureAt("ensure_start", "recheck_start", "loop_top")
     \/ EnsureAt("ensure_nav", "recheck_nav", "nav_stop")
     \/ EnsureAt("ensure_result", "recheck_result", "nav_after")
  /\ UNCHANGED <<goal, work, pause, cancel, estop, fault, blocked, overdue,
                 resume, clear, ok, cancelSent, tails, node>>

\* Mutant: the last checkpoint is left out.
EndOfRouteEarly == index >= N - 1

EndOfRoute == index >= N

\* Head of the while loop: cancel first, then the end of the route.
LoopTop ==
  /\ pc = "loop_top"
  /\ \/ cancel_requested /\ Goto("cancelled") /\ UNCHANGED <<laps, index>>
     \/ /\ ~cancel_requested /\ ~EndOfRoute
        /\ Goto("loop_stop") /\ UNCHANGED <<laps, index>>
     \/ /\ ~cancel_requested /\ EndOfRoute /\ ~loop
        /\ Goto("success") /\ UNCHANGED <<laps, index>>
     \/ /\ ~cancel_requested /\ EndOfRoute /\ loop /\ laps < MaxLaps
        /\ laps' = laps + 1 /\ index' = 0 /\ Goto("loop_stop")
  /\ UNCHANGED <<ret, start, loop, task, count, retry, still>>

-----------------------------------------------------------------------------
(* Stopping and resuming.                                                  *)

StopAt(here, next) ==
  /\ pc = here
  /\ \/ estop /\ WaitIn("ESTOPPED", next)
     \/ ~estop /\ pause /\ Enter("PAUSING", "stopping") /\ ret' = next
     \/ ~estop /\ ~pause /\ Goto(next) /\ UNCHANGED ret

wait_if_stopped ==
  /\ StopAt("loop_stop", "nav_checks") \/ StopAt("nav_stop", "nav_blocked")
  /\ UNCHANGED <<work, still>>

EnterPaused ==
  /\ pc = "stopping"
  /\ Enter("PAUSED", "park")
  /\ UNCHANGED <<ret, work, still>>

\* await_resume up to its await: the future is created here and nowhere else.
await_resume ==
  /\ pc = "park"
  /\ resume' = "pending" /\ Goto("parked")
  /\ UNCHANGED <<ret, goal, work, flags, clear, ok, cancelSent, tails, node>>

\* await_resume after its await.  FALSE means cancelled to every caller.
Wake ==
  /\ pc = "parked" /\ resume \in {"yes", "no"}
  /\ resume' = "none"
  /\ IF ~cancel /\ resume = "yes"
     THEN Goto(ret) /\ pause' = FALSE /\ estop' = FALSE
     ELSE Goto("cancelled") /\ UNCHANGED <<pause, estop>>
  /\ UNCHANGED <<ret, goal, work, cancel, fault, lost, blocked, overdue,
                 clear, ok, cancelSent, tails, node>>

-----------------------------------------------------------------------------
(* navigate_checkpoint.                                                   *)

\* The checks before a goal is sent and those after its result; a resume
\* from the sensor fault wait returns 'retry' out of navigate_checkpoint,
\* which execute_patrol takes for an arrival.
ChecksAt(here, relocalize, next) ==
  /\ pc = here
  /\ \/ cancel_requested /\ Goto("cancelled") /\ UNCHANGED ret
     \/ ~cancel_requested /\ fault /\ WaitIn("WAITING_OPERATOR", "arrive")
     \/ /\ ~cancel_requested /\ ~fault
        /\ Goto(IF lost THEN relocalize ELSE next) /\ UNCHANGED ret

NavigationChecks ==
  /\ \/ ChecksAt("nav_checks", "ensure_nav", "nav_stop")
     \/ ChecksAt("nav_done", "ensure_result", "nav_after")
  /\ UNCHANGED <<work, still>>

RestartIfStopped ==
  /\ pc = "nav_after"
  /\ Goto(IF estop \/ pause THEN "nav_checks" ELSE "result_blocked")
  /\ UNCHANGED <<ret, work, still>>

\* recovery_policy.blocked_recovery: WAIT, RETRY or WAIT_OPERATOR.
blocked_recovery ==
  IF ~blocked \/ ~overdue THEN "WAIT"
  ELSE IF retry < MaxBlockedRetries THEN "RETRY" ELSE "WAIT_OPERATOR"

BlockedAt(here, next) ==
  /\ pc = here
  /\ \/ blocked_recovery = "WAIT" /\ Goto(next) /\ UNCHANGED ret
     \/ blocked_recovery = "RETRY" /\ Enter("BLOCKED", "clear") /\ UNCHANGED ret
     \/ /\ blocked_recovery = "WAIT_OPERATOR"
        /\ WaitIn("WAITING_OPERATOR", "nav_checks")

blocked_outcome ==
  /\ \/ BlockedAt("nav_blocked", "nav_go")
     \/ BlockedAt("result_blocked", "nav_verdict")
  /\ UNCHANGED <<work, still>>

\* Mutant: waits without testing whether the obstacle is still there.
AwaitClearUnchecked ==
  /\ pc = "clear" /\ clear' = "pending" /\ Goto("clear_wait")
  /\ UNCHANGED <<ret, goal, work, flags, resume, ok, cancelSent, tails, node>>

\* Under the lock: already clear, or a future that on_obstacle_blocked sets.
AwaitClear ==
  /\ pc = "clear"
  /\ IF blocked THEN clear' = "pending" /\ Goto("clear_wait")
                ELSE Goto("nav_checks") /\ UNCHANGED clear
  /\ UNCHANGED <<ret, goal, work, flags, resume, ok, cancelSent, tails, node>>

Cleared ==
  /\ pc = "clear_wait" /\ clear = "done"
  /\ clear' = "none"
  /\ IF cancel_requested
     THEN Goto("cancelled") /\ UNCHANGED retry
     ELSE Enter("RECOVERING", "nav_checks") /\ retry' = Bump(retry, RetryCap)
  /\ UNCHANGED <<ret, goal, lap, index, task, count, flags, resume, ok,
                 cancelSent, tails, node>>

\* Mutant: the goal is sent without the transition.
SendWithoutTransition ==
  pc = "nav_go" /\ Goto("nav_sent") /\ UNCHANGED <<ret, work, still>>

EnterNavigating ==
  /\ pc = "nav_go"
  /\ Enter("NAVIGATING", "nav_sent")
  /\ UNCHANGED <<ret, work, still>>

\* A goal was sent: the server is missing or rejects it, or the accepted
\* handle is stored under the lock and at once cancelled if a stop came first.
StoreHandle ==
  /\ \/ pc = "nav_sent" /\ Goto("nav_result")
     \/ pc = "chk_sent" /\ Goto("chk_result")
     \/ pc = "ins_sent" /\ Goto("ins_result")
  /\ cancelSent' = should_cancel
  /\ UNCHANGED <<ret, goal, work, flags, resume, clear, ok, tails, node>>

GoalRefused ==
  /\ \/ pc = "nav_sent" /\ Goto("nav_fail")
     \/ pc = "chk_sent" /\ Goto("chk_fail")
     \/ pc = "ins_sent" /\ Goto("ins_analyse")
  /\ ok' = FALSE
  /\ UNCHANGED <<ret, goal, work, flags, resume, clear, cancelSent, tails,
                 node>>

\* The result of the stored goal; the handle is forgotten.
Result ==
  /\ \/ pc = "nav_result" /\ Goto("nav_done")
     \/ pc = "chk_result" /\ Goto("chk_done")
     \/ pc = "ins_result" /\ Goto("ins_done")
  /\ ok' \in BOOLEAN
  /\ cancelSent' = FALSE
  /\ UNCHANGED <<ret, goal, work, flags, resume, clear, tails, node>>

NavigationVerdict ==
  /\ pc = "nav_verdict"
  /\ IF ok THEN Goto("arrive") /\ retry' = 0
           ELSE Goto("nav_fail") /\ UNCHANGED retry
  /\ UNCHANGED <<ret, lap, index, task, count, still>>

handle_navigation_failure ==
  /\ pc = "nav_fail"
  /\ retry' = Bump(retry, RetryCap)
  /\ \/ /\ retry' <= MaxNavRetries
        /\ Enter("RECOVERING", "nav_checks") /\ UNCHANGED <<ret, failed>>
     \/ /\ retry' > MaxNavRetries /\ Policy.nav = "abort_mission"
        /\ Goto("abort") /\ AddFailed /\ UNCHANGED ret
     \/ /\ retry' > MaxNavRetries /\ Policy.nav = "retry_then_skip"
        /\ Goto("skip") /\ UNCHANGED <<ret, failed>>
     \/ /\ retry' > MaxNavRetries /\ Policy.nav = "retry_then_wait_operator"
        /\ WaitIn("WAITING_OPERATOR", "nav_checks") /\ UNCHANGED failed
  /\ UNCHANGED <<lap, index, task, completed, skipped, still>>

SkipCheckpoint ==
  /\ pc = "skip"
  /\ AddFailed /\ skipped' = skipped + 1
  /\ retry' = 0 /\ index' = index + 1 /\ Goto("loop_top")
  /\ UNCHANGED <<ret, lap, task, completed, still>>

-----------------------------------------------------------------------------
(* Check-in and inspection at the checkpoint.                              *)

Arrive ==
  /\ \/ pc = "arrive" /\ Enter("ARRIVAL_CONFIRMING", "checkin")
     \/ /\ pc = "checkin"
        /\ Enter("CHECKING_IN",
                 IF Policy.checkin = "none" THEN "inspect" ELSE "chk_checks")
  /\ task' = 0
  /\ UNCHANGED <<ret, lap, index, count, retry, still>>

\* The checks of check-in and inspection, before a goal and after a result.
CheckpointChecks ==
  /\ \E proceed \in {<<"chk_checks", "chk_sent">>, <<"ins_checks", "ins_sent">>,
                     <<"chk_done", IF ok THEN "inspect" ELSE "chk_fail">>,
                     <<"ins_done", "ins_analyse">>} :
       /\ pc = proceed[1]
       /\ Goto(IF cancel_requested THEN "cancelled"
               ELSE IF Disturbed THEN "loop_top" ELSE proceed[2])
  /\ UNCHANGED <<ret, work, still>>

handle_checkin_failure ==
  /\ pc = "chk_fail"
  /\ retry' = Bump(retry, RetryCap)
  /\ \/ /\ retry' <= Policy.retries
        /\ Goto("chk_checks") /\ UNCHANGED <<ret, failed>>
     \/ /\ retry' > Policy.retries /\ Policy.checkin = "abort_mission"
        /\ Goto("abort") /\ AddFailed /\ UNCHANGED ret
     \/ /\ retry' > Policy.retries /\ Policy.checkin = "retry_then_wait_operator"
        /\ WaitIn("WAITING_OPERATOR", "loop_top") /\ UNCHANGED failed
     \/ /\ retry' > Policy.retries /\ Policy.checkin = "alert_and_continue"
        /\ Goto("inspect") /\ AddFailed /\ UNCHANGED ret
  /\ UNCHANGED <<lap, index, task, completed, skipped, still>>

execute_inspection_task ==
  /\ pc = "inspect"
  /\ IF task < Len(Policy.tasks) THEN Enter("CAPTURING", "ins_checks")
                            ELSE Goto("record")
  /\ UNCHANGED <<ret, work, still>>

\* Mutant: the state read before the lock was released is trusted.
StaleFeedback ==
  /\ mstate # "INSPECTING" /\ Live /\ mstate \notin TERMINAL_STATES
  /\ pc \in {"ins_result", "ins_done", "ins_analyse"} \/ task > 0
  /\ mstate' = "INSPECTING"
  /\ UNCHANGED <<pc, ret, work, still>>

\* Feedback may overtake the result, or arrive when the next task captures.
on_inspection_feedback ==
  /\ mstate = "CAPTURING"
  /\ pc \in {"ins_result", "ins_done", "ins_analyse"} \/ task > 0
  /\ mstate' = "INSPECTING"
  /\ UNCHANGED <<pc, ret, work, still>>

\* An unresolved required task follows the checkpoint's policy; "ok" is
\* success with a conclusion that needs no human review.
handle_inspection_result ==
  \/ /\ pc = "ins_analyse"
     /\ IF mstate = "CAPTURING" THEN Enter("INSPECTING", "ins_verdict")
                                ELSE Goto("ins_verdict")
     /\ UNCHANGED <<ret, work, still>>
  \/ /\ pc = "ins_verdict"
     /\ LET unresolved == Policy.tasks[task + 1] /\ ~ok IN
        \/ /\ unresolved /\ Policy.inspection = "abort_mission"
           /\ Goto("abort") /\ AddFailed /\ UNCHANGED <<ret, task>>
        \/ /\ unresolved /\ Policy.inspection = "wait_operator"
           /\ WaitIn("WAITING_OPERATOR", "loop_top") /\ UNCHANGED <<failed, task>>
        \/ /\ unresolved /\ Policy.inspection = "alert_and_continue"
           /\ Goto("inspect") /\ AddFailed /\ task' = task + 1 /\ UNCHANGED ret
        \/ /\ ~unresolved
           /\ Goto("inspect") /\ task' = task + 1 /\ UNCHANGED <<ret, failed>>
     /\ UNCHANGED <<lap, index, completed, skipped, retry, still>>

Record ==
  /\ pc = "record"
  /\ Enter("RECORDING", "advance")
  /\ UNCHANGED <<ret, work, still>>

\* Mutant: the checkpoint is passed without being counted.
AdvanceUncounted ==
  /\ pc = "advance"
  /\ retry' = 0 /\ index' = index + 1 /\ Goto("loop_top")
  /\ UNCHANGED <<ret, lap, task, count, still>>

Advance ==
  /\ pc = "advance"
  /\ completed' = completed + 1
  /\ retry' = 0 /\ index' = index + 1 /\ Goto("loop_top")
  /\ UNCHANGED <<ret, lap, task, failed, skipped, still>>

-----------------------------------------------------------------------------
(* The ends of a patrol.  runtime is cleared in the finally clause.       *)

\* Mutant: a refused transition is swallowed.
SucceedAnyway ==
  /\ pc = "success"
  /\ mstate' = IF CanEnter("COMPLETED") THEN "COMPLETED" ELSE mstate
  /\ goal' = "succeeded" /\ pc' = "idle"
  /\ UNCHANGED <<ret, work, flags, resume, clear, ok, cancelSent, tails, node>>

finalize_success ==
  /\ pc = "success"
  /\ Enter("COMPLETED", "idle")
  /\ goal' = IF CanEnter("COMPLETED") THEN "succeeded" ELSE goal
  /\ UNCHANGED <<ret, work, flags, resume, clear, ok, cancelSent, tails, node>>

\* goal_handle.canceled() is legal only once the action server has been asked
\* to cancel; after a cancel through /mission/control it raises.
finalize_cancelled ==
  /\ pc = "cancelled"
  /\ mstate' = IF CanEnter("CANCELLED") THEN "CANCELLED" ELSE mstate
  /\ IF CanEnter("CANCELLED") /\ goal = "canceling"
     THEN goal' = "canceled" /\ pc' = "idle"
     ELSE goal' = goal /\ pc' = "raise"
  /\ UNCHANGED <<ret, work, flags, resume, clear, ok, cancelSent, tails, node>>

\* Reached by a policy ("abort") or by an exception ("raise"); when even
\* FAILED is refused the exception escapes and rclpy aborts the goal.
finalize_failed ==
  /\ pc \in {"abort", "raise"}
  /\ mstate' = IF CanEnter("FAILED") THEN "FAILED" ELSE mstate
  /\ goal' = "aborted" /\ pc' = "idle"
  /\ UNCHANGED <<ret, work, flags, resume, clear, ok, cancelSent, tails, node>>

-----------------------------------------------------------------------------
(* Operator control: the /mission/control service and the action's cancel. *)

PauseRequest ==
  /\ "pause" \in Controls /\ Live
  /\ mstate \notin TERMINAL_STATES \cup {"ESTOPPED", "PAUSED"}
  /\ pause' = TRUE /\ tails' = tails \cup {"pause"}
  /\ UNCHANGED <<pc, ret, mstate, goal, work, cancel, estop, fault, lost,
                 blocked, overdue, resume, clear, ok, cancelSent, node>>

\* The rest of the callback; a refused transition raises before the cancels.
Interrupt(callback, target) ==
  /\ Live /\ callback \in tails
  /\ tails' = tails \ {callback}
  /\ IF CanEnter(target)
     THEN mstate' = target /\ CancelActiveGoals
     ELSE UNCHANGED <<mstate, cancelSent>>
  /\ UNCHANGED <<pc, ret, goal, work, flags, resume, clear, ok, node>>

PauseTransition == Interrupt("pause", "PAUSING")

ResumeRequest ==
  /\ "resume" \in Controls /\ Live
  /\ ~effEstop
  /\ mstate \in {"PAUSED", "WAITING_OPERATOR", "ESTOPPED"}
  /\ resume = "pending"
  /\ resume' = "yes"
  /\ UNCHANGED <<pc, ret, mstate, goal, work, flags, clear, ok, cancelSent,
                 tails, node>>

\* The cancel completes resume_future only if one exists at that moment; the
\* action server moves its goal to CANCELING after the callback returned.
request_cancel ==
  /\ Live
  /\ cancel' = TRUE
  /\ CancelActiveGoals
  /\ resume' = IF resume = "pending" THEN "no" ELSE resume
  /\ \/ "cancel" \in Controls /\ UNCHANGED tails
     \/ /\ "action_cancel" \in Controls
        /\ tails' = tails \cup {"canceling"}
  /\ UNCHANGED <<pc, ret, mstate, goal, work, pause, estop, fault, lost,
                 blocked, overdue, clear, ok, node>>

GoalCanceling ==
  /\ Live /\ "canceling" \in tails
  /\ tails' = tails \ {"canceling"} /\ goal' = "canceling"
  /\ UNCHANGED <<pc, ret, mstate, work, flags, resume, clear, ok, cancelSent,
                 node>>

-----------------------------------------------------------------------------
(* Safety callbacks.                                                       *)

Watching == Live /\ mstate \notin TERMINAL_STATES

on_effective_estop(active) ==
  /\ "estop" \in Signals
  /\ effEstop' = active
  /\ IF active /\ Watching
     THEN estop' = TRUE /\ tails' = tails \cup {"estop"}
     ELSE UNCHANGED <<estop, tails>>
  /\ UNCHANGED <<pc, ret, mstate, goal, work, pause, cancel, fault, lost,
                 blocked, overdue, resume, clear, ok, cancelSent, fresh>>

EstopTransition == Interrupt("estop", "ESTOPPED")

on_obstacle_blocked(present) ==
  /\ "obstacle" \in Signals /\ Watching
  /\ blocked' = present
  /\ overdue' = (overdue /\ present /\ blocked)
  /\ clear' = IF ~present /\ clear = "pending" THEN "done" ELSE clear
  /\ UNCHANGED <<pc, ret, mstate, goal, work, pause, cancel, estop, fault,
                 lost, resume, ok, cancelSent, tails, node>>

\* obstacle_blocked_timeout_sec passes while the obstacle stays.  Seconds pass
\* only where the coroutine awaits something.
Awaiting == AwaitResult \cup Sending \cup {"parked", "clear_wait"}

ObstacleTimeout ==
  /\ pc \in Awaiting /\ (pc = "parked" => resume = "pending")
  /\ blocked /\ ~overdue /\ overdue' = TRUE
  /\ UNCHANGED <<pc, ret, mstate, goal, work, pause, cancel, estop, fault,
                 lost, blocked, resume, clear, ok, cancelSent, tails, node>>

on_sensor_fault(active) ==
  /\ "sensor_fault" \in Signals /\ Watching
  /\ fault' = active
  /\ IF active THEN CancelActiveGoals ELSE UNCHANGED cancelSent
  /\ UNCHANGED <<pc, ret, mstate, goal, work, pause, cancel, estop, lost,
                 blocked, overdue, resume, clear, ok, tails, node>>

\* /amcl_pose arrives, or its last message grows too old.
on_localization ==
  /\ "localization" \in Signals
  /\ fresh' \in BOOLEAN
  /\ UNCHANGED <<pc, ret, mstate, goal, work, flags, resume, clear, ok,
                 cancelSent, tails, effEstop>>

monitor_runtime ==
  /\ Watching
  /\ \/ /\ RequireLocalization /\ ~fresh
        /\ lost' = TRUE
        /\ mstate' = IF CanEnter("WAITING_OPERATOR") THEN "WAITING_OPERATOR"
                                                     ELSE mstate
        /\ CancelActiveGoals
     \/ /\ ~(RequireLocalization /\ ~fresh) /\ blocked /\ overdue
        /\ cancelSent' = IF pc = "nav_result" THEN TRUE ELSE cancelSent
        /\ UNCHANGED <<lost, mstate>>
  /\ UNCHANGED <<pc, ret, goal, work, pause, cancel, estop, fault, blocked,
                 overdue, resume, clear, ok, tails, node>>

-----------------------------------------------------------------------------
Starting == Begin \/ ensure_localization \/ LoopTop
Stopping == wait_if_stopped \/ EnterPaused \/ await_resume \/ Wake
Navigating ==
  \/ NavigationChecks \/ RestartIfStopped \/ blocked_outcome \/ AwaitClear
  \/ Cleared \/ EnterNavigating \/ NavigationVerdict
  \/ handle_navigation_failure \/ SkipCheckpoint
AwaitingGoal == StoreHandle \/ GoalRefused \/ Result
AtCheckpoint ==
  \/ Arrive \/ CheckpointChecks \/ handle_checkin_failure
  \/ execute_inspection_task \/ handle_inspection_result \/ Record \/ Advance
Ending == finalize_success \/ finalize_cancelled \/ finalize_failed

Coroutine ==
  Starting \/ Stopping \/ Navigating \/ AwaitingGoal \/ AtCheckpoint \/ Ending

Operator ==
  \/ PauseRequest \/ PauseTransition \/ ResumeRequest \/ request_cancel
  \/ GoalCanceling
Sensors ==
  \/ EstopTransition \/ ObstacleTimeout \/ on_localization \/ monitor_runtime
  \/ on_inspection_feedback
  \/ \E b \in BOOLEAN : \/ on_effective_estop(b)
                        \/ on_obstacle_blocked(b)
                        \/ on_sensor_fault(b)

Callbacks == Operator \/ Sensors

Next == AcceptGoal \/ Coroutine \/ Callbacks

Spec == Init /\ [][Next]_vars

\* The executor keeps running a ready coroutine and a callback in flight, and
\* the action servers answer every goal.
FairSpec ==
  Spec /\ WF_vars(Coroutine) /\ WF_vars(PauseTransition)
       /\ WF_vars(EstopTransition) /\ WF_vars(GoalCanceling)
-----------------------------------------------------------------------------
(* Properties.                                                             *)

Places ==
  {"idle", "created", "prepared", "ensure_start", "ensure_nav",
   "ensure_result", "recheck_start", "recheck_nav", "recheck_result",
   "loop_top", "loop_stop", "stopping", "park", "parked", "nav_checks",
   "nav_stop", "nav_blocked", "nav_go", "nav_sent", "nav_result", "nav_done",
   "nav_after", "result_blocked", "nav_verdict", "nav_fail", "skip", "clear",
   "clear_wait", "arrive", "checkin", "chk_checks", "chk_sent", "chk_result",
   "chk_done", "chk_fail", "inspect", "ins_checks", "ins_sent", "ins_result",
   "ins_done", "ins_analyse", "ins_verdict", "record", "advance", "success",
   "cancelled", "abort", "raise"}

\* Where a resume takes the coroutine.
ResumePlaces == {"loop_top", "nav_checks", "nav_blocked", "arrive",
                 "recheck_start", "recheck_nav", "recheck_result"}

\* Every variable keeps to its range; the counters of a MissionRuntime stay
\* natural numbers and the index within the route (or just past its end).
TypeOK ==
  /\ pc \in Places /\ ret \in ResumePlaces /\ mstate \in MissionState
  /\ goal \in {"none", "executing", "canceling", "succeeded", "canceled",
               "aborted"}
  /\ start \in 0..(N - 1) /\ loop \in BOOLEAN /\ laps \in 0..MaxLaps
  /\ index \in 0..N /\ task \in Nat /\ retry \in 0..RetryCap
  /\ completed \in Nat /\ failed \in 0..FailCap /\ skipped \in Nat
  /\ pause \in BOOLEAN /\ cancel \in BOOLEAN /\ estop \in BOOLEAN
  /\ fault \in BOOLEAN /\ lost \in BOOLEAN /\ blocked \in BOOLEAN
  /\ overdue \in BOOLEAN /\ ok \in BOOLEAN /\ cancelSent \in BOOLEAN
  /\ resume \in {"none", "pending", "yes", "no"}
  /\ clear \in {"none", "pending", "done"}
  /\ tails \subseteq {"pause", "estop", "canceling"}
  /\ effEstop \in BOOLEAN /\ fresh \in BOOLEAN

\* A goal handle stored while a cancel, pause or emergency stop is flagged has
\* been told to cancel, or the callback that will tell it is still in flight:
\* neither the should_cancel check made under the lock nor the callback that
\* reads the stored handles can be overtaken by the other.
StopCancelsGoal ==
  HandleStored =>
    /\ cancel => cancelSent
    /\ estop => cancelSent \/ "estop" \in tails
    /\ pause => cancelSent \/ "pause" \in tails

\* While the mission reports PAUSED no goal is with Nav2, the verifier or the
\* inspector: an operator may take over as soon as that state is published.
PausedIsStill == mstate = "PAUSED" => pc \notin Sending \cup AwaitResult

\* A coroutine that waits for the operator is in a state the operator can
\* see as held: stopped, waiting, paused, or about to be paused.
ParkedIsHeld ==
  pc = "parked" =>
    mstate \in {"PAUSING", "PAUSED", "WAITING_OPERATOR", "ESTOPPED"}

\* ... and the resume command is not refused for the state it is in.
ParkedIsResumable ==
  pc = "parked" => mstate \in {"PAUSED", "WAITING_OPERATOR", "ESTOPPED"}

\* The coroutine never sleeps on an obstacle that is already gone: testing
\* obstacle_blocked and creating the future are one critical section.
ClearNotLost == clear = "pending" => blocked

\* Every checkpoint from the requested one on is completed or skipped exactly
\* once per lap, whatever pauses, restarts and retries happen in between.
Accounting ==
  Live => completed + skipped + start = laps * N + index

\* The final state and the outcome reported on the action agree.
OutcomeAgrees ==
  ~Live => /\ goal = "succeeded" <=> mstate = "COMPLETED"
           /\ goal = "canceled" => mstate = "CANCELLED"

\* The promise to the submitter, see MissionLifecycle.
Lifecycle == INSTANCE MissionLifecycle WITH
  Laps <- MaxLaps,
  status <- IF Live THEN "active" ELSE IF mstate = "IDLE" THEN "none" ELSE mstate,
  position <- index,
  accounted <- completed + skipped,
  lap <- laps

KeepsPromise == Lifecycle!Spec

\* The state moves along the table only, the callbacks' transitions and the
\* feedback's included, and rests between patrols: what AppBridge takes for
\* granted of every patrol it hears of.
TableIsKept ==
  [][IF Live THEN mstate' = mstate \/ can_transition(mstate, mstate')
             ELSE mstate' \in {mstate, "IDLE"}]_vars

\* A cancel that finds a goal with a server ends the patrol, whatever other
\* commands and stops arrive meanwhile.
CancelDuringGoalEnds == (HandleStored /\ cancel) ~> ~Live

\* Obstacle, sensor fault and pose have changed for the last time.  A flag that
\* flaps for ever may send the coroutine round for ever: a disturbed check-in
\* and an obstacle that goes in time count no retry.
Steady == <>[][UNCHANGED <<blocked, fault, fresh>>]_vars

\* Whatever is commanded, stopped or refused, and in whichever state obstacle,
\* sensors and pose come to stay, the coroutine comes to rest: the patrol is
\* over, or waits for the operator or for an obstacle that is still there to
\* go.  The retries are bounded across navigation, check-in and inspection.
ComesToRest ==
  Steady => (Live ~> \/ pc = "parked" \/ ~Live
                     \/ pc = "clear_wait" /\ blocked)

\* What documentation and messages of the code say of a mission, and the
\* interleavings of the code do not keep (see the README's findings).

\* A resume restarts navigation: a mission held for the operator does not
\* fail because the operator let it continue.
ResumeKeepsMission == [][mstate = "WAITING_OPERATOR" => mstate' # "FAILED"]_vars

\* Pausing keeps the context of the mission for an explicit resume.
PauseKeepsMission ==
  [][(mstate \in {"PAUSING", "PAUSED"}) => mstate' # "FAILED"]_vars

\* After an emergency stop motion restarts only through an explicit resume,
\* which is what clears estop_active.
EstopNeedsResume ==
  [][mstate = "ESTOPPED" /\ mstate' = "NAVIGATING" => ~estop]_vars

\* An obstacle that stays ends in WAITING_OPERATOR, not in a failed mission.
ObstacleNeverFails == mstate # "FAILED"

\* A cancelled mission does not go on waiting for a resume.
CancelNotLost == pc = "parked" /\ cancel => resume # "pending"

\* Nor does it go on waiting for an obstacle to go.
CancelEndsBlocked == pc = "clear_wait" /\ cancel => clear # "pending"

\* A mission that ended CANCELLED reports its goal as canceled.
CancelledReported == ~Live /\ mstate = "CANCELLED" => goal = "canceled"
-----------------------------------------------------------------------------
(* The inductive invariant from which the safety properties are proved.    *)

\* Places where a goal is sent, outstanding or just answered: reached only
\* through a transition of the coroutine's own.
GoalPlaces ==
  {"nav_sent", "nav_result", "nav_done", "checkin", "chk_checks", "chk_sent",
   "chk_result", "chk_done", "chk_fail", "inspect", "ins_checks", "ins_sent",
   "ins_result", "ins_done", "ins_analyse", "ins_verdict"}

\* The state machine is in an active state from "prepared" to the end, so that
\* an emergency stop is never refused while a goal is outstanding.
StateFollowsPlace ==
  /\ pc = "created" => mstate = "IDLE"
  /\ pc = "idle" => mstate \in TERMINAL_STATES \cup {"IDLE"}
  /\ pc = "raise" => mstate \in ActiveStates \cup {"CANCELLED"}
  /\ pc \notin {"created", "idle", "raise"} => mstate \in ActiveStates
  /\ pc \in {"park", "parked"} =>
       mstate \in {"PAUSING", "PAUSED", "WAITING_OPERATOR", "ESTOPPED"}
  /\ mstate = "PAUSED" => pc \notin GoalPlaces

FuturesFollowPlace ==
  /\ resume # "none" => pc = "parked"
  /\ clear # "none" => pc = "clear_wait"
  /\ clear = "pending" => blocked

StopsFollowFlags ==
  HandleStored =>
    /\ cancel => cancelSent
    /\ estop => cancelSent \/ "estop" \in tails
    /\ pause => cancelSent \/ ("pause" \in tails /\ mstate # "ESTOPPED")

WithinRoute ==
  /\ pc \notin {"loop_top", "success", "cancelled", "raise", "idle"} => index < N
  /\ pc = "success" => index = N

GoalFollowsPlace ==
  /\ Live => goal \in {"executing", "canceling"}
  /\ OutcomeAgrees

NoPauseNoPausing ==
  "pause" \notin Controls =>
    ~pause /\ "pause" \notin tails /\ mstate # "PAUSING" /\ pc # "stopping"

IInv ==
  /\ TypeOK /\ StateFollowsPlace /\ FuturesFollowPlace /\ StopsFollowFlags
  /\ WithinRoute /\ Accounting /\ GoalFollowsPlace /\ NoPauseNoPausing
=============================================================================
