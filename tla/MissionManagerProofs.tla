------------------------ MODULE MissionManagerProofs ------------------------
(***************************************************************************)
(* Proofs about MissionManager, for every route and every choice of the    *)
(* parameters: IInv is inductive (one lemma per conjunct, by groups of     *)
(* actions), so the safety properties hold of Spec, and every step of the  *)
(* mission manager is a step or a stutter of MissionLifecycle.             *)
(***************************************************************************)
EXTENDS MissionManager, TLAPS

-----------------------------------------------------------------------------
(* The initial state.                                                      *)

\* The invariant holds before any patrol was requested.
LEMMA InitIInv == Init => IInv
<1> SUFFICES ASSUME Init PROVE IInv
  OBVIOUS
<1> USE DEF Init
<1>1. TypeOK
  <2>1. /\ start \in 0..(N - 1) /\ laps \in 0..MaxLaps
        /\ completed \in Nat /\ failed \in 0..FailCap /\ skipped \in Nat
    BY SizeAssumption, BoundAssumption
  <2>2. index \in 0..N /\ task \in Nat /\ retry \in 0..RetryCap
    BY SizeAssumption, RetryAssumption
  <2>3. /\ pc \in Places /\ ret \in ResumePlaces /\ mstate \in MissionState
        /\ goal \in {"none", "executing", "canceling", "succeeded",
                     "canceled", "aborted"}
        /\ resume \in {"none", "pending", "yes", "no"}
        /\ clear \in {"none", "pending", "done"}
        /\ tails \subseteq {"pause", "estop", "canceling"}
    BY DEF Places, ResumePlaces, MissionState
  <2>4. /\ loop \in BOOLEAN
        /\ pause \in BOOLEAN /\ cancel \in BOOLEAN /\ estop \in BOOLEAN
        /\ fault \in BOOLEAN /\ lost \in BOOLEAN /\ blocked \in BOOLEAN
        /\ overdue \in BOOLEAN /\ ok \in BOOLEAN /\ cancelSent \in BOOLEAN
        /\ effEstop \in BOOLEAN /\ fresh \in BOOLEAN
    OBVIOUS
  <2> QED BY <2>1, <2>2, <2>3, <2>4 DEF TypeOK
<1>2. StateFollowsPlace
  BY DEF StateFollowsPlace, GoalPlaces
<1>3. FuturesFollowPlace /\ StopsFollowFlags /\ WithinRoute
  BY DEF FuturesFollowPlace, StopsFollowFlags, WithinRoute, HandleStored,
         AwaitResult
<1>4. Accounting /\ GoalFollowsPlace /\ NoPauseNoPausing
  BY DEF Accounting, GoalFollowsPlace, OutcomeAgrees, NoPauseNoPausing, Live
<1> QED BY <1>1, <1>2, <1>3, <1>4 DEF IInv

-----------------------------------------------------------------------------
(* Types.                                                                  *)

\* Cancelling the stored handle keeps cancelSent a Boolean.
LEMMA CancelType ==
  ASSUME cancelSent \in BOOLEAN, CancelActiveGoals PROVE cancelSent' \in BOOLEAN
<1>1. CASE HandleStored
  BY <1>1 DEF CancelActiveGoals
<1>2. CASE ~HandleStored
  BY <1>2 DEF CancelActiveGoals
<1> QED BY <1>1, <1>2

\* Every step keeps every variable in its range.
LEMMA TypeStep == TypeOK /\ WithinRoute /\ [Next]_vars => TypeOK'
<1> SUFFICES ASSUME TypeOK, WithinRoute, [Next]_vars PROVE TypeOK'
  OBVIOUS
<1> USE DEF TypeOK, Enter, Goto, WaitIn, CanEnter, Places, ResumePlaces,
    MissionState, ActiveStates, TERMINAL_STATES, vars, work, lap, count,
    flags, node, still, WithinRoute, Bump, AddFailed
<1>1. CASE AcceptGoal
  <2>1. start' \in 0..(N - 1) /\ index' \in 0..N /\ laps' \in 0..MaxLaps
    BY SizeAssumption, BoundAssumption, <1>1 DEF AcceptGoal
  <2>2. loop' \in BOOLEAN
    BY OptionAssumption, <1>1 DEF AcceptGoal
  <2>3. failed' \in 0..FailCap /\ retry' \in 0..RetryCap
    BY RetryAssumption, BoundAssumption, <1>1 DEF AcceptGoal
  <2> QED BY <2>1, <2>2, <2>3, <1>1 DEF AcceptGoal
<1>2. CASE Starting
  <2>1. CASE Begin
    BY <2>1 DEF Begin
  <2>2. CASE ensure_localization
    <3>1. lost' \in BOOLEAN
      BY <2>2 DEF ensure_localization, EnsureAt
    <3>2. pc' \in Places /\ ret' \in ResumePlaces
      BY <2>2 DEF ensure_localization, EnsureAt
    <3>3. mstate' \in MissionState
      BY <2>2 DEF ensure_localization, EnsureAt
    <3> QED BY <3>1, <3>2, <3>3, <2>2 DEF ensure_localization, EnsureAt
  <2>3. CASE LoopTop
    BY SizeAssumption, BoundAssumption, RetryAssumption, <2>3 DEF LoopTop, EndOfRoute
  <2> QED BY <1>2, <2>1, <2>2, <2>3 DEF Starting
<1>3. CASE Stopping
  <2>1. CASE wait_if_stopped
    BY <2>1 DEF wait_if_stopped, StopAt
  <2>2. CASE EnterPaused
    BY <2>2 DEF EnterPaused
  <2>3. CASE await_resume
    BY <2>3 DEF await_resume
  <2>4. CASE Wake
    <3>1. pause' \in BOOLEAN /\ estop' \in BOOLEAN
      BY <2>4 DEF Wake
    <3>2. pc' \in Places /\ mstate' \in MissionState
      BY <2>4 DEF Wake
    <3> QED BY <3>1, <3>2, <2>4 DEF Wake
  <2> QED BY <1>3, <2>1, <2>2, <2>3, <2>4 DEF Stopping
<1>4. CASE Navigating
  <2>1. CASE NavigationChecks
    BY <2>1 DEF NavigationChecks, ChecksAt
  <2>2. CASE RestartIfStopped
    BY <2>2 DEF RestartIfStopped
  <2>3. CASE blocked_outcome
    BY <2>3 DEF blocked_outcome, BlockedAt
  <2>4. CASE AwaitClear
    BY <2>4 DEF AwaitClear
  <2>5. CASE Cleared
    BY SizeAssumption, BoundAssumption, RetryAssumption, <2>5 DEF Cleared
  <2>6. CASE EnterNavigating
    BY <2>6 DEF EnterNavigating
  <2>7. CASE NavigationVerdict
    BY SizeAssumption, BoundAssumption, RetryAssumption, <2>7 DEF
       NavigationVerdict
  <2>8. CASE handle_navigation_failure
    BY SizeAssumption, BoundAssumption, RetryAssumption, <2>8 DEF
       handle_navigation_failure
  <2>9. CASE SkipCheckpoint
    BY SizeAssumption, BoundAssumption, RetryAssumption, <2>9 DEF
       SkipCheckpoint
  <2> QED BY <1>4, <2>1, <2>2, <2>3, <2>4, <2>5, <2>6, <2>7, <2>8, <2>9 DEF
      Navigating
<1>5. CASE AwaitingGoal
  <2>1. CASE StoreHandle
    BY <2>1 DEF StoreHandle, should_cancel
  <2>2. CASE GoalRefused
    <3>1. ok' \in BOOLEAN
      BY <2>2 DEF GoalRefused
    <3>2. pc' \in Places /\ mstate' \in MissionState
      BY <2>2 DEF GoalRefused
    <3> QED BY <3>1, <3>2, <2>2 DEF GoalRefused
  <2>3. CASE Result
    <3>1. ok' \in BOOLEAN /\ cancelSent' \in BOOLEAN
      BY <2>3 DEF Result
    <3>2. pc' \in Places /\ mstate' \in MissionState
      BY <2>3 DEF Result
    <3> QED BY <3>1, <3>2, <2>3 DEF Result
  <2> QED BY <1>5, <2>1, <2>2, <2>3 DEF AwaitingGoal
<1>6. CASE AtCheckpoint
  <2>1. CASE Arrive
    BY <2>1 DEF Arrive
  <2>2. CASE CheckpointChecks
    BY <2>2 DEF CheckpointChecks
  <2>3. CASE handle_checkin_failure
    BY SizeAssumption, BoundAssumption, RetryAssumption, <2>3 DEF
       handle_checkin_failure
  <2>4. CASE execute_inspection_task
    BY <2>4 DEF execute_inspection_task
  <2>5. CASE handle_inspection_result
    <3>1. pc' \in Places /\ ret' \in ResumePlaces
      BY <2>5 DEF handle_inspection_result
    <3>2. mstate' \in MissionState
      BY <2>5 DEF handle_inspection_result
    <3>3. failed' \in 0..FailCap /\ task' \in Nat
      BY BoundAssumption, <2>5 DEF handle_inspection_result
    <3>4. UNCHANGED <<lap, index, completed, skipped, retry, still>>
      BY <2>5 DEF handle_inspection_result
    <3> QED BY <3>1, <3>2, <3>3, <3>4
  <2>6. CASE Record
    BY <2>6 DEF Record
  <2>7. CASE Advance
    BY SizeAssumption, BoundAssumption, RetryAssumption, <2>7 DEF Advance
  <2> QED BY <1>6, <2>1, <2>2, <2>3, <2>4, <2>5, <2>6, <2>7 DEF AtCheckpoint
<1>7. CASE Ending
  <2>1. CASE finalize_success
    BY <2>1 DEF finalize_success
  <2>2. CASE finalize_cancelled
    BY <2>2 DEF finalize_cancelled
  <2>3. CASE finalize_failed
    BY <2>3 DEF finalize_failed
  <2> QED BY <1>7, <2>1, <2>2, <2>3 DEF Ending
<1>8. CASE Operator
  <2>1. CASE PauseRequest
    BY <2>1 DEF PauseRequest
  <2>2. CASE PauseTransition
    <3>1. cancelSent' \in BOOLEAN
      BY CancelType, <2>2 DEF PauseTransition, Interrupt
    <3>2. mstate' \in MissionState /\ tails' \subseteq tails
      BY <2>2 DEF PauseTransition, Interrupt
    <3> QED BY <3>1, <3>2, <2>2 DEF PauseTransition, Interrupt
  <2>3. CASE ResumeRequest
    BY <2>3 DEF ResumeRequest
  <2>4. CASE request_cancel
    <3>1. cancelSent' \in BOOLEAN
      BY CancelType, <2>4 DEF request_cancel
    <3>2. resume' \in {"none", "pending", "yes", "no"}
      BY <2>4 DEF request_cancel
    <3>3. tails' \subseteq {"pause", "estop", "canceling"}
      BY <2>4 DEF request_cancel
    <3> QED BY <3>1, <3>2, <3>3, <2>4 DEF request_cancel
  <2>5. CASE GoalCanceling
    BY <2>5 DEF GoalCanceling
  <2> QED BY <1>8, <2>1, <2>2, <2>3, <2>4, <2>5 DEF Operator
<1>9. CASE Sensors
  <2>1. CASE EstopTransition
    <3>1. cancelSent' \in BOOLEAN
      BY CancelType, <2>1 DEF EstopTransition, Interrupt
    <3>2. mstate' \in MissionState /\ tails' \subseteq tails
      BY <2>1 DEF EstopTransition, Interrupt
    <3> QED BY <3>1, <3>2, <2>1 DEF EstopTransition, Interrupt
  <2>2. CASE ObstacleTimeout
    BY <2>2 DEF ObstacleTimeout
  <2>3. CASE on_localization
    BY <2>3 DEF on_localization
  <2>4. CASE monitor_runtime
    <3>1. cancelSent' \in BOOLEAN
      BY CancelType, <2>4 DEF monitor_runtime
    <3>2. lost' \in BOOLEAN
      BY <2>4 DEF monitor_runtime
    <3>3. mstate' \in MissionState
      BY <2>4 DEF monitor_runtime
    <3> QED BY <3>1, <3>2, <3>3, <2>4 DEF monitor_runtime
  <2>5. CASE on_inspection_feedback
    BY <2>5 DEF on_inspection_feedback
  <2>6. ASSUME NEW b \in BOOLEAN, on_effective_estop(b) PROVE TypeOK'
    <3>1. effEstop' \in BOOLEAN
      BY <2>6 DEF on_effective_estop
    <3>2. estop' \in BOOLEAN
      BY <2>6 DEF on_effective_estop
    <3>3. tails' \subseteq {"pause", "estop", "canceling"}
      BY <2>6 DEF on_effective_estop
    <3> QED BY <3>1, <3>2, <3>3, <2>6 DEF on_effective_estop
  <2>7. ASSUME NEW b \in BOOLEAN, on_obstacle_blocked(b) PROVE TypeOK'
    BY <2>7 DEF on_obstacle_blocked
  <2>8. ASSUME NEW b \in BOOLEAN, on_sensor_fault(b) PROVE TypeOK'
    <3>1. fault' \in BOOLEAN
      BY <2>8 DEF on_sensor_fault
    <3>2. cancelSent' \in BOOLEAN
      BY CancelType, <2>8 DEF on_sensor_fault
    <3> QED BY <3>1, <3>2, <2>8 DEF on_sensor_fault
  <2> QED BY <1>9, <2>1, <2>2, <2>3, <2>4, <2>5, <2>6, <2>7, <2>8 DEF Sensors
<1>10. CASE UNCHANGED vars
  BY <1>10
<1> QED BY <1>1, <1>2, <1>3, <1>4, <1>5, <1>6, <1>7, <1>8, <1>9, <1>10 DEF
    Next, Coroutine, Callbacks

-----------------------------------------------------------------------------
(* The other conjuncts of the invariant.                                   *)

\* The state machine stays in an active state from the first transition of the
\* coroutine to its last.
LEMMA StateStep ==
  TypeOK /\ StateFollowsPlace /\ FuturesFollowPlace /\ [Next]_vars
    => StateFollowsPlace'
<1> SUFFICES ASSUME TypeOK, StateFollowsPlace, FuturesFollowPlace, [Next]_vars
  PROVE StateFollowsPlace'
  OBVIOUS
<1> USE DEF Enter, Goto, WaitIn, CanEnter, vars, work, lap, count, flags,
    node, still, TypeOK, Places, ResumePlaces, MissionState, ActiveStates,
    TERMINAL_STATES, StateFollowsPlace, FuturesFollowPlace, GoalPlaces, Live,
    Watching, can_transition, ALLOWED_TRANSITIONS, WithTerminal, Interrupts
<1>1. CASE AcceptGoal
  BY <1>1 DEF AcceptGoal
<1>2. CASE Starting
  BY <1>2 DEF Starting, Begin, ensure_localization, EnsureAt, LoopTop, EndOfRoute
<1>3. CASE Stopping
  <2>1. CASE wait_if_stopped
    <3>1. ASSUME NEW here \in {"loop_stop", "nav_stop"}, NEW next \in {"nav_checks", "nav_blocked"},
                 StopAt(here, next)
          PROVE  StateFollowsPlace'
      BY <3>1, <2>1 DEF StopAt, wait_if_stopped
    <3> QED BY <2>1, <3>1 DEF wait_if_stopped
  <2>2. CASE EnterPaused
    BY <2>2 DEF EnterPaused
  <2>3. CASE await_resume
    BY <2>3 DEF await_resume
  <2>4. CASE Wake
    BY <2>4 DEF Wake
  <2> QED BY <1>3, <2>1, <2>2, <2>3, <2>4 DEF Stopping
<1>4. CASE Navigating
  <2>1. CASE NavigationChecks
    BY <2>1 DEF NavigationChecks, ChecksAt
  <2>2. CASE blocked_outcome
    BY <2>2 DEF blocked_outcome, BlockedAt
  <2>3. CASE RestartIfStopped \/ AwaitClear \/ Cleared
    BY <2>3 DEF RestartIfStopped, AwaitClear, Cleared
  <2>4. CASE EnterNavigating \/ NavigationVerdict \/ SkipCheckpoint
    BY <2>4 DEF EnterNavigating, NavigationVerdict, SkipCheckpoint
  <2>5. CASE handle_navigation_failure
    BY <2>5 DEF handle_navigation_failure
  <2> QED BY <1>4, <2>1, <2>2, <2>3, <2>4, <2>5 DEF Navigating
<1>5. CASE AwaitingGoal
  BY <1>5 DEF AwaitingGoal, StoreHandle, should_cancel, GoalRefused, Result
<1>6. CASE AtCheckpoint
  <2>1. CASE Arrive \/ CheckpointChecks
    BY <2>1 DEF Arrive, CheckpointChecks
  <2>2. CASE handle_checkin_failure
    BY <2>2 DEF handle_checkin_failure
  <2>3. CASE execute_inspection_task \/ Record \/ Advance
    BY <2>3 DEF execute_inspection_task, Record, Advance
  <2>4. CASE handle_inspection_result
    BY <2>4 DEF handle_inspection_result
  <2> QED BY <1>6, <2>1, <2>2, <2>3, <2>4 DEF AtCheckpoint
<1>7. CASE Ending
  BY <1>7 DEF Ending, finalize_success, finalize_cancelled, finalize_failed
<1>8. CASE Operator
  BY <1>8 DEF Operator, PauseRequest, PauseTransition, Interrupt,
     ResumeRequest, request_cancel, GoalCanceling
<1>9. CASE Sensors
  <2>1. CASE EstopTransition
    BY <2>1 DEF EstopTransition, Interrupt
  <2>2. CASE ObstacleTimeout
    BY <2>2 DEF ObstacleTimeout
  <2>3. CASE on_localization
    BY <2>3 DEF on_localization
  <2>4. CASE monitor_runtime
    BY <2>4 DEF monitor_runtime
  <2>5. CASE on_inspection_feedback
    BY <2>5 DEF on_inspection_feedback
  <2>6. ASSUME NEW b \in BOOLEAN, on_effective_estop(b) PROVE StateFollowsPlace'
    BY <2>6 DEF on_effective_estop
  <2>7. ASSUME NEW b \in BOOLEAN, on_obstacle_blocked(b) PROVE StateFollowsPlace'
    BY <2>7 DEF on_obstacle_blocked
  <2>8. ASSUME NEW b \in BOOLEAN, on_sensor_fault(b) PROVE StateFollowsPlace'
    BY <2>8 DEF on_sensor_fault
  <2> QED BY <1>9, <2>1, <2>2, <2>3, <2>4, <2>5, <2>6, <2>7, <2>8 DEF Sensors
<1>10. CASE UNCHANGED vars
  BY <1>10
<1> QED BY <1>1, <1>2, <1>3, <1>4, <1>5, <1>6, <1>7, <1>8, <1>9, <1>10 DEF
    Next, Coroutine, Callbacks

\* Futures exist only where the coroutine awaits them.
LEMMA FuturesStep ==
  TypeOK /\ FuturesFollowPlace /\ [Next]_vars
    => FuturesFollowPlace'
<1> SUFFICES ASSUME TypeOK, FuturesFollowPlace, [Next]_vars PROVE
  FuturesFollowPlace'
  OBVIOUS
<1> USE DEF Enter, Goto, WaitIn, CanEnter, vars, work, lap, count, flags,
    node, still, TypeOK, Places, ResumePlaces, MissionState, ActiveStates,
    TERMINAL_STATES, FuturesFollowPlace
<1>1. CASE AcceptGoal
  BY <1>1 DEF AcceptGoal
<1>2. CASE Starting
  BY <1>2 DEF Starting, Begin, ensure_localization, EnsureAt, LoopTop, EndOfRoute
<1>3. CASE Stopping
  BY <1>3 DEF Stopping, wait_if_stopped, StopAt, EnterPaused, await_resume,
     Wake
<1>4. CASE Navigating
  BY <1>4 DEF Navigating, NavigationChecks, ChecksAt, RestartIfStopped,
     blocked_outcome, BlockedAt, AwaitClear, Cleared, EnterNavigating,
     NavigationVerdict, handle_navigation_failure, SkipCheckpoint
<1>5. CASE AwaitingGoal
  BY <1>5 DEF AwaitingGoal, StoreHandle, should_cancel, GoalRefused, Result
<1>6. CASE AtCheckpoint
  BY <1>6 DEF AtCheckpoint, Arrive, CheckpointChecks, handle_checkin_failure,
     execute_inspection_task, handle_inspection_result, Record, Advance
<1>7. CASE Ending
  BY <1>7 DEF Ending, finalize_success, finalize_cancelled, finalize_failed
<1>8. CASE Operator
  BY <1>8 DEF Operator, PauseRequest, PauseTransition, Interrupt,
     ResumeRequest, request_cancel, GoalCanceling
<1>9. CASE Sensors
  BY <1>9 DEF Sensors, EstopTransition, Interrupt, ObstacleTimeout,
     on_localization, monitor_runtime, on_inspection_feedback,
     on_effective_estop, on_obstacle_blocked, on_sensor_fault
<1>10. CASE UNCHANGED vars
  BY <1>10
<1> QED BY <1>1, <1>2, <1>3, <1>4, <1>5, <1>6, <1>7, <1>8, <1>9, <1>10 DEF
    Next, Coroutine, Callbacks

\* No step of the coroutine or of a callback leaves a stored goal uncancelled
\* while a stop is flagged and its callback is over.
LEMMA StopsStep == IInv /\ [Next]_vars => StopsFollowFlags'
<1> SUFFICES ASSUME IInv, [Next]_vars PROVE StopsFollowFlags'
  OBVIOUS
<1> USE DEF Enter, Goto, WaitIn, CanEnter, vars, work, lap, count, flags,
    node, still, TypeOK, Places, ResumePlaces, MissionState, ActiveStates,
    TERMINAL_STATES, StopsFollowFlags, StateFollowsPlace, GoalPlaces,
    HandleStored, AwaitResult, CancelActiveGoals, IInv, Live, can_transition,
    ALLOWED_TRANSITIONS, WithTerminal, Interrupts
<1>1. CASE AcceptGoal
  BY <1>1 DEF AcceptGoal
<1>2. CASE Starting
  BY <1>2 DEF Starting, Begin, ensure_localization, EnsureAt, LoopTop, EndOfRoute
<1>3. CASE Stopping
  BY <1>3 DEF Stopping, wait_if_stopped, StopAt, EnterPaused, await_resume,
     Wake
<1>4. CASE Navigating
  BY <1>4 DEF Navigating, NavigationChecks, ChecksAt, RestartIfStopped,
     blocked_outcome, BlockedAt, AwaitClear, Cleared, EnterNavigating,
     NavigationVerdict, handle_navigation_failure, SkipCheckpoint
<1>5. CASE AwaitingGoal
  BY <1>5 DEF AwaitingGoal, StoreHandle, should_cancel, GoalRefused, Result
<1>6. CASE AtCheckpoint
  BY <1>6 DEF AtCheckpoint, Arrive, CheckpointChecks, handle_checkin_failure,
     execute_inspection_task, handle_inspection_result, Record, Advance
<1>7. CASE Ending
  BY <1>7 DEF Ending, finalize_success, finalize_cancelled, finalize_failed
<1>8. CASE Operator
  BY <1>8 DEF Operator, PauseRequest, PauseTransition, Interrupt,
     ResumeRequest, request_cancel, GoalCanceling
<1>9. CASE Sensors
  BY <1>9 DEF Sensors, EstopTransition, Interrupt, ObstacleTimeout,
     on_localization, monitor_runtime, on_inspection_feedback,
     on_effective_estop, on_obstacle_blocked, on_sensor_fault
<1>10. CASE UNCHANGED vars
  BY <1>10
<1> QED BY <1>1, <1>2, <1>3, <1>4, <1>5, <1>6, <1>7, <1>8, <1>9, <1>10 DEF
    Next, Coroutine, Callbacks

\* Outside the loop's head the checkpoint index is within the route.
LEMMA RouteStep == TypeOK /\ WithinRoute /\ [Next]_vars => WithinRoute'
<1> SUFFICES ASSUME TypeOK, WithinRoute, [Next]_vars PROVE WithinRoute'
  OBVIOUS
<1> USE DEF Enter, Goto, WaitIn, CanEnter, vars, work, lap, count, flags,
    node, still, TypeOK, Places, ResumePlaces, MissionState, ActiveStates,
    TERMINAL_STATES, WithinRoute, AddFailed
<1>1. CASE AcceptGoal
  BY SizeAssumption, <1>1 DEF AcceptGoal
<1>2. CASE Starting
  <2>1. CASE Begin
    BY SizeAssumption, <2>1 DEF Begin
  <2>2. CASE ensure_localization
    BY SizeAssumption, <2>2 DEF ensure_localization, EnsureAt
  <2>3. CASE LoopTop
    BY SizeAssumption, <2>3 DEF LoopTop, EndOfRoute
  <2> QED BY <1>2, <2>1, <2>2, <2>3 DEF Starting
<1>3. CASE Stopping
  BY SizeAssumption, <1>3 DEF Stopping, wait_if_stopped, StopAt, EnterPaused,
     await_resume, Wake
<1>4. CASE Navigating
  BY SizeAssumption, <1>4 DEF Navigating, NavigationChecks, ChecksAt,
     RestartIfStopped, blocked_outcome, BlockedAt, AwaitClear, Cleared,
     EnterNavigating, NavigationVerdict, handle_navigation_failure,
     SkipCheckpoint
<1>5. CASE AwaitingGoal
  BY SizeAssumption, <1>5 DEF AwaitingGoal, StoreHandle, should_cancel, GoalRefused, Result
<1>6. CASE AtCheckpoint
  BY SizeAssumption, <1>6 DEF AtCheckpoint, Arrive, CheckpointChecks,
     handle_checkin_failure, execute_inspection_task,
     handle_inspection_result, Record, Advance
<1>7. CASE Ending
  BY SizeAssumption, <1>7 DEF Ending, finalize_success, finalize_cancelled,
     finalize_failed
<1>8. CASE Operator
  BY SizeAssumption, <1>8 DEF Operator, PauseRequest, PauseTransition,
     Interrupt, ResumeRequest, request_cancel, GoalCanceling
<1>9. CASE Sensors
  BY SizeAssumption, <1>9 DEF Sensors, EstopTransition, Interrupt,
     ObstacleTimeout, on_localization, monitor_runtime,
     on_inspection_feedback, on_effective_estop, on_obstacle_blocked,
     on_sensor_fault
<1>10. CASE UNCHANGED vars
  BY <1>10
<1> QED BY <1>1, <1>2, <1>3, <1>4, <1>5, <1>6, <1>7, <1>8, <1>9, <1>10 DEF
    Next, Coroutine, Callbacks

\* Only SkipCheckpoint and Advance move the index, and each counts what it moves.
LEMMA AccountingStep ==
  TypeOK /\ WithinRoute /\ Accounting /\ [Next]_vars
    => Accounting'
<1> SUFFICES ASSUME TypeOK, WithinRoute, Accounting, [Next]_vars PROVE
  Accounting'
  OBVIOUS
<1> USE DEF Enter, Goto, WaitIn, CanEnter, vars, work, lap, count, flags,
    node, still, TypeOK, Places, ResumePlaces, MissionState, ActiveStates,
    TERMINAL_STATES, Accounting, WithinRoute, Live, AddFailed
<1>1. CASE AcceptGoal
  BY SizeAssumption, <1>1 DEF AcceptGoal
<1>2. CASE Starting
  <2>1. CASE Begin
    BY SizeAssumption, <2>1 DEF Begin
  <2>2. CASE ensure_localization
    BY SizeAssumption, <2>2 DEF ensure_localization, EnsureAt
  <2>3. CASE LoopTop
    <3>1. CASE UNCHANGED <<laps, index>>
      BY <2>3, <3>1 DEF LoopTop, EndOfRoute
    <3>2. CASE index >= N /\ laps' = laps + 1 /\ index' = 0
      <4>1. laps' * N = laps * N + N /\ index = N
        BY SizeAssumption, BoundAssumption, <3>2
      <4> QED BY SizeAssumption, BoundAssumption, <2>3, <3>2, <4>1 DEF LoopTop, EndOfRoute
    <3> QED BY <2>3, <3>1, <3>2 DEF LoopTop, EndOfRoute
  <2> QED BY <1>2, <2>1, <2>2, <2>3 DEF Starting
<1>3. CASE Stopping
  BY SizeAssumption, <1>3 DEF Stopping, wait_if_stopped, StopAt, EnterPaused,
     await_resume, Wake
<1>4. CASE Navigating
  BY SizeAssumption, <1>4 DEF Navigating, NavigationChecks, ChecksAt,
     RestartIfStopped, blocked_outcome, BlockedAt, AwaitClear, Cleared,
     EnterNavigating, NavigationVerdict, handle_navigation_failure,
     SkipCheckpoint
<1>5. CASE AwaitingGoal
  BY SizeAssumption, <1>5 DEF AwaitingGoal, StoreHandle, should_cancel, GoalRefused, Result
<1>6. CASE AtCheckpoint
  <2>1. CASE Arrive
    BY SizeAssumption, <2>1 DEF Arrive
  <2>2. CASE CheckpointChecks
    BY SizeAssumption, <2>2 DEF CheckpointChecks
  <2>3. CASE handle_checkin_failure
    BY SizeAssumption, <2>3 DEF handle_checkin_failure
  <2>4. CASE execute_inspection_task
    BY SizeAssumption, <2>4 DEF execute_inspection_task
  <2>5. CASE handle_inspection_result
    BY SizeAssumption, <2>5 DEF handle_inspection_result
  <2>6. CASE Record
    BY SizeAssumption, <2>6 DEF Record
  <2>7. CASE Advance
    BY SizeAssumption, <2>7 DEF Advance
  <2> QED BY <1>6, <2>1, <2>2, <2>3, <2>4, <2>5, <2>6, <2>7 DEF AtCheckpoint
<1>7. CASE Ending
  BY SizeAssumption, <1>7 DEF Ending, finalize_success, finalize_cancelled,
     finalize_failed
<1>8. CASE Operator
  BY SizeAssumption, <1>8 DEF Operator, PauseRequest, PauseTransition,
     Interrupt, ResumeRequest, request_cancel, GoalCanceling
<1>9. CASE Sensors
  BY SizeAssumption, <1>9 DEF Sensors, EstopTransition, Interrupt,
     ObstacleTimeout, on_localization, monitor_runtime,
     on_inspection_feedback, on_effective_estop, on_obstacle_blocked,
     on_sensor_fault
<1>10. CASE UNCHANGED vars
  BY <1>10
<1> QED BY <1>1, <1>2, <1>3, <1>4, <1>5, <1>6, <1>7, <1>8, <1>9, <1>10 DEF
    Next, Coroutine, Callbacks

\* The goal handle is open while the patrol is, and closed in agreement with
\* the final state.
LEMMA GoalStep == IInv /\ [Next]_vars => GoalFollowsPlace'
<1> SUFFICES ASSUME IInv, [Next]_vars PROVE GoalFollowsPlace'
  OBVIOUS
<1> USE DEF Enter, Goto, WaitIn, CanEnter, vars, work, lap, count, flags,
    node, still, TypeOK, Places, ResumePlaces, MissionState, ActiveStates,
    TERMINAL_STATES, IInv, GoalFollowsPlace, StateFollowsPlace, OutcomeAgrees,
    Live, can_transition, ALLOWED_TRANSITIONS, WithTerminal, Interrupts
<1>1. CASE AcceptGoal
  BY <1>1 DEF AcceptGoal
<1>2. CASE Starting
  BY <1>2 DEF Starting, Begin, ensure_localization, EnsureAt, LoopTop, EndOfRoute
<1>3. CASE Stopping
  BY <1>3 DEF Stopping, wait_if_stopped, StopAt, EnterPaused, await_resume,
     Wake
<1>4. CASE Navigating
  BY <1>4 DEF Navigating, NavigationChecks, ChecksAt, RestartIfStopped,
     blocked_outcome, BlockedAt, AwaitClear, Cleared, EnterNavigating,
     NavigationVerdict, handle_navigation_failure, SkipCheckpoint
<1>5. CASE AwaitingGoal
  BY <1>5 DEF AwaitingGoal, StoreHandle, should_cancel, GoalRefused, Result
<1>6. CASE AtCheckpoint
  BY <1>6 DEF AtCheckpoint, Arrive, CheckpointChecks, handle_checkin_failure,
     execute_inspection_task, handle_inspection_result, Record, Advance
<1>7. CASE Ending
  BY <1>7 DEF Ending, finalize_success, finalize_cancelled, finalize_failed
<1>8. CASE Operator
  BY <1>8 DEF Operator, PauseRequest, PauseTransition, Interrupt,
     ResumeRequest, request_cancel, GoalCanceling
<1>9. CASE Sensors
  <2>1. CASE EstopTransition
    BY <2>1 DEF EstopTransition, Interrupt
  <2>2. CASE ObstacleTimeout
    BY <2>2 DEF ObstacleTimeout
  <2>3. CASE on_localization
    BY <2>3 DEF on_localization
  <2>4. CASE monitor_runtime
    BY <2>4 DEF monitor_runtime
  <2>5. CASE on_inspection_feedback
    BY <2>5 DEF on_inspection_feedback
  <2>6. ASSUME NEW b \in BOOLEAN, on_effective_estop(b) PROVE GoalFollowsPlace'
    BY <2>6 DEF on_effective_estop
  <2>7. ASSUME NEW b \in BOOLEAN, on_obstacle_blocked(b) PROVE GoalFollowsPlace'
    BY <2>7 DEF on_obstacle_blocked
  <2>8. ASSUME NEW b \in BOOLEAN, on_sensor_fault(b) PROVE GoalFollowsPlace'
    BY <2>8 DEF on_sensor_fault
  <2> QED BY <1>9, <2>1, <2>2, <2>3, <2>4, <2>5, <2>6, <2>7, <2>8 DEF Sensors
<1>10. CASE UNCHANGED vars
  BY <1>10
<1> QED BY <1>1, <1>2, <1>3, <1>4, <1>5, <1>6, <1>7, <1>8, <1>9, <1>10 DEF
    Next, Coroutine, Callbacks

\* Without pause commands nothing enters PAUSING.
LEMMA PauseStep ==
  TypeOK /\ NoPauseNoPausing /\ [Next]_vars
    => NoPauseNoPausing'
<1> SUFFICES ASSUME TypeOK, NoPauseNoPausing, [Next]_vars PROVE
  NoPauseNoPausing'
  OBVIOUS
<1> USE DEF Enter, Goto, WaitIn, CanEnter, vars, work, lap, count, flags,
    node, still, TypeOK, Places, ResumePlaces, MissionState, ActiveStates,
    TERMINAL_STATES, NoPauseNoPausing
<1>1. CASE AcceptGoal
  BY <1>1 DEF AcceptGoal
<1>2. CASE Starting
  BY <1>2 DEF Starting, Begin, ensure_localization, EnsureAt, LoopTop, EndOfRoute
<1>3. CASE Stopping
  BY <1>3 DEF Stopping, wait_if_stopped, StopAt, EnterPaused, await_resume,
     Wake
<1>4. CASE Navigating
  BY <1>4 DEF Navigating, NavigationChecks, ChecksAt, RestartIfStopped,
     blocked_outcome, BlockedAt, AwaitClear, Cleared, EnterNavigating,
     NavigationVerdict, handle_navigation_failure, SkipCheckpoint
<1>5. CASE AwaitingGoal
  BY <1>5 DEF AwaitingGoal, StoreHandle, should_cancel, GoalRefused, Result
<1>6. CASE AtCheckpoint
  BY <1>6 DEF AtCheckpoint, Arrive, CheckpointChecks, handle_checkin_failure,
     execute_inspection_task, handle_inspection_result, Record, Advance
<1>7. CASE Ending
  BY <1>7 DEF Ending, finalize_success, finalize_cancelled, finalize_failed
<1>8. CASE Operator
  BY <1>8 DEF Operator, PauseRequest, PauseTransition, Interrupt,
     ResumeRequest, request_cancel, GoalCanceling
<1>9. CASE Sensors
  <2>1. CASE EstopTransition
    BY <2>1 DEF EstopTransition, Interrupt
  <2>2. CASE ObstacleTimeout
    BY <2>2 DEF ObstacleTimeout
  <2>3. CASE on_localization
    BY <2>3 DEF on_localization
  <2>4. CASE monitor_runtime
    BY <2>4 DEF monitor_runtime
  <2>5. CASE on_inspection_feedback
    BY <2>5 DEF on_inspection_feedback
  <2>6. ASSUME NEW b \in BOOLEAN, on_effective_estop(b) PROVE NoPauseNoPausing'
    BY <2>6 DEF on_effective_estop
  <2>7. ASSUME NEW b \in BOOLEAN, on_obstacle_blocked(b) PROVE NoPauseNoPausing'
    BY <2>7 DEF on_obstacle_blocked
  <2>8. ASSUME NEW b \in BOOLEAN, on_sensor_fault(b) PROVE NoPauseNoPausing'
    BY <2>8 DEF on_sensor_fault
  <2> QED BY <1>9, <2>1, <2>2, <2>3, <2>4, <2>5, <2>6, <2>7, <2>8 DEF Sensors
<1>10. CASE UNCHANGED vars
  BY <1>10
<1> QED BY <1>1, <1>2, <1>3, <1>4, <1>5, <1>6, <1>7, <1>8, <1>9, <1>10 DEF
    Next, Coroutine, Callbacks

\* IInv is inductive.
THEOREM Inductive == Spec => []IInv
<1>1. IInv /\ [Next]_vars => IInv'
  <2> SUFFICES ASSUME IInv, [Next]_vars PROVE IInv'
    OBVIOUS
  <2>1. /\ TypeOK /\ StateFollowsPlace /\ FuturesFollowPlace
        /\ WithinRoute /\ Accounting /\ NoPauseNoPausing
    BY DEF IInv
  <2>2. TypeOK' /\ StateFollowsPlace' /\ FuturesFollowPlace'
    BY <2>1, TypeStep, StateStep, FuturesStep
  <2>3. StopsFollowFlags' /\ GoalFollowsPlace'
    BY StopsStep, GoalStep
  <2>4. WithinRoute' /\ Accounting' /\ NoPauseNoPausing'
    BY <2>1, RouteStep, AccountingStep, PauseStep
  <2> QED BY <2>2, <2>3, <2>4 DEF IInv
<1> QED BY InitIInv, <1>1, PTL DEF Spec

-----------------------------------------------------------------------------
(* The safety properties.                                                  *)

\* Every variable of the mission manager keeps to its range.
THEOREM TypeCorrect == Spec => []TypeOK
<1>1. IInv => TypeOK
  BY DEF IInv
<1> QED BY <1>1, Inductive, PTL

\* A goal that is outstanding while a cancel, pause or emergency stop is flagged
\* has been cancelled, or the callback that cancels it is still in flight.
THEOREM StopReachesGoal == Spec => []StopCancelsGoal
<1>1. IInv => StopCancelsGoal
  BY DEF IInv, StopsFollowFlags, StopCancelsGoal
<1> QED BY <1>1, Inductive, PTL

\* PAUSED is never reported while a goal is with Nav2, the verifier or the
\* inspector.
THEOREM PauseIsStill == Spec => []PausedIsStill
<1>1. IInv => PausedIsStill
  BY DEF IInv, StateFollowsPlace, PausedIsStill, GoalPlaces, Sending,
         AwaitResult
<1> QED BY <1>1, Inductive, PTL

\* The coroutine waits for the operator only in a held state.
THEOREM WaitIsHeld == Spec => []ParkedIsHeld
<1>1. IInv => ParkedIsHeld
  BY DEF IInv, StateFollowsPlace, ParkedIsHeld
<1> QED BY <1>1, Inductive, PTL

\* On a deployment that never pauses, every wait for the operator is in a state
\* in which the resume command is accepted.
THEOREM WaitIsResumable ==
  ASSUME "pause" \notin Controls PROVE Spec => []ParkedIsResumable
<1>1. IInv => ParkedIsResumable
  BY DEF IInv, StateFollowsPlace, NoPauseNoPausing, ParkedIsResumable
<1> QED BY <1>1, Inductive, PTL

\* The wake-up of a wait on an obstacle is never lost.
THEOREM ClearIsSeen == Spec => []ClearNotLost
<1>1. IInv => ClearNotLost
  BY DEF IInv, FuturesFollowPlace, ClearNotLost
<1> QED BY <1>1, Inductive, PTL

\* Every checkpoint is completed or skipped exactly once per lap.
THEOREM CheckpointsAccounted == Spec => []Accounting
<1>1. IInv => Accounting
  BY DEF IInv
<1> QED BY <1>1, Inductive, PTL

\* The outcome on the action agrees with the final state.
THEOREM OutcomeIsTrue == Spec => []OutcomeAgrees
<1>1. IInv => OutcomeAgrees
  BY DEF IInv, GoalFollowsPlace
<1> QED BY <1>1, Inductive, PTL

-----------------------------------------------------------------------------
(* The state machine.                                                      *)

LEMMA TableStep ==
  TypeOK /\ StateFollowsPlace /\ [Next]_vars
    => IF Live THEN mstate' = mstate \/ can_transition(mstate, mstate')
               ELSE mstate' \in {mstate, "IDLE"}
<1> DEFINE Kept == IF Live THEN mstate' = mstate \/ can_transition(mstate, mstate')
                           ELSE mstate' \in {mstate, "IDLE"}
<1> SUFFICES ASSUME TypeOK, StateFollowsPlace, [Next]_vars PROVE Kept
  OBVIOUS
<1> USE DEF Enter, Goto, WaitIn, CanEnter, vars, still, Live
<1>1. CASE AcceptGoal
  BY <1>1 DEF AcceptGoal
<1>2. CASE Starting
  <2>1. CASE Begin
    BY <2>1 DEF Begin
  <2>2. CASE ensure_localization
    BY <2>2 DEF ensure_localization, EnsureAt
  <2>3. CASE LoopTop
    BY <2>3 DEF LoopTop, EndOfRoute
  <2> QED BY <1>2, <2>1, <2>2, <2>3 DEF Starting
<1>3. CASE Stopping
  BY <1>3 DEF Stopping, wait_if_stopped,
     StopAt, EnterPaused, await_resume, Wake
<1>4. CASE Navigating
  BY <1>4 DEF Navigating, NavigationChecks,
     ChecksAt, RestartIfStopped, blocked_outcome, BlockedAt, AwaitClear,
     Cleared, EnterNavigating, NavigationVerdict, handle_navigation_failure,
     SkipCheckpoint
<1>5. CASE AwaitingGoal
  BY <1>5 DEF AwaitingGoal, StoreHandle, should_cancel,
     GoalRefused, Result
<1>6. CASE AtCheckpoint
  <2>1. CASE Arrive
    BY <2>1 DEF Arrive
  <2>2. CASE CheckpointChecks
    BY <2>2 DEF CheckpointChecks
  <2>3. CASE handle_checkin_failure
    BY <2>3 DEF handle_checkin_failure
  <2>4. CASE execute_inspection_task
    BY <2>4 DEF execute_inspection_task
  <2>5. CASE handle_inspection_result
    BY <2>5 DEF handle_inspection_result
  <2>6. CASE Record
    BY <2>6 DEF Record
  <2>7. CASE Advance
    BY <2>7 DEF Advance
  <2> QED BY <1>6, <2>1, <2>2, <2>3, <2>4, <2>5, <2>6, <2>7 DEF AtCheckpoint
<1>7. CASE Ending
  BY <1>7 DEF Ending, finalize_success,
     finalize_cancelled, finalize_failed
<1>8. CASE Operator
  BY <1>8 DEF Operator, PauseRequest,
     PauseTransition, Interrupt, ResumeRequest, request_cancel, GoalCanceling
<1>9. CASE Sensors
  <2>1. CASE EstopTransition
    BY <2>1 DEF EstopTransition, Interrupt
  <2>2. CASE ObstacleTimeout
    BY <2>2 DEF ObstacleTimeout
  <2>3. CASE on_localization
    BY <2>3 DEF on_localization
  <2>4. CASE monitor_runtime
    BY <2>4 DEF monitor_runtime, Watching
  <2>5. CASE on_inspection_feedback
    <3>1. mstate = "CAPTURING" /\ mstate' = "INSPECTING"
      BY <2>5 DEF on_inspection_feedback
    <3>2. Live /\ can_transition("CAPTURING", "INSPECTING")
      BY <3>1 DEF StateFollowsPlace, TERMINAL_STATES, can_transition, ALLOWED_TRANSITIONS,
         WithTerminal, MissionState, ActiveStates
    <3> QED BY <3>1, <3>2
  <2>6. ASSUME NEW b \in BOOLEAN, on_effective_estop(b) PROVE Kept
    BY <2>6 DEF on_effective_estop
  <2>7. ASSUME NEW b \in BOOLEAN, on_obstacle_blocked(b) PROVE Kept
    BY <2>7 DEF on_obstacle_blocked
  <2>8. ASSUME NEW b \in BOOLEAN, on_sensor_fault(b) PROVE Kept
    BY <2>8 DEF on_sensor_fault
  <2> QED BY <1>9, <2>1, <2>2, <2>3, <2>4, <2>5, <2>6, <2>7, <2>8 DEF Sensors
<1>10. CASE UNCHANGED vars
  BY <1>10
<1> QED BY <1>1, <1>2, <1>3, <1>4, <1>5, <1>6, <1>7, <1>8, <1>9, <1>10 DEF
    Next, Coroutine, Callbacks

\* Whatever the coroutine, the operator and the sensors do, no patrol leaves the
\* table of state_machine.py.
THEOREM TableKept == Spec => TableIsKept
<1>1. IInv /\ [Next]_vars
        => IF Live THEN mstate' = mstate \/ can_transition(mstate, mstate')
                   ELSE mstate' \in {mstate, "IDLE"}
  BY TableStep DEF IInv
<1> QED BY <1>1, Inductive, PTL DEF Spec, TableIsKept

-----------------------------------------------------------------------------
(* The mission manager implements MissionLifecycle.                        *)

\* Every step maps to a step of the abstract patrol or leaves it alone.
LEMMA LifecycleStep ==
  TypeOK /\ StateFollowsPlace /\ WithinRoute /\ [Next]_vars
    => [Lifecycle!Next]_Lifecycle!vars
<1> SUFFICES ASSUME TypeOK, StateFollowsPlace, WithinRoute, [Next]_vars PROVE
  [Lifecycle!Next]_Lifecycle!vars
  OBVIOUS
<1> USE DEF Enter, Goto, WaitIn, CanEnter, vars, work, lap, count, flags,
    node, still, TypeOK, Places, ResumePlaces, MissionState, ActiveStates,
    TERMINAL_STATES, can_transition, ALLOWED_TRANSITIONS, WithTerminal,
    Interrupts, Live, StateFollowsPlace, WithinRoute, Lifecycle!Next,
    Lifecycle!vars, Lifecycle!Begin, Lifecycle!Account, Lifecycle!Lap,
    Lifecycle!End, Lifecycle!Outcomes
<1>1. CASE AcceptGoal
  BY SizeAssumption, BoundAssumption, <1>1 DEF AcceptGoal
<1>2. CASE Starting
  <2>1. CASE Begin
    BY SizeAssumption, BoundAssumption, <2>1 DEF Begin
  <2>2. CASE ensure_localization
    BY SizeAssumption, BoundAssumption, <2>2 DEF ensure_localization, EnsureAt
  <2>3. CASE LoopTop
    BY SizeAssumption, BoundAssumption, <2>3 DEF LoopTop, EndOfRoute
  <2> QED BY <1>2, <2>1, <2>2, <2>3 DEF Starting
<1>3. CASE Stopping
  BY SizeAssumption, BoundAssumption, <1>3 DEF Stopping, wait_if_stopped,
     StopAt, EnterPaused, await_resume, Wake
<1>4. CASE Navigating
  BY SizeAssumption, BoundAssumption, <1>4 DEF Navigating, NavigationChecks,
     ChecksAt, RestartIfStopped, blocked_outcome, BlockedAt, AwaitClear,
     Cleared, EnterNavigating, NavigationVerdict, handle_navigation_failure,
     SkipCheckpoint
<1>5. CASE AwaitingGoal
  BY SizeAssumption, BoundAssumption, <1>5 DEF AwaitingGoal, StoreHandle, should_cancel,
     GoalRefused, Result
<1>6. CASE AtCheckpoint
  <2>1. CASE Arrive
    BY SizeAssumption, BoundAssumption, <2>1 DEF Arrive
  <2>2. CASE CheckpointChecks
    BY SizeAssumption, BoundAssumption, <2>2 DEF CheckpointChecks
  <2>3. CASE handle_checkin_failure
    BY SizeAssumption, BoundAssumption, <2>3 DEF handle_checkin_failure
  <2>4. CASE execute_inspection_task
    BY SizeAssumption, BoundAssumption, <2>4 DEF execute_inspection_task
  <2>5. CASE handle_inspection_result
    BY SizeAssumption, BoundAssumption, <2>5 DEF handle_inspection_result
  <2>6. CASE Record
    BY SizeAssumption, BoundAssumption, <2>6 DEF Record
  <2>7. CASE Advance
    BY SizeAssumption, BoundAssumption, <2>7 DEF Advance
  <2> QED BY <1>6, <2>1, <2>2, <2>3, <2>4, <2>5, <2>6, <2>7 DEF AtCheckpoint
<1>7. CASE Ending
  BY SizeAssumption, BoundAssumption, <1>7 DEF Ending, finalize_success,
     finalize_cancelled, finalize_failed
<1>8. CASE Operator
  BY SizeAssumption, BoundAssumption, <1>8 DEF Operator, PauseRequest,
     PauseTransition, Interrupt, ResumeRequest, request_cancel, GoalCanceling
<1>9. CASE Sensors
  <2>1. CASE EstopTransition
    BY SizeAssumption, BoundAssumption, <2>1 DEF EstopTransition, Interrupt
  <2>2. CASE ObstacleTimeout
    BY SizeAssumption, BoundAssumption, <2>2 DEF ObstacleTimeout
  <2>3. CASE on_localization
    BY SizeAssumption, BoundAssumption, <2>3 DEF on_localization
  <2>4. CASE monitor_runtime
    BY SizeAssumption, BoundAssumption, <2>4 DEF monitor_runtime
  <2>5. CASE on_inspection_feedback
    BY SizeAssumption, BoundAssumption, <2>5 DEF on_inspection_feedback
  <2>6. ASSUME NEW b \in BOOLEAN, on_effective_estop(b) PROVE [Lifecycle!Next]_Lifecycle!vars
    BY SizeAssumption, BoundAssumption, <2>6 DEF on_effective_estop
  <2>7. ASSUME NEW b \in BOOLEAN, on_obstacle_blocked(b) PROVE [Lifecycle!Next]_Lifecycle!vars
    BY SizeAssumption, BoundAssumption, <2>7 DEF on_obstacle_blocked
  <2>8. ASSUME NEW b \in BOOLEAN, on_sensor_fault(b) PROVE [Lifecycle!Next]_Lifecycle!vars
    BY SizeAssumption, BoundAssumption, <2>8 DEF on_sensor_fault
  <2> QED BY <1>9, <2>1, <2>2, <2>3, <2>4, <2>5, <2>6, <2>7, <2>8 DEF Sensors
<1>10. CASE UNCHANGED vars
  BY <1>10
<1> QED BY <1>1, <1>2, <1>3, <1>4, <1>5, <1>6, <1>7, <1>8, <1>9, <1>10 DEF
    Next, Coroutine, Callbacks

\* The promise to the submitter is kept: Spec implements MissionLifecycle.
THEOREM KeepsLifecycle == Spec => KeepsPromise
<1>1. Init => Lifecycle!Init
  BY DEF Init, Lifecycle!Init, Live
<1>2. IInv /\ [Next]_vars => [Lifecycle!Next]_Lifecycle!vars
  BY LifecycleStep DEF IInv
<1> QED BY <1>1, <1>2, Inductive, PTL DEF Spec, KeepsPromise, Lifecycle!Spec
=============================================================================
