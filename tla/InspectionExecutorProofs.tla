---------------------- MODULE InspectionExecutorProofs ----------------------
(***************************************************************************)
(* For any requests, reports, time limits and caches: a verdict is judged  *)
(* on images of its own goal, rests on a report of one of them, is stored  *)
(* before anyone trusts it, is never given after a cancel, and every goal  *)
(* is answered in time.  The coroutine keeps the thread from the judgement *)
(* to the publication, so that no message changes what it was based on;    *)
(* the time the VLM's request takes in between is not counted.             *)
(***************************************************************************)
EXTENDS InspectionExecutor, FiniteSetTheorems, TLAPS

LEMMA RequestType == GoalOK => request \in Request
<1>1. NoRequest \in Request
  BY DEF Request, NoRequest, Models
<1>2. Requests \subseteq Request
  BY InputAssumption
<1> QED BY <1>1, <1>2 DEF GoalOK

LEMMA DecisionFields ==
  ASSUME NEW c \in {"PRESENT", "ABSENT", "ABNORMAL", "UNKNOWN", "NEEDS_HUMAN_REVIEW"},
         NEW r \in BOOLEAN, NEW s \in {"local_model", "vlm", "none"}
  PROVE  /\ Decide(c, r, s) \in Decision
         /\ Decide(c, r, s).conclusion = c /\ Decide(c, r, s).review = r
         /\ Decide(c, r, s).source = s
BY DEF Decide, Decision

LEMMA DecisionType ==
  ASSUME NEW status \in {"PRESENT", "ABSENT", "NEGATIVE_UNVERIFIED", "UNAVAILABLE"},
         NEW v \in VlmReview \cup {NoReview}
  PROVE  /\ fuse_observations(status, v) \in Decision
         /\ fuse_observations(status, v).source = "local_model" =>
              /\ status \in {"PRESENT", "ABSENT"}
              /\ fuse_observations(status, v).conclusion = status
         /\ fuse_observations(status, v).source = "vlm" => v # NoReview
         /\ ~fuse_observations(status, v).review =>
              fuse_observations(status, v).conclusion \in {"PRESENT", "ABSENT"}
<1>1. CASE status \in {"PRESENT", "ABSENT"}
  <2>1. fuse_observations(status, v) = Decide(status, FALSE, "local_model")
    BY <1>1 DEF fuse_observations
  <2> QED BY <1>1, <2>1 DEF Decide, Decision
<1>2. CASE status \notin {"PRESENT", "ABSENT"} /\ v = NoReview
  <2>1. fuse_observations(status, v) = Unknown
    BY <1>2 DEF fuse_observations
  <2> QED BY <2>1 DEF Unknown, Decide, Decision
<1>3. CASE status \notin {"PRESENT", "ABSENT"} /\ v # NoReview
  <2>1. fuse_observations(status, v) = Accept(v)
    BY <1>3, Zenon DEF fuse_observations
  <2>2. Accept(v) \in
          {Decide("NEEDS_HUMAN_REVIEW", TRUE, "vlm"), Decide("ABNORMAL", TRUE, "vlm"),
           Decide("UNKNOWN", TRUE, "vlm"), Decide("PRESENT", FALSE, "vlm"),
           Decide("ABSENT", FALSE, "vlm")}
    BY DEF Accept
  <2>3. \A c \in {"NEEDS_HUMAN_REVIEW", "ABNORMAL", "UNKNOWN"} :
          Accept(v) = Decide(c, TRUE, "vlm") =>
            /\ Accept(v) \in Decision /\ Accept(v).source = "vlm" /\ Accept(v).review
    <3> TAKE c \in {"NEEDS_HUMAN_REVIEW", "ABNORMAL", "UNKNOWN"}
    <3>1. /\ Decide(c, TRUE, "vlm") \in Decision
          /\ Decide(c, TRUE, "vlm").source = "vlm" /\ Decide(c, TRUE, "vlm").review = TRUE
      BY DEF Decide, Decision
    <3> QED BY <3>1, Zenon
  <2>4. \A c \in {"PRESENT", "ABSENT"} :
          Accept(v) = Decide(c, FALSE, "vlm") =>
            /\ Accept(v) \in Decision /\ Accept(v).source = "vlm"
            /\ Accept(v).conclusion \in {"PRESENT", "ABSENT"}
    <3> TAKE c \in {"PRESENT", "ABSENT"}
    <3>1. /\ Decide(c, FALSE, "vlm") \in Decision
          /\ Decide(c, FALSE, "vlm").source = "vlm" /\ Decide(c, FALSE, "vlm").conclusion = c
      BY DEF Decide, Decision
    <3> QED BY <3>1
  <2>5. /\ Accept(v) \in Decision /\ Accept(v).source = "vlm"
        /\ Accept(v).review \/ Accept(v).conclusion \in {"PRESENT", "ABSENT"}
    BY <2>2, <2>3, <2>4, Zenon
  <2> QED BY <1>3, <2>1, <2>5
<1> QED BY <1>1, <1>2, <1>3

LEMMA ObservationType ==
  LocalObservation \in {"PRESENT", "ABSENT", "NEGATIVE_UNVERIFIED", "UNAVAILABLE"}
BY DEF LocalObservation

-----------------------------------------------------------------------------
(* Types.                                                                  *)

LEMMA InputsStep == InputsOK /\ [Next]_vars => InputsOK'
<1> SUFFICES ASSUME InputsOK, [Next]_vars PROVE InputsOK'
  OBVIOUS
<1>1. CASE shoot
  BY <1>1, CacheAssumption DEF shoot, InputsOK
<1>2. ASSUME NEW s \in 1..MaxShots, on_image(s) PROVE InputsOK'
  BY <1>2 DEF on_image, InputsOK
<1>3. ASSUME NEW s \in 1..MaxShots, NEW p \in Payloads, on_detection(s, p) PROVE InputsOK'
  BY <1>3 DEF on_detection, InputsOK
<1>4. CASE Tick
  <2>1. report_age' \in [1..MaxShots -> Nat]
    BY <1>4 DEF Tick, InputsOK, Older
  <2> QED BY <1>4, <2>1 DEF Tick, InputsOK
<1>5. CASE UNCHANGED input_vars
  BY <1>5 DEF InputsOK, input_vars
<1>6. CASE Step
  BY <1>5, <1>6 DEF Step, run_vars, NoCamera, SettleCancelled, SettleWait, SettleOver,
       CaptureCancelled, CaptureFrames, CaptureRaises, CaptureTimedOut, CaptureOver,
       WindowWait, WindowCancelled, Judge, Review, ReviewRaises, PersistResult,
       PersistRefused, PersistRaises
<1>7. CASE cancel \/ Wake \/ \E r \in Requests : execute(r)
  BY <1>5, <1>7 DEF execute, cancel, Wake
<1> QED
  BY <1>1, <1>2, <1>3, <1>4, <1>5, <1>6, <1>7 DEF Next, vars

\* The variables of the goal, step by step of the coroutine.
LEMMA GoalStep == TypeOK /\ [Next]_vars => GoalOK'
<1> SUFFICES ASSUME TypeOK, [Next]_vars PROVE GoalOK'
  OBVIOUS
<1>0. Sleep => awake' \in BOOLEAN /\ since_poll' \in 0..Period
  <2>1. Sleep => awake' \in BOOLEAN
    BY Zenon DEF Sleep
  <2>2. Sleep => since_poll' \in 0..Period
    BY TimeAssumption DEF Sleep
  <2> QED BY <2>1, <2>2
<1> USE DEF TypeOK, GoalOK
<1>1. CASE shoot
  BY <1>1 DEF shoot, goal_state, clock_vars
<1>2. ASSUME NEW s \in 1..MaxShots, on_image(s) PROVE GoalOK'
  BY <1>2 DEF on_image, goal_state, clock_vars, InputsOK
<1>3. ASSUME NEW s \in 1..MaxShots, NEW p \in Payloads, on_detection(s, p) PROVE GoalOK'
  BY <1>3 DEF on_detection, goal_state, clock_vars
<1>4. CASE Tick
  BY <1>4, TimeAssumption DEF Tick, clock_vars
<1>5. ASSUME NEW r \in Requests, execute(r) PROVE GoalOK'
  BY <1>5, TimeAssumption DEF execute, StartSequence, input_vars, InputsOK
<1>6. CASE cancel \/ Wake
  BY <1>6 DEF cancel, Wake, input_vars, clock_vars
<1>7. CASE SettleWait \/ WindowWait
  BY <1>0, <1>7 DEF SettleWait, WindowWait, input_vars
<1>14. CASE SettleOver \/ CaptureOver
  BY <1>14 DEF SettleOver, CaptureOver, Enter, input_vars
<1>8. CASE CaptureFrames
  <2>1. captures' \subseteq received'
    BY <1>8 DEF CaptureFrames, Fresh, Buffered, input_vars
  <2>2. read' \in begun'..sequence'
    BY <1>8 DEF CaptureFrames, input_vars, InputsOK
  <2>3. CASE Sleep
    BY <1>0, <1>8, <2>1, <2>2, <2>3 DEF CaptureFrames, input_vars
  <2>4. CASE UNCHANGED <<awake, since_poll>>
    BY <1>8, <2>1, <2>2, <2>4 DEF CaptureFrames, input_vars
  <2> QED BY <1>8, <2>3, <2>4 DEF CaptureFrames
<1>9. CASE Judge
  BY <1>9 DEF Judge, input_vars, clock_vars
<1>10. ASSUME NEW v, Review(v) PROVE GoalOK'
  BY <1>10 DEF Review, input_vars, clock_vars
<1>11. CASE UNCHANGED run_vars /\ goal' = "none" /\ pc' = "idle" /\ awake' = FALSE
  BY <1>11 DEF run_vars, input_vars, clock_vars
<1>12. CASE NoCamera \/ SettleCancelled \/ CaptureCancelled \/ CaptureRaises
              \/ CaptureTimedOut \/ WindowCancelled \/ ReviewRaises \/ PersistResult
              \/ PersistRefused \/ PersistRaises
  BY <1>11, <1>12 DEF NoCamera, SettleCancelled, CaptureCancelled, CaptureRaises,
       CaptureTimedOut, WindowCancelled, ReviewRaises, PersistResult, PersistRefused,
       PersistRaises, Complete, EndSilently, End
<1>13. CASE UNCHANGED vars
  BY <1>13 DEF vars, input_vars, clock_vars
<1> QED
  BY <1>1, <1>2, <1>3, <1>4, <1>5, <1>6, <1>7, <1>8, <1>9, <1>10, <1>12, <1>13,
     <1>14 DEF Next, Step

LEMMA VerdictStep == TypeOK /\ [Next]_vars => VerdictOK'
<1> SUFFICES ASSUME TypeOK, [Next]_vars PROVE VerdictOK'
  OBVIOUS
<1> USE DEF TypeOK, VerdictOK
<1>1. Unknown \in Decision
  BY DecisionFields DEF Unknown
<1>2. \A d \in Decision : \A S, b : Result(d, S, b).decision = d
  BY DEF Result
<1>3. CASE Judge
  BY <1>3, DecisionType, ObservationType DEF Judge, ending
<1>4. ASSUME NEW v \in VlmReview \cup {NoReview}, Review(v) PROVE VerdictOK'
  BY <1>4, DecisionType DEF Review, ending
<1>5. CASE NoCamera \/ CaptureTimedOut \/ PersistResult \/ PersistRefused
  <2>1. \E d \in {Unknown, decision} : \E S, b :
          outcome' = "SUCCEEDED" /\ published' = Result(d, S, b)
    BY <1>5, Zenon DEF NoCamera, CaptureTimedOut, PersistResult, PersistRefused, Complete,
         End, Unpersisted
  <2>2. published'.decision \in Decision
    BY <1>1, <1>2, <2>1
  <2>3. UNCHANGED judgement
    BY <1>5, Zenon DEF NoCamera, CaptureTimedOut, PersistResult, PersistRefused, run_vars
  <2> QED BY <2>1, <2>2, <2>3 DEF judgement
<1>6. CASE SettleCancelled \/ CaptureCancelled \/ CaptureRaises \/ WindowCancelled
             \/ ReviewRaises \/ PersistRaises
  BY <1>6 DEF SettleCancelled, CaptureCancelled, CaptureRaises, WindowCancelled,
       ReviewRaises, PersistRaises, EndSilently, End, run_vars, judgement
<1>7. ASSUME NEW r \in Requests, execute(r) PROVE VerdictOK'
  BY <1>1, <1>2, <1>7 DEF execute, judgement, NoResult
<1>8. CASE UNCHANGED <<judgement, ending>>
  BY <1>8 DEF judgement, ending
<1>9. CASE shoot \/ Tick \/ cancel \/ Wake \/ SettleWait \/ SettleOver \/ CaptureFrames
             \/ CaptureOver \/ WindowWait \/ UNCHANGED vars
             \/ (\E s \in 1..MaxShots : on_image(s))
             \/ (\E s \in 1..MaxShots, p \in Payloads : on_detection(s, p))
  BY <1>8, <1>9 DEF shoot, Tick, cancel, Wake, SettleWait, SettleOver, CaptureFrames,
       CaptureOver, WindowWait, vars, on_image, on_detection, goal_state
<1> QED
  BY <1>3, <1>4, <1>5, <1>6, <1>7, <1>9 DEF Next, Step
-----------------------------------------------------------------------------
(* The parts of the invariant.                                             *)

\* What comes from outside leaves the place alone, or cancels while it sleeps.
LEMMA PlaceStep == TypeOK /\ PlaceAgrees /\ [Next]_vars => PlaceAgrees'
<1> SUFFICES ASSUME TypeOK, PlaceAgrees, [Next]_vars PROVE PlaceAgrees'
  OBVIOUS
<1> USE DEF PlaceAgrees
<1>1. CASE UNCHANGED <<goal, pc, awake, captures>>
  BY <1>1
<1>2. CASE UNCHANGED <<goal, pc, captures>> /\ pc \notin {"idle", "review", "store"}
  BY <1>2
<1>3. CASE shoot \/ Tick \/ UNCHANGED vars
             \/ (\E s \in 1..MaxShots : on_image(s))
             \/ (\E s \in 1..MaxShots, p \in Payloads : on_detection(s, p))
  BY <1>1, <1>3 DEF shoot, Tick, vars, on_image, on_detection, goal_state
<1>4. ASSUME NEW r \in Requests, execute(r) PROVE PlaceAgrees'
  BY <1>4 DEF execute
<1>5. CASE cancel
  BY <1>5 DEF cancel
<1>6. CASE Wake
  BY <1>6 DEF Wake
<1>7. CASE SettleWait \/ WindowWait
  BY <1>2, <1>7 DEF SettleWait, WindowWait, At
<1>8. CASE SettleOver \/ CaptureOver
  BY <1>8 DEF SettleOver, CaptureOver, Enter, At
<1>9. CASE CaptureFrames
  BY <1>9 DEF CaptureFrames, Capturing, At
<1>10. CASE Judge
  <2>1. goal = "running"
    BY <1>10 DEF Judge, WindowOver, At, CancelSeen, Cancelled, TypeOK, GoalOK
  <2>2. captures # {}
    BY <1>10 DEF Judge, WindowOver, At
  <2> QED BY <1>10, <2>1, <2>2 DEF Judge, WindowOver, At
<1>11. ASSUME NEW v, Review(v) PROVE PlaceAgrees'
  BY <1>11 DEF Review, At
<1>12. CASE goal' = "none" /\ pc' = "idle" /\ awake' = FALSE
  BY <1>12
<1>13. CASE NoCamera \/ SettleCancelled \/ CaptureCancelled \/ CaptureRaises
              \/ CaptureTimedOut \/ WindowCancelled \/ ReviewRaises \/ PersistResult
              \/ PersistRefused \/ PersistRaises
  BY <1>12, <1>13 DEF NoCamera, SettleCancelled, CaptureCancelled, CaptureRaises,
       CaptureTimedOut, WindowCancelled, ReviewRaises, PersistResult, PersistRefused,
       PersistRaises, Complete, EndSilently, End
<1> QED
  BY <1>3, <1>4, <1>5, <1>6, <1>7, <1>8, <1>9, <1>10, <1>11, <1>13 DEF Next, Step

LEMMA TimesStep == TypeOK /\ PlaceAgrees /\ TimesAddUp /\ [Next]_vars => TimesAddUp'
<1> SUFFICES ASSUME TypeOK, PlaceAgrees, TimesAddUp, [Next]_vars, goal' # "none"
             PROVE  /\ time' < Limit(pc') + Period /\ elapsed' <= time' + Before(pc')
                    /\ ~awake' => time' < Limit(pc') + since_poll'
  BY DEF TimesAddUp
<1>0. /\ Settle \in Nat /\ CaptureTimeout \in Nat /\ Window \in Nat
      /\ Period \in Nat /\ Period >= 1
      /\ time \in Nat /\ elapsed \in Nat /\ since_poll \in Nat /\ since_poll <= Period
  BY TimeAssumption DEF TypeOK, GoalOK
<1>1. \A l : Limit(l) \in Nat /\ Before(l) \in Nat
  BY <1>0 DEF Limit, Before
<1>2. goal # "none" =>
        /\ time < Limit(pc) + Period /\ elapsed <= time + Before(pc)
        /\ ~awake => time < Limit(pc) + since_poll
  BY DEF TimesAddUp
<1>3. CASE UNCHANGED <<pc, awake, clock_vars>> /\ goal # "none"
  BY <1>2, <1>3 DEF clock_vars
<1>4. CASE shoot \/ UNCHANGED vars \/ cancel
             \/ (\E s \in 1..MaxShots : on_image(s))
             \/ (\E s \in 1..MaxShots, p \in Payloads : on_detection(s, p))
  BY <1>3, <1>4 DEF shoot, cancel, vars, on_image, on_detection, goal_state
<1>5. CASE Tick
  <2>1. /\ goal # "none" /\ ~awake /\ time' = time + 1 /\ elapsed' = elapsed + 1
        /\ since_poll' = since_poll + 1 /\ since_poll < Period
        /\ pc' = pc /\ awake' = awake
    BY <1>5 DEF Tick
  <2>2. Limit(pc) \in Nat /\ Before(pc) \in Nat
    BY <1>1
  <2> QED BY <1>0, <1>2, <2>1, <2>2
<1>6. ASSUME NEW r \in Requests, execute(r)
      PROVE  /\ time' < Limit(pc') + Period /\ elapsed' <= time' + Before(pc')
             /\ ~awake' => time' < Limit(pc') + since_poll'
  <2>1. time' = 0 /\ elapsed' = 0 /\ pc' = "settle" /\ awake' = TRUE
    BY <1>6 DEF execute
  <2> QED BY <1>0, <2>1 DEF Limit, Before
<1>7. CASE Wake
  BY <1>2, <1>7 DEF Wake, clock_vars
<1>8. CASE SettleWait \/ WindowWait \/ CaptureFrames
  <2>1. pc' = pc /\ time' = time /\ elapsed' = elapsed /\ goal # "none" /\ time < Limit(pc)
    BY <1>8 DEF SettleWait, WindowWait, CaptureFrames, At, Capturing, CaptureInTime, Limit,
         PlaceAgrees
  <2>2. awake' => time < Limit(pc) + Period
    BY <1>2, <2>1
  <2>3. awake' \/ since_poll' = 0
    BY <1>8 DEF SettleWait, WindowWait, CaptureFrames, Sleep, At, Capturing
  <2>4. Limit(pc) \in Nat
    BY <1>1
  <2> QED BY <1>0, <1>2, <2>1, <2>2, <2>3, <2>4
<1>9. CASE SettleOver \/ CaptureOver
  <2>1. /\ pc \in {"settle", "capture"} /\ awake' = awake /\ awake /\ time' = 0
        /\ elapsed' = elapsed /\ goal # "none"
        /\ pc' = IF pc = "settle" THEN "capture" ELSE "window"
    BY <1>9 DEF SettleOver, CaptureOver, At, Enter, PlaceAgrees
  <2>2. elapsed <= Before(pc')
    BY <1>0, <1>2, <2>1 DEF Limit, Before
  <2>3. Limit(pc') \in Nat /\ Before(pc') \in Nat
    BY <1>1
  <2> QED BY <1>0, <2>1, <2>2, <2>3
<1>10. CASE Judge \/ \E v \in VlmReview \cup {NoReview} : Review(v)
  <2>1. /\ pc \in {"window", "review"} /\ pc' \in {"review", "store"} /\ awake /\ awake' = awake
        /\ UNCHANGED clock_vars /\ goal # "none"
    BY <1>10 DEF Judge, Review, WindowOver, At, PlaceAgrees
  <2>2. Limit(pc') = Limit(pc) /\ Before(pc') = Before(pc)
    BY <2>1 DEF Limit, Before
  <2> QED BY <1>2, <2>1, <2>2 DEF clock_vars
<1>11. CASE NoCamera \/ SettleCancelled \/ CaptureCancelled \/ CaptureRaises
              \/ CaptureTimedOut \/ WindowCancelled \/ ReviewRaises \/ PersistResult
              \/ PersistRefused \/ PersistRaises
  BY <1>11 DEF NoCamera, SettleCancelled, CaptureCancelled, CaptureRaises,
       CaptureTimedOut, WindowCancelled, ReviewRaises, PersistResult, PersistRefused,
       PersistRaises, Complete, EndSilently, End
<1> QED
  BY <1>4, <1>5, <1>6, <1>7, <1>8, <1>9, <1>10, <1>11 DEF Next, Step

LEMMA EvidenceStep == TypeOK /\ EvidenceIsOwn /\ [Next]_vars => EvidenceIsOwn'
<1> SUFFICES ASSUME TypeOK, EvidenceIsOwn, [Next]_vars PROVE EvidenceIsOwn'
  OBVIOUS
<1> USE DEF EvidenceIsOwn
<1>0. /\ request \in Request /\ IsFiniteSet(captures) /\ Cardinality(captures) \in Nat
      /\ shot \in Nat /\ sequence \in Nat
  <2>1. shot \in Nat /\ sequence \in Nat /\ captures \subseteq 1..sequence
    BY CacheAssumption DEF TypeOK, InputsOK, GoalOK
  <2>2. IsFiniteSet(1..sequence)
    BY <2>1, FS_Interval
  <2> QED BY <2>1, <2>2, RequestType, FS_Subset, FS_CardinalityType DEF TypeOK
<1>1. CASE UNCHANGED <<received, captures, begun, request, published>>
  BY <1>1
<1>2. CASE shoot \/ Tick \/ cancel \/ Wake \/ SettleWait \/ SettleOver \/ CaptureOver
             \/ WindowWait \/ Judge \/ UNCHANGED vars
             \/ (\E s \in 1..MaxShots, p \in Payloads : on_detection(s, p))
             \/ (\E v \in VlmReview \cup {NoReview} : Review(v))
  BY <1>1, <1>2 DEF shoot, Tick, cancel, Wake, SettleWait, SettleOver, CaptureOver,
       WindowWait, Judge, vars, on_detection, Review, goal_state, input_vars, ending
<1>3. ASSUME NEW s \in 1..MaxShots, on_image(s) PROVE EvidenceIsOwn'
  BY <1>3 DEF on_image, goal_state, ending
<1>4. ASSUME NEW r \in Requests, execute(r) PROVE EvidenceIsOwn'
  <2>1. captures' = {} /\ published'.evidence = {} /\ request' \in Request
    BY <1>4, InputAssumption DEF execute, NoResult, Result
  <2> QED BY <2>1, FS_EmptySet DEF Request
<1>5. CASE CaptureFrames
  <2>1. PICK taken \in SUBSET Fresh :
          Cardinality(taken) <= Missing /\ captures' = captures \cup taken
    BY <1>5 DEF CaptureFrames
  <2>2. taken \subseteq {s \in received : s > begun}
    <3>1. begun \in Nat /\ read \in Nat /\ begun <= read
      BY <1>0 DEF TypeOK, GoalOK
    <3>2. \A s \in received : s \in Nat
      BY <1>0 DEF TypeOK, InputsOK
    <3>3. ASSUME NEW s \in Fresh PROVE s \in received /\ s > begun
      <4>1. s \in received /\ s > read
        BY Zenon DEF Fresh, Buffered
      <4> QED BY <3>1, <3>2, <4>1
    <3> QED BY <3>3
  <2>3. IsFiniteSet(taken)
    <3>1. taken \subseteq 1..sequence
      BY <2>2 DEF TypeOK, InputsOK
    <3>2. IsFiniteSet(1..sequence)
      BY <1>0, FS_Interval
    <3> QED BY <3>1, <3>2, FS_Subset
  <2>4. Cardinality(captures \cup taken) <= Cardinality(captures) + Cardinality(taken)
    <3>1. /\ IsFiniteSet(captures \cup taken) /\ IsFiniteSet(captures \cap taken)
          /\ Cardinality(captures \cup taken)
               = Cardinality(captures) + Cardinality(taken) - Cardinality(captures \cap taken)
      BY <1>0, <2>3, FS_Union, FS_Intersection
    <3>2. Cardinality(captures \cap taken) \in Nat /\ Cardinality(taken) \in Nat
      BY <2>3, <3>1, FS_CardinalityType
    <3> QED BY <1>0, <3>1, <3>2
  <2>5. Cardinality(captures') <= request.capture_count
    <3>1. IsFiniteSet(captures \cup taken) /\ Cardinality(captures \cup taken) \in Nat
      BY <1>0, <2>3, FS_Union, FS_CardinalityType
    <3>2. Cardinality(taken) \in Nat
      BY <2>3, FS_CardinalityType
    <3> QED BY <1>0, <2>1, <2>4, <3>1, <3>2 DEF Missing, Request
  <2> QED BY <1>5, <2>1, <2>2, <2>5 DEF CaptureFrames, input_vars, ending
<1>6. CASE NoCamera \/ CaptureTimedOut \/ PersistResult \/ PersistRefused
  BY <1>6 DEF NoCamera, CaptureTimedOut, PersistResult, PersistRefused, Complete,
       Result, run_vars, input_vars
<1>7. CASE SettleCancelled \/ CaptureCancelled \/ CaptureRaises \/ WindowCancelled
             \/ ReviewRaises \/ PersistRaises
  BY <1>1, <1>7 DEF SettleCancelled, CaptureCancelled, CaptureRaises, WindowCancelled,
       ReviewRaises, PersistRaises, EndSilently, run_vars, input_vars
<1> QED
  BY <1>2, <1>3, <1>4, <1>5, <1>6, <1>7 DEF Next, Step

-----------------------------------------------------------------------------
(* The verdict.                                                            *)

\* What a report makes of the local observation is whether it passes; `best` begins
\* at zero, so that a threshold of zero is passed without a detection.
LEMMA StatusIsShown ==
  ASSUME TypeOK, request \in Requests, NEW s \in captures
  PROVE  LET status == LocalStatus(DetectionFor(s), request) IN
         /\ status \in {"PRESENT", "ABSENT"} => report[s] # NoPayload /\ report_age[s] <= MaxAge
         /\ status = "PRESENT" => Passes(report[s])
         /\ status = "ABSENT" => AllowAbsent /\ ~Passes(report[s])
<1> DEFINE p == report[s]
           status == LocalStatus(DetectionFor(s), request)
<1>1. s \in 1..MaxShots /\ p \in Payloads \cup {NoPayload}
  <2>1. sequence \in 0..shot /\ shot \in 0..MaxShots /\ s \in 1..sequence
    BY DEF TypeOK, InputsOK, GoalOK
  <2>2. s \in 1..MaxShots
    BY <2>1, CacheAssumption
  <2> QED BY <2>2 DEF TypeOK, InputsOK
<1>2. CASE Unavailable(DetectionFor(s), request)
  <2>1. status = "UNAVAILABLE"
    BY <1>2 DEF LocalStatus
  <2> QED BY <2>1
<1>3. CASE ~Unavailable(DetectionFor(s), request)
  <2>1. DetectionFor(s) = p /\ p # NoPayload /\ report_age[s] <= MaxAge
    BY <1>3 DEF DetectionFor, Unavailable
  <2>2. ~Unavailable(p, request) /\ p \in Payloads
    BY <1>1, <1>3, <2>1
  <2>3. /\ p \in Payload /\ (p.tagged \/ \A h \in p.hits : h.model = "")
        /\ request \in Request
    BY <2>2, InputAssumption
  <2>4. (\E c \in Confidences(p, request) : c >= request.threshold) <=> Passes(p)
    <3>1. (\E c \in Confidences(p, request) : c >= request.threshold)
            <=> \/ request.threshold = 0
                \/ \E h \in Counted(p, request) : h.confidence >= request.threshold
      <4>1. request.threshold \in Nat
        BY <2>3 DEF Request
      <4>2. 0 >= request.threshold <=> request.threshold = 0
        <5> HIDE DEF p, status
        <5> QED BY <4>1, Z3
      <4> QED BY <4>2 DEF Confidences
    <3>2. ASSUME NEW h \in p.hits
          PROVE  h \in Counted(p, request) <=>
                   \/ request.local_model \in {"", h.model}
                   \/ ~p.tagged /\ request.local_model \in p.active \cup {p.model}
      BY <2>2, <2>3 DEF Counted, Unavailable
    <3>3. Counted(p, request) \subseteq p.hits
      BY DEF Counted
    <3>4. ~p.error /\ p.listed
      BY <2>2 DEF Unavailable
    <3>5. Shows(p) <=> \E h \in Counted(p, request) : h.confidence >= request.threshold
      BY <3>2, <3>3, <3>4 DEF Shows
    <3> QED BY <2>2, <3>1, <3>5 DEF Passes
  <2>5. status = IF Passes(p) THEN "PRESENT"
                 ELSE IF AllowAbsent THEN "ABSENT" ELSE "NEGATIVE_UNVERIFIED"
    BY <2>1, <2>2, <2>4 DEF LocalStatus
  <2> QED BY <2>1, <2>5
<1> QED BY <1>2, <1>3

\* The local observation rests on a report of one of the captured images.
LEMMA ObservationRests ==
  ASSUME TypeOK, request \in Requests,
         LocalObservation \in {"PRESENT", "ABSENT"}
  PROVE  Rests(LocalObservation, captures)
<1>1. PICK s \in captures : LocalStatus(DetectionFor(s), request) = LocalObservation
  BY DEF LocalObservation, Statuses
<1> QED BY <1>1, StatusIsShown DEF Rests

LEMMA AdmittedStep == TypeOK /\ RequestAdmitted /\ PlaceAgrees /\ [Next]_vars => RequestAdmitted'
<1> SUFFICES ASSUME TypeOK, RequestAdmitted, PlaceAgrees, [Next]_vars PROVE RequestAdmitted'
  OBVIOUS
<1> USE DEF RequestAdmitted
<1>1. ASSUME NEW r \in Requests, execute(r) PROVE RequestAdmitted'
  BY <1>1 DEF execute
<1>2. CASE request' = request /\ (goal' = "none" \/ goal # "none")
  BY <1>2
<1>3. CASE UNCHANGED vars \/ shoot \/ Tick \/ cancel \/ Wake
             \/ (\E s \in 1..MaxShots : on_image(s))
             \/ (\E s \in 1..MaxShots, p \in Payloads : on_detection(s, p))
  BY <1>3 DEF vars, shoot, Tick, cancel, Wake, on_image, on_detection, goal_state
<1>4. CASE Step
  <2>1. request' = request
    BY <1>4 DEF Step, run_vars, NoCamera, SettleCancelled, SettleWait, SettleOver,
       CaptureCancelled, CaptureFrames, CaptureRaises, CaptureTimedOut, CaptureOver,
       WindowWait, WindowCancelled, Judge, Review, ReviewRaises, PersistResult,
       PersistRefused, PersistRaises
  <2>2. awake
    BY <1>4 DEF Step, NoCamera, SettleCancelled, SettleWait, SettleOver, Capturing,
       CaptureCancelled, CaptureFrames, CaptureRaises, CaptureTimedOut, CaptureOver,
       WindowWait, WindowOver, WindowCancelled, Judge, Review, ReviewRaises, PersistResult,
       PersistRefused, PersistRaises, At
  <2> QED BY <1>2, <2>1, <2>2 DEF PlaceAgrees
<1> QED BY <1>1, <1>3, <1>4 DEF Next

\* A verdict due to be published keeps what it rests on: the thread is held.
LEMMA VerdictHoldsStep ==
  TypeOK /\ RequestAdmitted /\ PlaceAgrees /\ VerdictHolds /\ [Next]_vars
    => VerdictHolds'
<1> SUFFICES ASSUME TypeOK, RequestAdmitted, PlaceAgrees, VerdictHolds,
                    [Next]_vars, pc' \in {"review", "store"}
             PROVE  VerdictHolds'
  BY DEF VerdictHolds
<1>1. CASE UNCHANGED vars
  BY <1>1 DEF vars, input_vars, judgement, VerdictHolds, Rests, Passes, Shows
<1>2. CASE Judge
  <2>1. /\ local' = LocalObservation /\ UNCHANGED <<request, captures, report, report_age>>
        /\ request \in Requests
    BY <1>2 DEF Judge, input_vars, WindowOver, At, RequestAdmitted, PlaceAgrees
  <2>2. local' \in {"PRESENT", "ABSENT"} => Rests(local, captures)'
    BY <2>1, ObservationRests DEF Rests, Passes, Shows
  <2>3. pc' = "review" => request'.use_vlm_fallback
    BY <1>2, <2>1 DEF Judge, Asked
  <2>4. pc' = "store" => decision' = fuse_observations(local', NoReview)
    BY <1>2 DEF Judge
  <2>5. local' \in {"PRESENT", "ABSENT", "NEGATIVE_UNVERIFIED", "UNAVAILABLE"}
    BY <2>1, ObservationType
  <2> DEFINE d == fuse_observations(local', NoReview)
  <2>6. /\ d.source = "local_model" => local' \in {"PRESENT", "ABSENT"} /\ d.conclusion = local'
        /\ d.source = "vlm" => NoReview # NoReview
        /\ ~d.review => d.conclusion \in {"PRESENT", "ABSENT"}
    <3>1. NoReview \in VlmReview \cup {NoReview}
      OBVIOUS
    <3> QED BY <2>5, <3>1, DecisionType
  <2> QED BY <2>2, <2>3, <2>4, <2>6 DEF VerdictHolds
<1>3. ASSUME NEW v \in VlmReview \cup {NoReview}, Review(v) PROVE VerdictHolds'
  <2>1. /\ pc = "review" /\ pc' = "store" /\ decision' = fuse_observations(local, v)
        /\ local' = local /\ UNCHANGED <<request, captures, report, report_age>>
        /\ (Endpoint \/ v = NoReview) /\ request.use_vlm_fallback
        /\ local \in {"PRESENT", "ABSENT", "NEGATIVE_UNVERIFIED", "UNAVAILABLE"}
    BY <1>3 DEF Review, At, input_vars, VerdictHolds, TypeOK, VerdictOK
  <2>2. local \in {"PRESENT", "ABSENT"} => Rests(local, captures)'
    BY <2>1 DEF VerdictHolds, Rests, Passes, Shows
  <2>3. /\ decision'.source = "local_model" =>
             local \in {"PRESENT", "ABSENT"} /\ decision'.conclusion = local
        /\ decision'.source = "vlm" => v # NoReview
        /\ ~decision'.review => decision'.conclusion \in {"PRESENT", "ABSENT"}
    BY <2>1, DecisionType
  <2> QED BY <2>1, <2>2, <2>3 DEF VerdictHolds
<1>4. CASE pc' = "idle" \/ pc' \in {"settle", "capture", "window"}
  BY <1>4
<1>5. CASE ~awake /\ pc' = pc
  BY <1>5 DEF PlaceAgrees
<1>6. CASE shoot \/ Tick \/ cancel \/ Wake
             \/ (\E s \in 1..MaxShots : on_image(s))
             \/ (\E s \in 1..MaxShots, p \in Payloads : on_detection(s, p))
  BY <1>5, <1>6 DEF shoot, Tick, cancel, Wake, on_image, on_detection, goal_state
<1>7. CASE \/ SettleWait \/ SettleOver \/ CaptureFrames \/ CaptureOver \/ WindowWait
           \/ \E r \in Requests : execute(r)
  BY <1>4, <1>7 DEF SettleWait, SettleOver, CaptureFrames, CaptureOver, WindowWait, execute,
       Capturing, At, Enter
<1>8. CASE NoCamera \/ SettleCancelled \/ CaptureCancelled \/ CaptureRaises
              \/ CaptureTimedOut \/ WindowCancelled \/ ReviewRaises \/ PersistResult
              \/ PersistRefused \/ PersistRaises
  BY <1>4, <1>8 DEF NoCamera, SettleCancelled, CaptureCancelled, CaptureRaises,
       CaptureTimedOut, WindowCancelled, ReviewRaises, PersistResult, PersistRefused,
       PersistRaises, Complete, EndSilently, End
<1> QED BY <1>1, <1>2, <1>3, <1>6, <1>7, <1>8 DEF Next, Step

\* What is published without a review has been stored by the same step.
LEMMA TrustedStep ==
  TypeOK /\ PlaceAgrees /\ VerdictHolds /\ TrustedIsStored /\ [Next]_vars => TrustedIsStored'
<1> SUFFICES ASSUME TypeOK, PlaceAgrees, VerdictHolds, TrustedIsStored, [Next]_vars
             PROVE  TrustedIsStored'
  OBVIOUS
<1> USE DEF TrustedIsStored
<1>0. Unknown.review = TRUE
  BY DEF Unknown, Decide
<1>1. CASE UNCHANGED <<published, request>>
  BY <1>1
<1>2. CASE published'.decision = Unknown
  BY <1>0, <1>2
<1>3. CASE PersistResult
  <2>1. PICK kept \in SUBSET SideFiles :
          published' = Result(decision, captures, kept \cup {"result"})
    BY <1>3 DEF PersistResult, Complete
  <2>2. UNCHANGED request /\ captures # {} /\ pc = "store"
    BY <1>3 DEF PersistResult, run_vars, At, PlaceAgrees
  <2>3. /\ published'.decision = decision /\ published'.evidence = captures
        /\ "result" \in published'.files
    BY <2>1 DEF Result
  <2> QED BY <2>2, <2>3 DEF VerdictHolds
<1>4. CASE NoCamera \/ CaptureTimedOut \/ PersistRefused
  BY <1>2, <1>4 DEF NoCamera, CaptureTimedOut, PersistRefused, Complete, Result, Unpersisted
<1>5. ASSUME NEW r \in Requests, execute(r) PROVE TrustedIsStored'
  BY <1>2, <1>5 DEF execute, NoResult, Result
<1>6. CASE shoot \/ Tick \/ cancel \/ Wake \/ SettleWait \/ SettleOver \/ CaptureFrames
             \/ CaptureOver \/ WindowWait \/ Judge \/ UNCHANGED vars
             \/ (\E s \in 1..MaxShots : on_image(s))
             \/ (\E s \in 1..MaxShots, p \in Payloads : on_detection(s, p))
             \/ (\E v \in VlmReview \cup {NoReview} : Review(v))
  BY <1>1, <1>6 DEF shoot, Tick, cancel, Wake, SettleWait, SettleOver, CaptureFrames,
       CaptureOver, WindowWait, Judge, vars, on_image, on_detection, Review, goal_state, ending
<1>7. CASE SettleCancelled \/ CaptureCancelled \/ CaptureRaises \/ WindowCancelled
             \/ ReviewRaises \/ PersistRaises
  BY <1>1, <1>7 DEF SettleCancelled, CaptureCancelled, CaptureRaises, WindowCancelled,
       ReviewRaises, PersistRaises, EndSilently, run_vars
<1> QED
  BY <1>3, <1>4, <1>5, <1>6, <1>7 DEF Next, Step

-----------------------------------------------------------------------------
(* The theorems.                                                           *)

LEMMA InitIInv == Init => IInv /\ VerdictHolds /\ TrustedIsStored
<1> SUFFICES ASSUME Init PROVE IInv /\ VerdictHolds /\ TrustedIsStored
  OBVIOUS
<1>1. InputsOK
  <2>1. camera \in BOOLEAN
    BY Zenon DEF Init
  <2>2. /\ shot \in 0..MaxShots /\ sequence \in 0..shot /\ received \subseteq 1..sequence
        /\ detected \in 0..shot
    BY CacheAssumption DEF Init
  <2>3. /\ report \in [1..MaxShots -> Payloads \cup {NoPayload}]
        /\ report_age \in [1..MaxShots -> Nat]
    BY DEF Init
  <2> QED BY <2>1, <2>2, <2>3 DEF InputsOK
<1>2. GoalOK
  <2>1. awake \in BOOLEAN
    BY Zenon DEF Init
  <2>2. time \in Nat /\ since_poll \in 0..Period /\ elapsed \in Nat
    BY TimeAssumption DEF Init
  <2>3. /\ goal \in {"none", "running", "canceling"} /\ request \in Requests \cup {NoRequest}
        /\ pc \in {"idle", "settle", "capture", "window", "review", "store"}
        /\ begun \in 0..sequence /\ read \in begun..sequence /\ captures \subseteq received
    BY DEF Init
  <2> QED BY <2>1, <2>2, <2>3 DEF GoalOK
<1>3. VerdictOK
  BY DecisionFields DEF Init, VerdictOK, NoResult, Result, Unknown
<1>4. EvidenceIsOwn
  <2>1. captures = {} /\ request.capture_count = 1 /\ published.evidence = {}
    BY DEF Init, NoRequest, NoResult, Result
  <2>2. Cardinality({}) = 0
    BY FS_EmptySet
  <2> QED BY <2>1, <2>2 DEF EvidenceIsOwn
<1>5. RequestAdmitted /\ PlaceAgrees /\ TimesAddUp /\ VerdictHolds
  BY DEF Init, RequestAdmitted, PlaceAgrees, TimesAddUp, VerdictHolds
<1>6. TrustedIsStored
  BY DEF Init, TrustedIsStored, NoResult, Result, Unknown, Decide
<1> QED BY <1>1, <1>2, <1>3, <1>4, <1>5, <1>6 DEF IInv, TypeOK

LEMMA StepIInv == IInv /\ [Next]_vars => IInv'
BY InputsStep, GoalStep, VerdictStep, AdmittedStep, PlaceStep, TimesStep, EvidenceStep
DEF IInv, TypeOK

\* IInv is an invariant: variables in range, the place of the coroutine, its
\* times and its images.
THEOREM ExecutorInvariant == Spec => []IInv
<1>1. Init => IInv
  BY InitIInv
<1>2. IInv /\ [Next]_vars => IInv'
  BY StepIInv
<1> QED BY <1>1, <1>2, PTL DEF Spec

\* A verdict is judged on images received since its own goal began, whatever
\* the deque holds of an earlier checkpoint.
THEOREM EvidenceOfGoal == Spec => []EvidenceIsOwn
<1>1. IInv => EvidenceIsOwn
  BY DEF IInv
<1> QED BY <1>1, ExecutorInvariant, PTL

\* Every goal is answered within the times of its loops and three polls.
THEOREM AnswerInTime == Spec => []AnsweredInTime
<1>1. IInv => AnsweredInTime
  <2> SUFFICES ASSUME IInv, goal # "none"
               PROVE  elapsed < Settle + CaptureTimeout + Window + 3 * Period
    BY DEF AnsweredInTime
  <2>1. time < Limit(pc) + Period /\ elapsed <= time + Before(pc)
    BY DEF IInv, TimesAddUp
  <2>2. time \in Nat /\ elapsed \in Nat
    BY DEF IInv, TypeOK, GoalOK
  <2> QED BY <2>1, <2>2, TimeAssumption DEF Limit, Before
<1> QED BY <1>1, ExecutorInvariant, PTL

-----------------------------------------------------------------------------
(* The executor implements GoalServer.                                     *)

\* A step that touches neither the goal nor its time is none of the server's.
LEMMA OtherSteps ==
  ASSUME UNCHANGED <<goal, outcome, elapsed>>
  PROVE  UNCHANGED Server!vars
BY DEF Server!vars

LEMMA ServerStep ==
  ASSUME IInv, AnsweredInTime, AnsweredInTime', [Next]_vars
  PROVE  [Server!Next]_Server!vars
<1> DEFINE limit == Settle + CaptureTimeout + Window + 3 * Period
<1>0. /\ limit \in Nat \ {0} /\ elapsed \in Nat
      /\ goal \in {"none", "running", "canceling"}
      /\ goal # "none" => elapsed < limit
      /\ goal' # "none" => elapsed' < limit
  BY TimeAssumption DEF IInv, TypeOK, GoalOK, AnsweredInTime
<1> HIDE DEF limit
<1>1. awake => goal # "none"
  BY DEF IInv, PlaceAgrees
<1>2. CASE \/ shoot \/ Wake \/ SettleWait \/ SettleOver \/ CaptureFrames \/ CaptureOver
           \/ WindowWait \/ Judge \/ UNCHANGED vars
           \/ (\E s \in 1..MaxShots : on_image(s))
           \/ (\E s \in 1..MaxShots, p \in Payloads : on_detection(s, p))
           \/ (\E v \in VlmReview \cup {NoReview} : Review(v))
  <2>1. UNCHANGED <<goal, outcome, elapsed>>
    BY <1>2 DEF shoot, Wake, SettleWait, SettleOver, CaptureFrames, CaptureOver, WindowWait,
       Judge, vars, on_image, on_detection, Review, goal_state, ending, clock_vars
  <2> QED BY <2>1, OtherSteps
<1>3. ASSUME NEW r \in Requests, execute(r) PROVE Server!Begin
  <2>1. limit - 0 \in Nat \ {0}
    BY <1>0
  <2> QED BY <1>3, <2>1 DEF execute, limit, Server!Begin
<1>4. CASE cancel
  BY <1>4 DEF cancel, clock_vars, ending, Server!Cancel, Server!Next
<1>5. CASE NoCamera \/ CaptureTimedOut \/ PersistResult \/ PersistRefused
  <2>1. awake /\ goal' = "none" /\ outcome' = "SUCCEEDED"
    BY <1>5 DEF NoCamera, CaptureTimedOut, PersistResult, PersistRefused, At, Complete, End
  <2> QED BY <1>1, <2>1 DEF Server!Answer, Server!Next
<1>6. CASE SettleCancelled \/ CaptureCancelled \/ WindowCancelled
  <2>1. goal = "canceling" /\ goal' = "none" /\ outcome' = "CANCELED"
    BY <1>6 DEF SettleCancelled, CaptureCancelled, WindowCancelled, Cancelled, CancelSeen,
       EndSilently, End
  <2> QED BY <2>1 DEF Server!Answer, Server!Next
<1>7. CASE CaptureRaises \/ ReviewRaises \/ PersistRaises
  <2>1. awake /\ goal' = "none" /\ outcome' = "ABORTED"
    BY <1>7 DEF CaptureRaises, ReviewRaises, PersistRaises, Capturing, At, EndSilently, End
  <2> QED BY <1>1, <2>1 DEF Server!Answer, Server!Next
<1>8. CASE Tick
  <2>1. UNCHANGED <<goal, outcome>>
    BY <1>8 DEF Tick, ending
  <2>2. CASE goal = "none"
    <3>1. elapsed' = elapsed
      BY <1>8, <2>2 DEF Tick, clock_vars
    <3> QED BY <2>1, <3>1, OtherSteps
  <2>3. CASE goal # "none"
    <3>1. elapsed' = elapsed + 1
      BY <1>8, <2>3 DEF Tick
    <3>2. goal' # "none" /\ limit - elapsed > 1 /\ limit - elapsed' = (limit - elapsed) - 1
      BY <1>0, <2>1, <2>3, <3>1
    <3>3. (IF goal = "none" THEN 0 ELSE limit - elapsed) = limit - elapsed
      BY <2>3
    <3>4. (IF goal = "none" THEN 0 ELSE limit - elapsed)' = limit - elapsed'
      BY <3>2 DEF limit
    <3>5. Server!Pass
      BY <2>1, <2>3, <3>2, <3>3, <3>4 DEF limit, Server!Pass
    <3> QED BY <3>5 DEF Server!Next
  <2> QED BY <2>2, <2>3
<1> QED BY <1>2, <1>3, <1>4, <1>5, <1>6, <1>7, <1>8 DEF Next, Step, Server!Next

\* The inspection server is what the mission manager takes it for: one goal at
\* a time, one answer within its time, as cancelled only when asked to.
THEOREM ExecutorServes == Spec => ServesGoals
<1>1. Init => Server!Init
  BY DEF Init, Server!Init
<1>2. IInv /\ AnsweredInTime /\ AnsweredInTime' /\ [Next]_vars => [Server!Next]_Server!vars
  BY ServerStep
<1> QED BY <1>1, <1>2, ExecutorInvariant, AnswerInTime, PTL DEF Spec, ServesGoals, Server!Spec

-----------------------------------------------------------------------------
(* What a verdict promises.                                                *)

\* After an accepted cancel nothing is concluded any more.
THEOREM NoVerdictAfterCancel == Spec => CancelNeverDecides
<1>1. IInv /\ [Next]_vars /\ goal = "canceling" /\ goal' = "none"
        => outcome' # "SUCCEEDED" \/ published'.decision = Unknown
  <2> SUFFICES ASSUME IInv, [Next]_vars, goal = "canceling", goal' = "none"
               PROVE  outcome' # "SUCCEEDED" \/ published'.decision = Unknown
    OBVIOUS
  <2>1. ~PersistResult
    BY DEF PersistResult, At, IInv, PlaceAgrees
  <2>2. CASE NoCamera \/ CaptureTimedOut \/ PersistRefused
    BY <2>2 DEF NoCamera, CaptureTimedOut, PersistRefused, Complete, Result, Unpersisted
  <2>3. CASE SettleCancelled \/ CaptureCancelled \/ CaptureRaises \/ WindowCancelled
             \/ ReviewRaises \/ PersistRaises
    BY <2>3 DEF SettleCancelled, CaptureCancelled, CaptureRaises, WindowCancelled,
       ReviewRaises, PersistRaises, EndSilently, End
  <2>4. CASE goal' = goal
    BY <2>4
  <2>5. CASE shoot \/ Tick \/ Wake \/ SettleWait \/ SettleOver \/ CaptureFrames
             \/ CaptureOver \/ WindowWait \/ Judge \/ UNCHANGED vars
             \/ (\E s \in 1..MaxShots : on_image(s))
             \/ (\E s \in 1..MaxShots, p \in Payloads : on_detection(s, p))
             \/ (\E v \in VlmReview \cup {NoReview} : Review(v))
    BY <2>4, <2>5 DEF shoot, Tick, Wake, SettleWait, SettleOver, CaptureFrames,
       CaptureOver, WindowWait, Judge, vars, on_image, on_detection, Review, goal_state
  <2>6. ~cancel /\ \A r \in Requests : ~execute(r)
    BY DEF cancel, execute
  <2> QED BY <2>1, <2>2, <2>3, <2>5, <2>6 DEF Next, Step
<1> QED BY <1>1, ExecutorInvariant, PTL DEF Spec, CancelNeverDecides

\* VerdictInv is an invariant: what is about to be published, and what has been.
THEOREM VerdictInvariant == Spec => []VerdictInv
<1>1. Init => VerdictInv
  BY InitIInv DEF VerdictInv
<1>2. VerdictInv /\ [Next]_vars => VerdictInv'
  <2> SUFFICES ASSUME VerdictInv, [Next]_vars PROVE VerdictInv'
    OBVIOUS
  <2>1. TypeOK /\ RequestAdmitted /\ PlaceAgrees /\ VerdictHolds /\ TrustedIsStored
    BY DEF VerdictInv, IInv
  <2>2. IInv'
    BY StepIInv DEF VerdictInv
  <2>3. VerdictHolds'
    BY <2>1, VerdictHoldsStep
  <2>4. TrustedIsStored'
    BY <2>1, TrustedStep
  <2> QED BY <2>2, <2>3, <2>4 DEF VerdictInv
<1> QED BY <1>1, <1>2, PTL DEF Spec

\* What needs no review is on disk before it is published.
THEOREM TrustIsStored == Spec => []TrustedIsStored
<1>1. VerdictInv => TrustedIsStored
  BY DEF VerdictInv
<1> QED BY <1>1, VerdictInvariant, PTL

\* A verdict published on the detector's word has a recent report of one of its
\* own images behind it.
THEOREM VerdictIsReported == Spec => VerdictRests
<1>1. VerdictInv /\ [Next]_vars /\ published' # published
          /\ published'.decision.source = "local_model"
        => Rests(published'.decision.conclusion, published'.evidence)
  <2> SUFFICES ASSUME VerdictInv, [Next]_vars, published' # published,
                      published'.decision.source = "local_model"
               PROVE  Rests(published'.decision.conclusion, published'.evidence)
    OBVIOUS
  <2>0. Unknown.source = "none"
    BY DEF Unknown, Decide
  <2>1. CASE PersistResult
    <3>1. \E files : published' = Result(decision, captures, files)
      BY <2>1 DEF PersistResult, Complete
    <3>2. published'.decision = decision /\ published'.evidence = captures
      BY <3>1 DEF Result
    <3>3. pc = "store"
      BY <2>1 DEF PersistResult, At
    <3> QED BY <3>2, <3>3 DEF VerdictInv, VerdictHolds
  <2>2. ~NoCamera /\ ~CaptureTimedOut /\ ~PersistRefused
    BY <2>0 DEF NoCamera, CaptureTimedOut, PersistRefused, Complete, Result, Unpersisted
  <2>3. \A r \in Requests : ~execute(r)
    BY <2>0 DEF execute, NoResult, Result
  <2>4. ~(SettleCancelled \/ CaptureCancelled \/ CaptureRaises \/ WindowCancelled
             \/ ReviewRaises \/ PersistRaises)
    BY DEF SettleCancelled, CaptureCancelled, CaptureRaises, WindowCancelled,
       ReviewRaises, PersistRaises, EndSilently
  <2>5. ~(\/ shoot \/ Tick \/ cancel \/ Wake \/ SettleWait \/ SettleOver \/ CaptureFrames
          \/ CaptureOver \/ WindowWait \/ Judge \/ UNCHANGED vars
          \/ (\E s \in 1..MaxShots : on_image(s))
          \/ (\E s \in 1..MaxShots, p \in Payloads : on_detection(s, p))
          \/ (\E v \in VlmReview \cup {NoReview} : Review(v)))
    BY DEF shoot, Tick, cancel, Wake, SettleWait, SettleOver, CaptureFrames,
       CaptureOver, WindowWait, Judge, vars, on_image, on_detection, Review, goal_state, ending
  <2> QED BY <2>1, <2>2, <2>3, <2>4, <2>5 DEF Next, Step
<1> QED BY <1>1, VerdictInvariant, PTL DEF Spec, VerdictRests
=============================================================================
