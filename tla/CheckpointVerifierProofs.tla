---------------------- MODULE CheckpointVerifierProofs ----------------------
(***************************************************************************)
(* For any requests, limits and cache: a proved marker was shown by the    *)
(* required frames in a row since the goal began, a dwell that proves an   *)
(* arrival has seen no lasting loss of the fence, and a goal is answered   *)
(* within its time.  The tracker's count always stands for the last frames *)
(* read, and the dwell for time without a loss that no poll noticed.       *)
(***************************************************************************)
EXTENDS CheckpointVerifier, FiniteSetTheorems, TLAPS

\* A request is well formed, the one before the first goal included.
LEMMA RequestType == TypeOK => request \in Request
BY RequestAssumption DEF TypeOK, Request, NoRequest

\* Ages and delays stay natural numbers.
LEMMA OlderType ==
  ASSUME NEW t \in Nat, NEW limit PROVE Older(t, limit) \in Nat
BY DEF Older

\* How many frames there are from one to another.
LEMMA IntervalSize ==
  ASSUME NEW a \in Nat, NEW b \in Nat, a <= b + 1
  PROVE  IsFiniteSet(a..b) /\ Cardinality(a..b) = b - a + 1
<1>1. a \in Int /\ b \in Int
  OBVIOUS
<1>2. /\ IsFiniteSet(a..b)
      /\ Cardinality(a..b) = IF a > b THEN 0 ELSE b - a + 1
  BY <1>1, FS_Interval, Zenon
<1> QED BY <1>1, <1>2

\* The frames of a streak are the last ones: as many as it has.
LEMMA StreakIsLast ==
  ASSUME NEW first \in Nat, NEW n \in Nat, first <= n,
         NEW S \in SUBSET (first..n),
         \A m \in S : m..n \subseteq S
  PROVE  /\ Cardinality(S) \in 0..(n + 1 - first)
         /\ (n - Cardinality(S) + 1)..n \subseteq S
<1>1. IsFiniteSet(S) /\ Cardinality(S) <= n + 1 - first
  <2>1. IsFiniteSet(first..n) /\ Cardinality(first..n) = n - first + 1
    BY IntervalSize
  <2>2. IsFiniteSet(S) /\ Cardinality(S) <= Cardinality(first..n)
    BY <2>1, FS_Subset
  <2> QED BY <2>1, <2>2
<1>2. Cardinality(S) \in Nat
  BY <1>1, FS_CardinalityType
<1>3. ASSUME NEW i \in (n - Cardinality(S) + 1)..n, i \notin S PROVE FALSE
  <2>1. i \in Nat /\ first <= i /\ i <= n /\ i > n - Cardinality(S)
    BY <1>1, <1>2, <1>3
  <2>2. S \subseteq (i + 1)..n
    <3> SUFFICES ASSUME NEW m \in S, m <= i PROVE FALSE
      BY <2>1
    <3> QED BY <1>3, <2>1
  <2>3. IsFiniteSet((i + 1)..n) /\ Cardinality((i + 1)..n) = n - i
    <3>1. IsFiniteSet((i + 1)..n) /\ Cardinality((i + 1)..n) = n - (i + 1) + 1
      BY <2>1, IntervalSize
    <3> QED BY <3>1, <2>1
  <2>4. Cardinality(S) <= n - i
    BY <2>2, <2>3, FS_Subset
  <2> QED BY <2>1, <2>4, <1>2
<1> QED BY <1>1, <1>2, <1>3

\* The unread frames begin after the last one read.
LEMMA UnreadType ==
  ASSUME TypeOK
  PROVE  /\ FirstUnread \in Nat /\ FirstUnread > read
         /\ ~dropped_frames => FirstUnread = read + 1
BY PollAssumption DEF TypeOK, FirstUnread, dropped_frames

\* Whatever was dropped before it, the count at an unread frame stands for
\* that many frames up to it that showed the marker, all of them of the goal.
LEMMA CountIsRunAt ==
  ASSUME TypeOK, CountIsRun, goal = "running", NEW n \in Unread
  PROVE  /\ CountAt(n) \in 0..(n - begun)
         /\ \A m \in (n - CountAt(n) + 1)..n : m \notin misses
<1> DEFINE S == Streak(n)
           c == Cardinality(S)
<1>1. /\ FirstUnread \in Nat /\ n \in Nat /\ FirstUnread <= n
      /\ FirstUnread > read /\ read >= begun /\ read \in Nat /\ begun \in Nat
      /\ sequence \in Nat /\ count \in Nat
  BY UnreadType DEF Unread, TypeOK
<1>2. S \in SUBSET (FirstUnread..n) /\ \A m \in S : m..n \subseteq S
  BY <1>1 DEF Streak
<1>3. c \in 0..(n + 1 - FirstUnread) /\ (n - c + 1)..n \subseteq S
  <2> HIDE DEF S
  <2> QED BY <1>1, <1>2, StreakIsLast
<1>4. \A m \in S : m \notin misses
  BY <1>1 DEF Streak, Shows
<1>5. CASE ~(FirstUnread \in S /\ ~dropped_frames)
  <2>1. CountAt(n) = c
    BY <1>3, <1>5 DEF CountAt, Base
  <2> QED BY <1>1, <1>3, <1>4, <2>1
<1>6. CASE FirstUnread \in S /\ ~dropped_frames
  <2>1. FirstUnread = read + 1
    BY <1>6, UnreadType
  <2>2. FirstUnread..n \subseteq S
    BY <1>2, <1>6
  <2>3. c = n + 1 - FirstUnread
    <3>1. S = FirstUnread..n
      BY <1>2, <2>2
    <3>2. Cardinality(FirstUnread..n) = n - FirstUnread + 1
      BY <1>1, IntervalSize
    <3> QED BY <3>1, <3>2, <1>1
  <2>4. CountAt(n) = c + count
    BY <1>6 DEF CountAt, Base
  <2>5. count <= read - begun /\ \A m \in (read - count + 1)..read : m \notin misses
    BY DEF CountIsRun
  <2>6. CountAt(n) = n - read + count
    BY <1>1, <2>1, <2>3, <2>4
  <2>7. ASSUME NEW m \in (n - CountAt(n) + 1)..n PROVE m \notin misses
    <3>1. m \in (read - count + 1)..n
      BY <2>6, <2>7, <1>1
    <3>2. CASE m <= read BY <3>1, <3>2, <2>5, <1>1
    <3>3. CASE m > read BY <3>1, <3>3, <2>1, <2>2, <1>4, <1>1
    <3> QED BY <3>1, <3>2, <3>3, <1>1
  <2> QED BY <1>1, <2>5, <2>6, <2>7
<1> QED BY <1>5, <1>6

\* What an iteration of the loop has in common: time has not run out, and the
\* dwell it writes has seen no loss.
LEMMA DwelledIsSteady ==
  ASSUME IInv, Fence, goal = "running"
  PROVE  /\ lost_for = 0 /\ Dwelled \in Nat
         /\ Dwelled <= steady /\ Dwelled <= request.dwell + 1
BY RequestType DEF IInv, TypeOK, DwellIsSteady, Dwelled, NoDwell, Request

-----------------------------------------------------------------------------
LEMMA InitIInv == Init => IInv
<1> SUFFICES ASSUME Init PROVE IInv
  OBVIOUS
<1>1. TypeOK
  <2>1. /\ goal \in {"none", "running", "canceling"} /\ request \in Requests \cup {NoRequest}
        /\ outcome \in Verified \cup Captured \cup {"NONE", "CANCELLED", "TIMEOUT"}
        /\ age \in [1..MaxFrames -> Nat]
    BY DEF Init
  <2>2. /\ elapsed \in Nat /\ since_poll \in 0..Period /\ lost_for \in 0..(Period + 1)
        /\ pose_age \in Nat /\ motion_age \in Nat /\ steady \in Nat
    BY PollAssumption, AgeAssumption DEF Init
  <2>4. dwell \in Nat \cup {NoDwell} /\ inside \in BOOLEAN /\ still \in BOOLEAN
    BY Zenon DEF Init
  <2>3. /\ sequence \in 0..MaxFrames /\ misses \subseteq 1..sequence
        /\ begun \in 0..sequence /\ read \in begun..sequence /\ count \in Nat
        /\ proof \in 0..sequence
    BY PollAssumption DEF Init
  <2> QED BY <2>1, <2>2, <2>3, <2>4 DEF TypeOK
<1>2. PolledInTime /\ CountIsRun /\ ProofIsConsecutive
  BY DEF Init, PolledInTime, CountIsRun, ProofIsConsecutive
<1>3. DwellIsSteady
  BY DEF Init, DwellIsSteady, Fence
<1> QED BY <1>1, <1>2, <1>3 DEF IInv

LEMMA StepIInv == IInv /\ [Next]_vars => IInv'
<1> SUFFICES ASSUME IInv, [Next]_vars PROVE IInv'
  OBVIOUS
<1> USE PollAssumption, AgeAssumption
<1>0. request \in Request
  BY RequestType DEF IInv
<1>1. CASE on_pose
  BY <1>1, <1>0
  DEF on_pose, Regain, Fence, frame_vars, tracking, IInv, TypeOK, PolledInTime,
      CountIsRun, DwellIsSteady, ProofIsConsecutive, NoDwell
<1>2. CASE on_motion
  BY <1>2, <1>0
  DEF on_motion, Regain, Fence, frame_vars, tracking, IInv, TypeOK, PolledInTime,
      CountIsRun, DwellIsSteady, ProofIsConsecutive, NoDwell
<1>3. ASSUME NEW b \in BOOLEAN, on_markers(b) PROVE IInv'
  <2>1. TypeOK'
    BY <1>3, <1>0 DEF on_markers, tracking, fence_vars, IInv, TypeOK
  <2>2. \A m \in Int : m <= sequence => (m \in misses' <=> m \in misses)
    BY <1>3 DEF on_markers, IInv, TypeOK
  <2>3. CountIsRun'
    BY <1>3, <2>2 DEF on_markers, tracking, IInv, TypeOK, CountIsRun
  <2>4. ProofIsConsecutive'
    BY <1>3, <1>0, <2>2 DEF on_markers, tracking, IInv, TypeOK, ProofIsConsecutive, Request
  <2>5. PolledInTime' /\ DwellIsSteady'
    BY <1>3 DEF on_markers, fence_vars, IInv, PolledInTime, DwellIsSteady, Fence
  <2> QED BY <2>1, <2>3, <2>4, <2>5 DEF IInv
<1>4. ASSUME NEW r \in Requests, execute(r) PROVE IInv'
  <2>1. r \in Request
    BY RequestAssumption
  <2>2. TypeOK'
    BY <1>4 DEF execute, StartSequence, fence_vars, frame_vars, IInv, TypeOK, NoDwell
  <2>3. PolledInTime'
    BY <1>4, <2>1 DEF execute, PolledInTime, Request
  <2>4. CountIsRun' /\ ProofIsConsecutive'
    BY <1>4 DEF execute, StartSequence, frame_vars, IInv, TypeOK, CountIsRun, ProofIsConsecutive
  <2>5. DwellIsSteady'
    BY <1>4 DEF execute, fence_vars, IInv, DwellIsSteady, Fence, NoDwell
  <2> QED BY <2>2, <2>3, <2>4, <2>5 DEF IInv
<1>5. CASE cancel
  BY <1>5
  DEF cancel, fence_vars, frame_vars, tracking, IInv, TypeOK, PolledInTime,
      CountIsRun, DwellIsSteady, Fence, ProofIsConsecutive
<1>6. CASE PollCancelled \/ PollTimeout
  <2>1. /\ since_poll' = 0 /\ goal' = "none" /\ outcome' \in {"CANCELLED", "TIMEOUT"}
        /\ UNCHANGED <<request, elapsed, dwell, fence_vars, frame_vars, tracking,
                       begun, lost_for, steady>>
    BY <1>6 DEF PollCancelled, PollTimeout, Poll, Answer
  <2>2. TypeOK'
    BY <2>1 DEF fence_vars, frame_vars, tracking, IInv, TypeOK
  <2>3. PolledInTime' /\ CountIsRun' /\ DwellIsSteady' /\ ProofIsConsecutive'
    BY <2>1 DEF fence_vars, frame_vars, tracking, IInv, PolledInTime, CountIsRun,
                DwellIsSteady, Fence, ProofIsConsecutive
  <2> QED BY <2>2, <2>3 DEF IInv
<1>7. CASE PollOutside
  BY <1>7, <1>0
  DEF PollOutside, InTime, ResetDwell, Poll, fence_vars, frame_vars, tracking,
      IInv, TypeOK, PolledInTime, CountIsRun, DwellIsSteady, Fence,
      ProofIsConsecutive, Request
<1>8. CASE PollDwelling \/ PollGeofence
  <2>1. Fence /\ goal = "running" /\ elapsed < request.timeout
    BY <1>8 DEF PollDwelling, PollGeofence, Arrived, InTime
  <2>2. /\ lost_for = 0 /\ Dwelled \in Nat
        /\ Dwelled <= steady /\ Dwelled <= request.dwell + 1
    BY <2>1, DwelledIsSteady
  <2>3. /\ since_poll' = 0 /\ dwell' = Dwelled /\ goal' \in {"running", "none"}
        /\ UNCHANGED <<request, elapsed, fence_vars, frame_vars, tracking,
                       begun, lost_for, steady>>
        /\ outcome' \in {outcome, "GEOFENCE_VERIFIED"}
    BY <1>8, <2>1 DEF PollDwelling, PollGeofence, Poll, Answer
  <2> QED
    BY <2>1, <2>2, <2>3, <1>0
    DEF fence_vars, frame_vars, tracking, IInv, TypeOK, PolledInTime, CountIsRun,
        DwellIsSteady, Fence, ProofIsConsecutive, Verified, Request
<1>9. CASE PollMarkers
  <2>1. Fence /\ goal = "running" /\ elapsed < request.timeout
    BY <1>9 DEF PollMarkers, Arrived, InTime
  <2>2. /\ lost_for = 0 /\ Dwelled \in Nat
        /\ Dwelled <= steady /\ Dwelled <= request.dwell + 1
    BY <2>1, DwelledIsSteady
  <2>3. /\ since_poll' = 0 /\ dwell' = Dwelled /\ read' = sequence
        /\ count' = IF Unread = {} THEN count ELSE CountAt(sequence)
        /\ UNCHANGED <<goal, request, outcome, elapsed, fence_vars, frame_vars,
                       proof, begun, lost_for, steady>>
    BY <1>9 DEF PollMarkers, Poll
  <2>4. count' \in 0..(sequence - begun) /\
        \A m \in (sequence - count' + 1)..sequence : m \notin misses
    <3>1. CASE Unread = {}
      <4>1. read = sequence
        BY <3>1 DEF Unread, FirstUnread, IInv, TypeOK
      <4> QED BY <2>1, <2>3, <3>1, <4>1 DEF IInv, TypeOK, CountIsRun
    <3>2. CASE Unread # {}
      <4>1. sequence \in Unread
        BY <3>2, UnreadType DEF Unread, IInv, TypeOK
      <4> QED BY <2>1, <2>3, <3>2, <4>1, CountIsRunAt DEF IInv
    <3> QED BY <3>1, <3>2
  <2>5. TypeOK'
    BY <2>2, <2>3, <2>4 DEF fence_vars, frame_vars, IInv, TypeOK
  <2>6. CountIsRun'
    BY <2>1, <2>3, <2>4 DEF frame_vars, IInv, TypeOK, CountIsRun
  <2>7. ProofIsConsecutive'
    BY <2>1, <2>3 DEF frame_vars, IInv, CountIsRun, ProofIsConsecutive
  <2>8. PolledInTime' /\ DwellIsSteady'
    BY <2>1, <2>2, <2>3, <1>0
    DEF fence_vars, IInv, TypeOK, PolledInTime, DwellIsSteady, Fence, Request
  <2> QED BY <2>5, <2>6, <2>7, <2>8 DEF IInv
<1>10. CASE PollConfirmed
  <2>1. Fence /\ goal = "running" /\ elapsed < request.timeout
    BY <1>10 DEF PollConfirmed, Arrived, InTime
  <2>2. /\ lost_for = 0 /\ Dwelled \in Nat
    BY <2>1, DwelledIsSteady
  <2>3. PICK n \in Unread : Confirms(n) /\ proof' = n /\ count' = CountAt(n)
    BY <1>10 DEF PollConfirmed
  <2>4. /\ since_poll' = 0 /\ dwell' = Dwelled /\ read' = sequence /\ goal' = "none"
        /\ outcome' \in Captured
        /\ UNCHANGED <<request, elapsed, fence_vars, frame_vars, begun,
                       lost_for, steady>>
    BY <1>10 DEF PollConfirmed, Poll, Answer
  <2>5. n \in 1..sequence
    BY UnreadType DEF Unread, IInv, TypeOK
  <2>6. /\ CountAt(n) \in 0..(n - begun)
        /\ \A m \in (n - CountAt(n) + 1)..n : m \notin misses
    BY <2>1, CountIsRunAt DEF IInv
  <2>7. CountAt(n) >= request.confirmation_frames
    BY <2>3 DEF Confirms
  <2>8. TypeOK'
    BY <2>2, <2>3, <2>4, <2>5, <2>6 DEF fence_vars, frame_vars, IInv, TypeOK, Verified
  <2>9. ProofIsConsecutive'
    <3> DEFINE f == request.confirmation_frames
               c == CountAt(n)
    <3>1. f \in Nat /\ begun \in Nat /\ n \in Nat /\ c \in Nat /\ c >= f /\ c <= n - begun
      BY <1>0, <2>5, <2>6, <2>7 DEF Request, IInv, TypeOK
    <3>2. \A m \in (n - c + 1)..n : m \notin misses
      BY <2>6
    <3>3. \A m \in (n - f + 1)..n : m \in (n - c + 1)..n
      <4> HIDE DEF f, c
      <4> QED BY <3>1
    <3>4. n - f >= begun
      <4> HIDE DEF f, c
      <4> QED BY <3>1
    <3> QED BY <2>3, <2>4, <3>2, <3>3, <3>4 DEF frame_vars, ProofIsConsecutive
  <2>10. CountIsRun'
    BY <2>3, <2>4, <2>5 DEF CountIsRun
  <2>11. PolledInTime' /\ DwellIsSteady'
    BY <2>2, <2>4 DEF fence_vars, PolledInTime, DwellIsSteady, Fence, IInv
  <2> QED BY <2>8, <2>9, <2>10, <2>11 DEF IInv
<1>11. CASE Tick
  <2>1. TypeOK'
    <3>1. UNCHANGED <<goal, request, outcome, inside, still, sequence, misses, read,
                      count, proof, begun>>
      BY <1>11 DEF Tick, tracking
    <3>2. elapsed' \in Nat /\ since_poll' \in 0..Period
      BY <1>11, <1>0, OlderType DEF Tick, IInv, TypeOK
    <3>3. dwell' \in Nat \cup {NoDwell}
      BY <1>11, OlderType DEF Tick, IInv, TypeOK
    <3>4. pose_age' \in Nat /\ motion_age' \in Nat
      BY <1>11, OlderType DEF Tick, IInv, TypeOK
    <3>5. age' \in [1..MaxFrames -> Nat]
      BY <1>11, OlderType DEF Tick, IInv, TypeOK
    <3>6. lost_for' \in 0..(Period + 1)
      BY <1>11, <1>0 DEF Tick, Older, IInv, TypeOK
    <3>7. steady' \in Nat
      BY <1>11, OlderType DEF Tick, IInv, TypeOK
    <3> QED BY <3>1, <3>2, <3>3, <3>4, <3>5, <3>6, <3>7 DEF IInv, TypeOK
  <2>2. PolledInTime'
    BY <1>11, <1>0 DEF Tick, Older, IInv, TypeOK, PolledInTime, Request
  <2>3. CountIsRun' /\ ProofIsConsecutive'
    BY <1>11 DEF Tick, tracking, IInv, CountIsRun, ProofIsConsecutive
  <2>4. Fence' => lost_for' = 0
    BY <1>11 DEF Tick, Older, Fence, IInv, TypeOK
  <2>5. ASSUME goal' # "none", dwell' # NoDwell
        PROVE  lost_for' <= since_poll' /\ dwell' <= steady' /\ dwell' <= request'.dwell + 1
    <3>1. /\ goal # "none" /\ dwell # NoDwell /\ since_poll < Period
          /\ lost_for <= since_poll /\ dwell <= steady /\ dwell <= request.dwell + 1
      BY <1>11, <2>5 DEF Tick, IInv, DwellIsSteady
    <3>2. lost_for' <= since_poll' /\ since_poll' <= Period
      BY <1>11, <3>1 DEF Tick, Older, IInv, TypeOK
    <3>3. ~(lost_for' > Period)
      BY <3>1, <3>2, <2>1 DEF TypeOK
    <3>4. steady' = Older(steady, request.dwell) /\ dwell' = Older(dwell, request.dwell)
      BY <1>11, <3>1, <3>3 DEF Tick
    <3> QED BY <3>1, <3>2, <3>4, <1>0, <1>11 DEF Older, Tick, IInv, TypeOK, Request, NoDwell
  <2>6. DwellIsSteady'
    BY <2>4, <2>5 DEF DwellIsSteady
  <2> QED BY <2>1, <2>2, <2>3, <2>6 DEF IInv
<1>12. CASE UNCHANGED vars
  BY <1>12
  DEF vars, fence_vars, frame_vars, tracking, IInv, TypeOK, PolledInTime,
      CountIsRun, DwellIsSteady, Fence, ProofIsConsecutive
<1> QED BY <1>1, <1>2, <1>3, <1>4, <1>5, <1>6, <1>7, <1>8, <1>9, <1>10, <1>11, <1>12
        DEF Next, Iteration

\* The invariant of the verifier, from the first goal to the last.
THEOREM VerifierInvariant == Spec => []IInv
BY InitIInv, StepIInv, PTL DEF Spec

\* A marker counts as proved only after its frames in a row: none of them lost,
\* mismatched or older than the goal.
THEOREM MarkerIsProved == Spec => []ProofIsConsecutive
<1>1. IInv => ProofIsConsecutive
  BY DEF IInv
<1> QED BY <1>1, VerifierInvariant, PTL

LEMMA TimeIsLeft ==
  IInv => AnsweredInTime /\ request.timeout \in Nat \ {0} /\ elapsed \in Nat
<1> SUFFICES ASSUME IInv
             PROVE  /\ request.timeout \in Nat \ {0} /\ elapsed \in Nat
                    /\ goal # "none" => elapsed < request.timeout + Period
  BY DEF AnsweredInTime
<1>1. request.timeout \in Nat \ {0}
  BY RequestType DEF IInv, Request
<1>2. /\ elapsed \in Nat /\ since_poll \in 0..Period
      /\ goal # "none" => elapsed < request.timeout + since_poll
  BY DEF IInv, TypeOK, PolledInTime
<1> QED BY <1>1, <1>2, PollAssumption

\* No goal outlives its timeout by a poll period, whatever the sensors do.
THEOREM GoalIsAnswered == Spec => []AnsweredInTime
BY TimeIsLeft, VerifierInvariant, PTL

-----------------------------------------------------------------------------
(* The verifier implements GoalServer.                                     *)

\* A step that touches neither the goal nor its time is none of the server's.
LEMMA OtherSteps ==
  ASSUME UNCHANGED <<goal, request, outcome, elapsed>>
  PROVE  UNCHANGED Server!vars
BY DEF Server!vars

LEMMA ServerStep ==
  ASSUME IInv, AnsweredInTime', [Next]_vars
  PROVE  [Server!Next]_Server!vars
<1>0. /\ request.timeout \in Nat \ {0} /\ elapsed \in Nat /\ Period \in Nat \ {0}
      /\ goal \in {"none", "running", "canceling"}
      /\ goal' # "none" => elapsed' < request'.timeout + Period
  BY TimeIsLeft, PollAssumption DEF IInv, TypeOK, AnsweredInTime
<1>1. CASE \/ on_pose \/ on_motion \/ \E b \in BOOLEAN : on_markers(b)
           \/ PollOutside \/ PollDwelling \/ PollMarkers \/ UNCHANGED vars
  BY <1>1, OtherSteps DEF on_pose, on_motion, on_markers, PollOutside, PollDwelling,
     PollMarkers, vars
<1>2. ASSUME NEW r \in Requests, execute(r) PROVE Server!Begin
  <2>1. r.timeout \in Nat \ {0}
    BY RequestAssumption DEF Request
  <2>2. r.timeout + Period - 0 \in Nat \ {0}
    BY <1>0, <2>1
  <2> QED BY <1>2, <2>2 DEF execute, Server!Begin
<1>3. CASE cancel
  BY <1>3 DEF cancel, Server!Cancel, Server!Next
<1>4. CASE PollCancelled \/ PollTimeout \/ PollGeofence \/ PollConfirmed
  BY <1>0, <1>4 DEF PollCancelled, PollTimeout, PollGeofence, PollConfirmed, Arrived, InTime,
     Answer, Verified, Captured, Server!Answer, Server!Next
<1>5. CASE Tick
  <2>1. UNCHANGED <<goal, request, outcome>>
    BY <1>5 DEF Tick
  <2>2. CASE goal = "none"
    <3>1. elapsed' = elapsed
      BY <1>5, <2>2 DEF Tick
    <3> QED BY <2>1, <3>1, OtherSteps
  <2>3. CASE goal # "none"
    <3>1. elapsed < request.timeout + Period
      BY <2>3, TimeIsLeft DEF AnsweredInTime
    <3>2. elapsed' = elapsed + 1
      BY <1>0, <1>5, <2>3, <3>1 DEF Tick, Older
    <3>3. elapsed + 1 < request.timeout + Period
      BY <1>0, <2>1, <2>3, <3>2
    <3>4. /\ goal' # "none"
          /\ request.timeout + Period - elapsed > 1
          /\ request'.timeout + Period - elapsed' = (request.timeout + Period - elapsed) - 1
      BY <1>0, <2>1, <2>3, <3>2, <3>3
    <3>5. (IF goal = "none" THEN 0 ELSE request.timeout + Period - elapsed)
            = request.timeout + Period - elapsed
      BY <2>3
    <3>6. (IF goal = "none" THEN 0 ELSE request.timeout + Period - elapsed)'
            = request'.timeout + Period - elapsed'
      BY <3>4
    <3>7. Server!Pass
      BY <2>1, <2>3, <3>4, <3>5, <3>6 DEF Server!Pass
    <3> QED BY <3>7 DEF Server!Next
  <2> QED BY <2>2, <2>3
<1> QED BY <1>1, <1>2, <1>3, <1>4, <1>5 DEF Next, Iteration, Server!Next

\* The check-in server is what the mission manager takes it for: one goal at a
\* time, one answer within its time, as cancelled only when asked to.
THEOREM VerifierServes == Spec => ServesGoals
<1>1. Init => Server!Init
  BY DEF Init, Server!Init
<1>2. IInv /\ AnsweredInTime' /\ [Next]_vars => [Server!Next]_Server!vars
  BY ServerStep
<1> QED BY <1>1, <1>2, VerifierInvariant, GoalIsAnswered, PTL DEF Spec, ServesGoals, Server!Spec

\* An arrival is proved by a dwell without a loss longer than a poll period.
THEOREM DwellIsWhole == Spec => LossRestartsDwell
<1>1. ASSUME IInv, [Next]_vars
      PROVE  [goal # "none" /\ goal' = "none" /\ outcome' \in Verified
                => steady >= request.dwell]_vars
  <2> SUFFICES ASSUME Next, goal # "none", goal' = "none", outcome' \in Verified
               PROVE  steady >= request.dwell
    BY <1>1 DEF vars
  <2>1. PollGeofence \/ PollConfirmed
    BY DEF Next, Iteration, on_pose, on_motion, on_markers, execute, cancel,
           PollCancelled, PollTimeout, PollOutside, PollDwelling, PollMarkers,
           Answer, Tick, Verified
  <2>2. Fence /\ goal = "running" /\ Dwelled >= request.dwell
    BY <2>1 DEF PollGeofence, PollConfirmed, Arrived, InTime
  <2>3. Dwelled <= steady /\ Dwelled \in Nat
    BY <2>2, <1>1, DwelledIsSteady
  <2> QED BY <2>2, <2>3, <1>1, RequestType DEF IInv, TypeOK, Request
<1> QED BY <1>1, VerifierInvariant, PTL DEF Spec, LossRestartsDwell
=============================================================================
