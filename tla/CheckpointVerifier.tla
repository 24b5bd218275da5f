------------------------- MODULE CheckpointVerifier -------------------------
(***************************************************************************)
(* car_inspection/checkpoint_verifier.py with checkin_logic.py: the action *)
(* that proves an arrival by a localization fence, a dwell time and, for   *)
(* the visual method, consecutive detector frames of the expected marker.  *)
(* rclpy.spin runs one callback at a time: an iteration of the polling     *)
(* loop is one step, and a second goal is refused while one is active.     *)
(*                                                                         *)
(* Time passes in Tick; ages and delays saturate above every limit they    *)
(* are compared with.  A pose tells whether it is inside the fence with a  *)
(* small covariance, a motion message whether the car stands still.        *)
(***************************************************************************)
EXTENDS Integers, FiniteSets

CONSTANTS
  Requests,      \* the goals that _goal_callback admits
  PoseMaxAge, MotionMaxAge, FrameMaxAge,   \* pose_, motion_, image_max_age_sec
  Period,        \* longest time between two polls
  FrameCache,    \* length of the deque _marker_frames
  MaxFrames      \* bound on the frames received

Request == [method: {"geofence", "visual_marker"},
            timeout: Nat \ {0}, dwell: Nat, confirmation_frames: Nat \ {0}]

ASSUME RequestAssumption == Requests \subseteq Request
ASSUME AgeAssumption ==
  PoseMaxAge \in Nat /\ MotionMaxAge \in Nat /\ FrameMaxAge \in Nat
ASSUME PollAssumption ==
  Period \in Nat \ {0} /\ FrameCache \in Nat \ {0} /\ MaxFrames \in Nat

VARIABLES
  goal,        \* the goal handle: none, running, canceling
  request,     \* its request
  outcome,     \* outcome of its result
  elapsed,     \* time since the goal began
  dwell,       \* time since dwell_started_at; NoDwell for None
  since_poll,
  inside, pose_age,     \* the last pose, too old when there was none
  still, motion_age,    \* the last motion message
  sequence,    \* self._marker_sequence
  misses,      \* the frames that did not show the expected marker
  age,         \* age of each frame
  read,        \* marker_sequence of the goal: the frames up to it are read
  count,       \* tracker.count
  begun,       \* history: sequence when the goal began
  proof,       \* history: the frame that confirmed the marker
  lost_for,    \* history: how long the fence has been lost
  steady       \* history: time since a loss was longer than a period

fence_vars == <<inside, pose_age, still, motion_age>>
frame_vars == <<sequence, misses, age>>
tracking   == <<read, count, proof>>
vars == <<goal, request, outcome, elapsed, dwell, since_poll, fence_vars,
          frame_vars, tracking, begun, lost_for, steady>>

NoDwell == -1
NoRequest == [method |-> "geofence", timeout |-> 1, dwell |-> 0,
              confirmation_frames |-> 1]

Older(t, limit) == IF t <= limit THEN t + 1 ELSE t

-----------------------------------------------------------------------------
(* The fence, and the messages it is judged by.                           *)

\* evaluate_geofence: fresh, localized, inside and standing still.
Fence == inside /\ pose_age <= PoseMaxAge /\ still /\ motion_age <= MotionMaxAge

Init ==
  /\ goal = "none" /\ request = NoRequest /\ outcome = "NONE"
  /\ elapsed = 0 /\ dwell = NoDwell /\ since_poll = 0
  /\ inside = FALSE /\ pose_age = PoseMaxAge + 1
  /\ still = FALSE /\ motion_age = MotionMaxAge + 1
  /\ sequence = 0 /\ misses = {} /\ age = [n \in 1..MaxFrames |-> 0]
  /\ read = 0 /\ count = 0 /\ begun = 0 /\ proof = 0
  /\ lost_for = 0 /\ steady = 0

Regain == lost_for' = IF Fence' THEN 0 ELSE lost_for

on_pose ==
  /\ inside' \in BOOLEAN /\ pose_age' = 0
  /\ UNCHANGED <<goal, request, outcome, elapsed, dwell, since_poll, still,
                 motion_age, frame_vars, tracking, begun, steady>>
  /\ Regain

on_motion ==
  /\ still' \in BOOLEAN /\ motion_age' = 0
  /\ UNCHANGED <<goal, request, outcome, elapsed, dwell, since_poll, inside,
                 pose_age, frame_vars, tracking, begun, steady>>
  /\ Regain

\* A well-formed frame of the detector, with or without the marker.
on_markers(shown) ==
  /\ sequence < MaxFrames
  /\ sequence' = sequence + 1
  /\ misses' = IF shown THEN misses ELSE misses \cup {sequence + 1}
  /\ UNCHANGED <<goal, request, outcome, elapsed, dwell, since_poll, fence_vars,
                 age, tracking, begun, lost_for, steady>>

-----------------------------------------------------------------------------
(* The goal.                                                               *)

StartSequence == sequence

execute(r) ==
  /\ goal = "none"
  /\ goal' = "running" /\ request' = r /\ outcome' = "NONE"
  /\ elapsed' = 0 /\ dwell' = NoDwell /\ since_poll' = Period
  /\ read' = StartSequence /\ begun' = sequence /\ count' = 0 /\ proof' = 0
  /\ UNCHANGED <<fence_vars, frame_vars, lost_for, steady>>

cancel ==
  /\ goal = "running" /\ goal' = "canceling"
  /\ UNCHANGED <<request, outcome, elapsed, dwell, since_poll, fence_vars,
                 frame_vars, tracking, begun, lost_for, steady>>

-----------------------------------------------------------------------------
(* An iteration of the loop of _run_checkin.                               *)

Poll == since_poll > 0 /\ since_poll' = 0

Answer(result) == goal' = "none" /\ outcome' = result

\* Time since the fence was reached, by the clock of this iteration.
Dwelled == IF dwell = NoDwell THEN 0 ELSE dwell

\* Mutant: a goal whose car stands in the fence is not ended by its timeout.
TimeWhenArrived == goal = "running" /\ (Fence \/ elapsed < request.timeout)

InTime == goal = "running" /\ elapsed < request.timeout

PollCancelled ==
  /\ goal = "canceling" /\ Poll /\ Answer("CANCELLED")
  /\ UNCHANGED <<request, elapsed, dwell, fence_vars, frame_vars, tracking,
                 begun, lost_for, steady>>

PollTimeout ==
  /\ goal = "running" /\ elapsed >= request.timeout
  /\ Poll /\ Answer("TIMEOUT")
  /\ UNCHANGED <<request, elapsed, dwell, fence_vars, frame_vars, tracking,
                 begun, lost_for, steady>>

\* Mutant: the dwell goes on when the fence is lost.
KeepDwell == dwell

ResetDwell == NoDwell

PollOutside ==
  /\ InTime /\ ~Fence /\ Poll
  /\ dwell' = ResetDwell
  /\ UNCHANGED <<goal, request, outcome, elapsed, fence_vars, frame_vars,
                 tracking, begun, lost_for, steady>>

PollDwelling ==
  /\ InTime /\ Fence /\ Dwelled < request.dwell /\ Poll
  /\ dwell' = Dwelled
  /\ UNCHANGED <<goal, request, outcome, elapsed, fence_vars, frame_vars,
                 tracking, begun, lost_for, steady>>

Arrived == InTime /\ Fence /\ Dwelled >= request.dwell

PollGeofence ==
  /\ Arrived /\ request.method = "geofence" /\ Poll
  /\ dwell' = Dwelled /\ Answer("GEOFENCE_VERIFIED")
  /\ UNCHANGED <<request, elapsed, fence_vars, frame_vars, tracking, begun,
                 lost_for, steady>>

-----------------------------------------------------------------------------
(* The frames of an iteration: _marker_frames_since and the tracker.       *)

\* The first frame that is neither read nor pushed out of the deque.
FirstUnread ==
  IF read < sequence - FrameCache THEN sequence - FrameCache + 1 ELSE read + 1
Unread == FirstUnread..sequence

\* Mutant: frames that were pushed out go unnoticed.
NothingDropped == FALSE

dropped_frames == FirstUnread > read + 1

Shows(n) == n \notin misses /\ age[n] <= FrameMaxAge

\* What the tracker starts from: lost frames have reset it.
Base == IF dropped_frames THEN 0 ELSE count

\* The unread frames from which on, up to frame n, the marker is shown.
Streak(n) == {m \in FirstUnread..n : \A k \in m..n : Shows(k)}

\* tracker.count when frame n has been observed.
CountAt(n) == Cardinality(Streak(n)) + IF FirstUnread \in Streak(n) THEN Base ELSE 0

Confirms(n) == CountAt(n) >= request.confirmation_frames

\* No frame confirms the marker: the count is kept for the next iteration.
PollMarkers ==
  /\ Arrived /\ request.method = "visual_marker" /\ Poll
  /\ \A n \in Unread : ~Confirms(n)
  /\ dwell' = Dwelled
  /\ read' = sequence /\ count' = IF Unread = {} THEN count ELSE CountAt(sequence)
  /\ UNCHANGED <<goal, request, outcome, elapsed, fence_vars, frame_vars, proof,
                 begun, lost_for, steady>>

\* The first frame that does ends the loop.  Its image may not be found or
\* stored, and drawing or writing it may raise: rclpy then aborts the goal.
Captured == {"VISUAL_MARKER_VERIFIED", "EVIDENCE_WRITE_FAILED", "ABORTED"}

PollConfirmed ==
  /\ Arrived /\ request.method = "visual_marker" /\ Poll
  /\ \E n \in Unread :
       /\ Confirms(n) /\ \A m \in Unread : m < n => ~Confirms(m)
       /\ proof' = n /\ count' = CountAt(n)
  /\ dwell' = Dwelled /\ read' = sequence
  /\ \E result \in Captured : Answer(result)
  /\ UNCHANGED <<request, elapsed, fence_vars, frame_vars, begun, lost_for, steady>>

-----------------------------------------------------------------------------
Tick ==
  /\ goal # "none" => since_poll < Period
  /\ IF goal = "none" THEN UNCHANGED <<elapsed, dwell, since_poll>>
     ELSE /\ since_poll' = since_poll + 1
          /\ elapsed' = Older(elapsed, request.timeout + Period)
          /\ dwell' = IF dwell = NoDwell THEN NoDwell ELSE Older(dwell, request.dwell)
  /\ pose_age' = Older(pose_age, PoseMaxAge)
  /\ motion_age' = Older(motion_age, MotionMaxAge)
  /\ age' = [n \in 1..MaxFrames |->
               IF n <= sequence THEN Older(age[n], FrameMaxAge) ELSE 0]
  /\ lost_for' = IF Fence THEN 0 ELSE Older(lost_for, Period)
  /\ steady' = IF lost_for' > Period THEN 0 ELSE Older(steady, request.dwell)
  /\ UNCHANGED <<goal, request, outcome, inside, still, sequence, misses,
                 tracking, begun>>

Iteration ==
  \/ PollCancelled \/ PollTimeout \/ PollOutside \/ PollDwelling \/ PollGeofence
  \/ PollMarkers \/ PollConfirmed

Next ==
  \/ on_pose \/ on_motion \/ \E b \in BOOLEAN : on_markers(b)
  \/ \E r \in Requests : execute(r)
  \/ cancel \/ Iteration \/ Tick

Spec == Init /\ [][Next]_vars

-----------------------------------------------------------------------------
(* Properties.                                                             *)

\* A marker that counts as proved was shown by the required number of detector
\* frames in a row, all of them received since the goal began: no frame in
\* between was lost, mismatched or skipped, however the polls, the losses of
\* the fence and the frames interleave.
ProofIsConsecutive ==
  proof # 0 =>
    /\ proof - request.confirmation_frames >= begun
    /\ \A n \in (proof - request.confirmation_frames + 1)..proof : n \notin misses

Verified == {"GEOFENCE_VERIFIED", "VISUAL_MARKER_VERIFIED"}

\* An arrival is proved only when no loss of the fence has been longer than a
\* poll period for the whole dwell time.
LossRestartsDwell ==
  [][goal # "none" /\ goal' = "none" /\ outcome' \in Verified
       => steady >= request.dwell]_vars

\* Every goal is answered within its time and one poll period, whatever the
\* sensors do and however often the dwell and the count begin anew.
AnsweredInTime == goal # "none" => elapsed < request.timeout + Period

\* What the mission manager relies on, see GoalServer: within that time one
\* answer, as cancelled only when asked to.
Server == INSTANCE GoalServer WITH
  Answers <- Verified \cup Captured \cup {"CANCELLED", "TIMEOUT"},
  Canceled <- "CANCELLED",
  phase <- goal,
  left <- IF goal = "none" THEN 0 ELSE request.timeout + Period - elapsed,
  answer <- outcome

ServesGoals == Server!Spec

\* What the protocol document says: a marker seen while the car is not yet
\* standing in the fence proves nothing.  The frames of the last second before
\* the arrival count as well when the dwell is shorter than that.
NoMovingProof ==
  [][proof' # 0 /\ proof' # proof
       => \A n \in (proof' - request.confirmation_frames + 1)..proof' :
            age[n] <= Dwelled]_vars
-----------------------------------------------------------------------------
(* The inductive invariant of the proofs.                                  *)

\* Every variable keeps to its range.
TypeOK ==
  /\ goal \in {"none", "running", "canceling"} /\ request \in Requests \cup {NoRequest}
  /\ outcome \in Verified \cup Captured \cup {"NONE", "CANCELLED", "TIMEOUT"}
  /\ elapsed \in Nat /\ dwell \in Nat \cup {NoDwell} /\ since_poll \in 0..Period
  /\ inside \in BOOLEAN /\ pose_age \in Nat /\ still \in BOOLEAN /\ motion_age \in Nat
  /\ sequence \in 0..MaxFrames /\ misses \subseteq 1..sequence
  /\ age \in [1..MaxFrames -> Nat]
  /\ begun \in 0..sequence /\ read \in begun..sequence /\ count \in Nat
  /\ proof \in 0..sequence /\ lost_for \in 0..(Period + 1) /\ steady \in Nat

\* The tracker counts the last frames the goal has read, and only those.
CountIsRun ==
  /\ proof = 0 => count <= read - begun
  /\ proof = 0 => \A n \in (read - count + 1)..read : n \notin misses
  /\ goal # "none" => proof = 0

\* A dwell that goes on has seen no loss it has not noticed at a poll.
DwellIsSteady ==
  /\ Fence => lost_for = 0
  /\ goal # "none" /\ dwell # NoDwell =>
       lost_for <= since_poll /\ dwell <= steady /\ dwell <= request.dwell + 1

\* At every poll the goal had time left.
PolledInTime == goal # "none" => elapsed < request.timeout + since_poll

IInv == TypeOK /\ PolledInTime /\ CountIsRun /\ DwellIsSteady /\ ProofIsConsecutive
=============================================================================
