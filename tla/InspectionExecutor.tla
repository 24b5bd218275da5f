------------------------- MODULE InspectionExecutor -------------------------
(***************************************************************************)
(* car_inspection/inspection_executor.py with inspection_schema.py,        *)
(* image_capture.py, evidence_store.py and vlm_client.py: the action that  *)
(* captures images of a target, matches them with the detector's output    *)
(* and publishes a verdict.                                                *)
(*                                                                         *)
(* rclpy.spin has one thread: between two sleeps of the polling loops the  *)
(* coroutine is awake and nothing else runs, the request to the VLM        *)
(* included.  A frame is named by its stamp, the number of the shot; the   *)
(* images come in this order, some of them get lost, and so do the         *)
(* detector's reports, one for a frame, on a topic of their own.           *)
(***************************************************************************)
EXTENDS Integers, FiniteSets

CONSTANTS
  Requests,      \* the goals that _goal_callback admits
  Payloads,      \* what the detector may report of a frame
  AllowAbsent,   \* inspection_allow_local_absent
  Endpoint,      \* whether inspection_vlm_endpoint is configured
  Settle, CaptureTimeout, Window,  \* capture_settle_, capture_timeout_, detection_wait_sec
  MaxAge,        \* inspection_detection_max_age_sec
  Period,        \* longest time between two polls
  ImageCache, DetectionCache,      \* lengths of the two deques
  MaxShots       \* bound on the frames the camera takes

Models == {"", "door", "fire"}

\* A detection of the target: the model it names, if any, and its confidence.
Hit == [model: Models, confidence: Nat]

\* tagged: some detection, of whatever label, names its model.
Payload == [error: BOOLEAN, listed: BOOLEAN, active: SUBSET (Models \ {""}),
                  model: Models, tagged: BOOLEAN, hits: SUBSET Hit]

NoPayload == [error |-> FALSE, listed |-> FALSE, active |-> {}, model |-> "",
              tagged |-> FALSE, hits |-> {}]

Request == [capture_count: 1..5, local_model: Models, threshold: Nat,
            use_vlm_fallback: BOOLEAN]

ASSUME InputAssumption ==
  /\ Requests \subseteq Request /\ NoPayload \notin Payloads
  /\ \A p \in Payloads : p \in Payload /\ (p.tagged \/ \A h \in p.hits : h.model = "")
ASSUME SwitchAssumption == AllowAbsent \in BOOLEAN /\ Endpoint \in BOOLEAN
ASSUME TimeAssumption ==
  /\ Settle \in Nat /\ CaptureTimeout \in Nat /\ Window \in Nat /\ MaxAge \in Nat
  /\ Period \in Nat \ {0}
ASSUME CacheAssumption ==
  ImageCache \in Nat \ {0} /\ DetectionCache \in Nat \ {0} /\ MaxShots \in Nat

VARIABLES
  camera,      \* cv2 and cv_bridge could be loaded
  shot,        \* number of frames the camera has taken
  received,    \* the frames that have reached _on_image
  sequence,    \* the last of them
  report,      \* what _on_detection has received of each frame
  report_age,
  detected,    \* the last frame reported on
  goal,        \* the goal handle: none, running, canceling
  request,
  pc,          \* the loop or step of _run: idle, settle, capture, window, review, store
  awake,       \* the coroutine has the thread
  time,        \* since the loop began
  since_poll,
  read,        \* `sequence` of _capture_frames
  captures,    \* the frames captured and stored
  local,       \* status of the local observation
  decision,
  published,   \* the InspectionResult of the goal
  outcome,     \* how the goal ended
  begun,       \* history: the last frame received when the goal began
  elapsed      \* history: time since then

input_vars == <<camera, shot, received, sequence, report, report_age, detected>>
clock_vars == <<time, since_poll, elapsed>>
judgement  == <<local, decision>>
ending     == <<published, outcome>>
vars == <<input_vars, goal, request, pc, awake, clock_vars, read, captures,
          judgement, ending, begun>>

NoRequest == [capture_count |-> 1, local_model |-> "", threshold |-> 0,
              use_vlm_fallback |-> FALSE]

Decision == [conclusion: {"PRESENT", "ABSENT", "ABNORMAL", "UNKNOWN", "NEEDS_HUMAN_REVIEW"},
             review: BOOLEAN, source: {"local_model", "vlm", "none"}]
Decide(c, r, s) == [conclusion |-> c, review |-> r, source |-> s]
Unknown == Decide("UNKNOWN", TRUE, "none")

\* EvidenceStore.store_bytes: the content goes to <name>.<suffix>, then a sidecar
\* with its digest to <name>.json.  What is in each file afterwards.
store_bytes(suffix) ==
  [file \in {suffix, "json"} |-> IF file = "json" THEN "sidecar" ELSE "content"]

\* A result as published: the verdict, its images, which of the files beside them
\* were stored ("detection", "review", "result"), and what is in the file whose path
\* store_bytes returned for the last.
Result(d, images, files) ==
  [decision |-> d, evidence |-> images, files |-> files,
   record |-> IF "result" \in files THEN store_bytes("json")["json"] ELSE "none"]
NoResult == Result(Unknown, {}, {})

Older(t, limit) == IF t <= limit THEN t + 1 ELSE t

-----------------------------------------------------------------------------
(* inspection_schema.py: what a report says, and how it is fused.           *)

\* local_observation_from_payload: reports that say nothing of the target.
Unavailable(p, r) ==
  \/ p = NoPayload \/ p.error \/ ~p.listed
  \/ r.local_model # "" /\ p.active # {} /\ r.local_model \notin p.active
  \/ r.local_model # "" /\ p.active = {} /\ ~p.tagged /\ p.model # r.local_model

\* The detections that count for the model asked for; `best` begins at zero.
Counted(p, r) ==
  {h \in p.hits : r.local_model = "" \/ ~p.tagged \/ h.model = r.local_model}
Confidences(p, r) == {0} \cup {h.confidence : h \in Counted(p, r)}

LocalStatus(p, r) ==
  CASE Unavailable(p, r) -> "UNAVAILABLE"
    [] ~Unavailable(p, r) /\ \E c \in Confidences(p, r) : c >= r.threshold -> "PRESENT"
    [] OTHER -> IF AllowAbsent THEN "ABSENT" ELSE "NEGATIVE_UNVERIFIED"

\* parse_vlm_review: what the VLM may answer; anything else is no review.
VlmReview == [needs_human_review: BOOLEAN, present: BOOLEAN,
              condition: {"normal", "abnormal", "unknown"}]
NoReview == [needs_human_review |-> TRUE, present |-> FALSE, condition |-> "none"]

Accept(v) ==
  CASE v.needs_human_review -> Decide("NEEDS_HUMAN_REVIEW", TRUE, "vlm")
    [] ~v.needs_human_review /\ v.condition = "abnormal" -> Decide("ABNORMAL", TRUE, "vlm")
    [] ~v.needs_human_review /\ v.condition = "unknown" -> Decide("UNKNOWN", TRUE, "vlm")
    [] OTHER -> Decide(IF v.present THEN "PRESENT" ELSE "ABSENT", FALSE, "vlm")

fuse_observations(status, v) ==
  IF status \in {"PRESENT", "ABSENT"} THEN Decide(status, FALSE, "local_model")
  ELSE IF v = NoReview THEN Unknown ELSE Accept(v)

-----------------------------------------------------------------------------
(* Inputs.                                                                 *)

Init ==
  /\ camera \in BOOLEAN /\ shot = 0 /\ received = {} /\ sequence = 0
  /\ report = [s \in 1..MaxShots |-> NoPayload]
  /\ report_age = [s \in 1..MaxShots |-> 0] /\ detected = 0
  /\ goal = "none" /\ request = NoRequest /\ pc = "idle" /\ awake = FALSE
  /\ time = 0 /\ since_poll = 0 /\ elapsed = 0
  /\ read = 0 /\ captures = {} /\ local = "UNAVAILABLE" /\ decision = Unknown
  /\ published = NoResult /\ outcome = "NONE" /\ begun = 0

goal_state == <<goal, request, pc, awake, clock_vars, read, captures, judgement,
                ending, begun>>

shoot ==
  /\ ~awake /\ shot < MaxShots /\ shot' = shot + 1
  /\ UNCHANGED <<camera, received, sequence, report, report_age, detected, goal_state>>

on_image(s) ==
  /\ ~awake /\ camera /\ s \in (sequence + 1)..shot
  /\ received' = received \cup {s} /\ sequence' = s
  /\ UNCHANGED <<camera, shot, report, report_age, detected, goal_state>>

on_detection(s, p) ==
  /\ ~awake /\ s \in (detected + 1)..shot
  /\ report' = [report EXCEPT ![s] = p] /\ report_age' = [report_age EXCEPT ![s] = 0]
  /\ detected' = s
  /\ UNCHANGED <<camera, shot, received, sequence, goal_state>>

Tick ==
  /\ ~awake /\ (goal # "none" => since_poll < Period)
  /\ report_age' = [s \in 1..MaxShots |->
                      IF report[s] = NoPayload THEN 0 ELSE Older(report_age[s], MaxAge)]
  /\ IF goal = "none" THEN UNCHANGED clock_vars
     ELSE time' = time + 1 /\ since_poll' = since_poll + 1 /\ elapsed' = elapsed + 1
  /\ UNCHANGED <<camera, shot, received, sequence, report, detected, goal, request,
                 pc, awake, read, captures, judgement, ending, begun>>

-----------------------------------------------------------------------------
(* The goal.                                                               *)

\* ImageBuffer.after: the frames the deque still holds.
Buffered == {s \in received : Cardinality({t \in received : t > s}) < ImageCache}
Fresh == {s \in Buffered : s > read}

\* Mutant: images from before the goal are taken too.
StartAtFirstFrame == 0

StartSequence == sequence

execute(r) ==
  /\ ~awake /\ goal = "none"
  /\ goal' = "running" /\ request' = r /\ pc' = "settle" /\ awake' = TRUE
  /\ time' = 0 /\ since_poll' = 0 /\ elapsed' = 0
  /\ read' = StartSequence /\ begun' = sequence /\ captures' = {}
  /\ published' = NoResult /\ outcome' = "NONE"
  /\ UNCHANGED <<input_vars, judgement>>

cancel ==
  /\ ~awake /\ goal = "running" /\ goal' = "canceling"
  /\ UNCHANGED <<input_vars, request, pc, awake, clock_vars, read, captures,
                 judgement, ending, begun>>

\* The timer of _wait_period wakes the coroutine.
Wake ==
  /\ goal # "none" /\ ~awake /\ since_poll > 0 /\ awake' = TRUE
  /\ UNCHANGED <<input_vars, goal, request, pc, clock_vars, read, captures,
                 judgement, ending, begun>>

Sleep == awake' = FALSE /\ since_poll' = 0
Enter(loop) == pc' = loop /\ time' = 0

End(how) == goal' = "none" /\ pc' = "idle" /\ awake' = FALSE /\ outcome' = how
Complete(d, images, files) ==
  End("SUCCEEDED") /\ published' = Result(d, images, files)
\* The result of a cancelled goal, and of one whose coroutine raised, is not published.
EndSilently(how) == End(how) /\ UNCHANGED published

At(loop) == awake /\ pc = loop
Cancelled == goal = "canceling"

run_vars == <<input_vars, request, clock_vars, read, captures, judgement, begun>>

NoCamera ==
  /\ At("settle") /\ ~camera /\ Complete(Unknown, {}, {}) /\ UNCHANGED run_vars

SettleCancelled ==
  /\ At("settle") /\ camera /\ time < Settle /\ Cancelled
  /\ EndSilently("CANCELED") /\ UNCHANGED run_vars

SettleWait ==
  /\ At("settle") /\ camera /\ time < Settle /\ ~Cancelled /\ Sleep
  /\ UNCHANGED <<input_vars, goal, request, pc, time, elapsed, read, captures,
                 judgement, ending, begun>>

SettleOver ==
  /\ At("settle") /\ camera /\ time >= Settle /\ Enter("capture")
  /\ UNCHANGED <<input_vars, goal, request, awake, since_poll, elapsed, read,
                 captures, judgement, ending, begun>>

\* Mutant: the deadline is set anew by what has been captured.
LateDeadline == time < CaptureTimeout \/ captures # {}

CaptureInTime == time < CaptureTimeout

Missing == request.capture_count - Cardinality(captures)
Capturing == At("capture") /\ Missing > 0 /\ CaptureInTime

CaptureCancelled ==
  /\ Capturing /\ Cancelled /\ EndSilently("CANCELED") /\ UNCHANGED run_vars

\* Any of the new frames may fail to be encoded or stored; as many of the others
\* as are missing are taken.
CaptureFrames ==
  /\ Capturing /\ ~Cancelled
  /\ \E taken \in SUBSET Fresh :
       Cardinality(taken) <= Missing /\ captures' = captures \cup taken
  /\ read' = sequence
  /\ IF Cardinality(captures') < request.capture_count
     THEN Sleep ELSE UNCHANGED <<awake, since_poll>>
  /\ UNCHANGED <<input_vars, goal, request, pc, time, elapsed, judgement, ending, begun>>

\* A full disk raises an OSError, which nothing catches: rclpy aborts the goal.
CaptureRaises ==
  /\ Capturing /\ ~Cancelled /\ Fresh # {}
  /\ EndSilently("ABORTED") /\ UNCHANGED run_vars

CaptureTimedOut ==
  /\ At("capture") /\ ~Capturing /\ captures = {}
  /\ Complete(Unknown, {}, {}) /\ UNCHANGED run_vars

CaptureOver ==
  /\ At("capture") /\ ~Capturing /\ captures # {} /\ Enter("window")
  /\ UNCHANGED <<input_vars, goal, request, awake, since_poll, elapsed, read,
                 captures, judgement, ending, begun>>

WindowWait ==
  /\ At("window") /\ time < Window /\ ~Cancelled /\ Sleep
  /\ UNCHANGED <<input_vars, goal, request, pc, time, elapsed, read, captures,
                 judgement, ending, begun>>

CancelSeen == Cancelled

WindowOver == At("window") /\ (time >= Window \/ Cancelled)

WindowCancelled ==
  /\ WindowOver /\ CancelSeen /\ EndSilently("CANCELED") /\ UNCHANGED run_vars

-----------------------------------------------------------------------------
(* The verdict.                                                            *)

\* _detections: the reports the deque still holds.
Cached == {s \in 1..MaxShots : report[s] # NoPayload
             /\ Cardinality({t \in 1..MaxShots : t > s /\ report[t] # NoPayload}) < DetectionCache}

\* Mutant: the report of another frame does as well.
MostRecent(s) ==
  IF \E t \in Cached : report_age[t] <= MaxAge
  THEN report[CHOOSE t \in Cached : report_age[t] <= MaxAge] ELSE NoPayload

\* _detection_for_stamp
DetectionFor(s) ==
  IF s \in Cached /\ report_age[s] <= MaxAge THEN report[s] ELSE NoPayload

Statuses == {LocalStatus(DetectionFor(s), request) : s \in captures}

\* _local_observation: the strongest status of the captured frames.
LocalObservation ==
  CASE "PRESENT" \in Statuses -> "PRESENT"
    [] "PRESENT" \notin Statuses /\ "ABSENT" \in Statuses -> "ABSENT"
    [] OTHER -> IF "UNAVAILABLE" \in Statuses THEN "UNAVAILABLE" ELSE "NEGATIVE_UNVERIFIED"

Asked(status) == request.use_vlm_fallback /\ status # "PRESENT"

\* The VLM is asked for a second opinion, or the local one stands.
Judge ==
  /\ WindowOver /\ ~CancelSeen
  /\ local' = LocalObservation
  /\ IF Asked(local')
     THEN pc' = "review" /\ UNCHANGED decision
     ELSE pc' = "store" /\ decision' = fuse_observations(local', NoReview)
  /\ UNCHANGED <<input_vars, goal, request, awake, clock_vars, read, captures,
                 ending, begun>>

\* VlmClient.review: a valid answer, or none.  It blocks the thread for a time that
\* is not counted: ages and times stay those of the judgement.
Review(v) ==
  /\ At("review") /\ (Endpoint \/ v = NoReview)
  /\ decision' = fuse_observations(local, v) /\ pc' = "store"
  /\ UNCHANGED <<input_vars, goal, request, awake, clock_vars, read, captures,
                 local, ending, begun>>

\* An HTTP exception that is no OSError is not caught.
ReviewRaises ==
  /\ At("review") /\ Endpoint /\ EndSilently("ABORTED") /\ UNCHANGED run_vars

\* The reports, and the VLM's answer.  A file the store refuses (EvidenceStoreError)
\* is named in the details of the result; the verdict stands.
SideFiles == {"detection"} \cup IF Endpoint /\ Asked(local) THEN {"review"} ELSE {}

PersistResult ==
  /\ At("store")
  /\ \E kept \in SUBSET SideFiles : Complete(decision, captures, kept \cup {"result"})
  /\ UNCHANGED run_vars

\* Mutant: the verdict stands although its record is missing.
KeepVerdict == decision

Unpersisted == Unknown

\* EvidenceStoreError for the result: the directory has left the evidence root, by
\* a link.
PersistRefused ==
  /\ At("store")
  /\ \E kept \in SUBSET SideFiles : Complete(Unpersisted, captures, kept)
  /\ UNCHANGED run_vars

PersistRaises ==
  /\ At("store") /\ EndSilently("ABORTED") /\ UNCHANGED run_vars

Step ==
  \/ NoCamera \/ SettleCancelled \/ SettleWait \/ SettleOver
  \/ CaptureCancelled \/ CaptureFrames \/ CaptureRaises \/ CaptureTimedOut \/ CaptureOver
  \/ WindowWait \/ WindowCancelled
  \/ Judge \/ (\E v \in VlmReview \cup {NoReview} : Review(v)) \/ ReviewRaises
  \/ PersistResult \/ PersistRefused \/ PersistRaises

Next ==
  \/ shoot \/ (\E s \in 1..MaxShots : on_image(s))
  \/ (\E s \in 1..MaxShots, p \in Payloads : on_detection(s, p))
  \/ (\E r \in Requests : execute(r)) \/ cancel \/ Wake \/ Step \/ Tick

Spec == Init /\ [][Next]_vars

-----------------------------------------------------------------------------
(* Properties.                                                             *)

\* The images a verdict is judged and published with are frames received since
\* its own goal began, and no more of them than asked for, whatever the deque
\* still holds of an earlier checkpoint.
EvidenceIsOwn ==
  /\ captures \subseteq {s \in received : s > begun}
  /\ Cardinality(captures) <= request.capture_count
  /\ published.evidence \subseteq captures

\* The target is seen in a report by the model that was asked for.
Shows(p) ==
  /\ ~p.error /\ p.listed
  /\ \E h \in p.hits :
       /\ h.confidence >= request.threshold
       /\ \/ request.local_model \in {"", h.model}
          \/ ~p.tagged /\ request.local_model \in p.active \cup {p.model}

\* What a threshold of zero amounts to: it is passed by any report that is about
\* that model's targets, with or without this one; see PresentIsSeen.
Passes(p) == Shows(p) \/ (request.threshold = 0 /\ ~Unavailable(p, request))

\* The detector, not some other frame, supports what is published on its word:
\* for PRESENT a report of a published image that passes the threshold, for ABSENT
\* (only where that is enabled) one that does not, none of them older than the
\* limit when they were judged.
Rests(conclusion, images) ==
  \E s \in images :
    /\ report[s] # NoPayload /\ report_age[s] <= MaxAge
    /\ \/ conclusion = "PRESENT" /\ Passes(report[s])
       \/ conclusion = "ABSENT" /\ AllowAbsent /\ ~Passes(report[s])

VerdictRests ==
  [][published' # published /\ published'.decision.source = "local_model"
       => Rests(published'.decision.conclusion, published'.evidence)]_vars

\* A verdict that nobody has to review has images, its record was written, and a
\* model has said PRESENT or ABSENT; every degradation asks for a review.  (What
\* is left of the record: RecordIsKept.)
TrustedIsStored ==
  ~published.decision.review =>
    /\ "result" \in published.files /\ published.evidence # {}
    /\ published.decision.conclusion \in {"PRESENT", "ABSENT"}
    /\ published.decision.source = "vlm" => request.use_vlm_fallback /\ Endpoint

\* After a cancel has been accepted no verdict is published any more, at most
\* that no image was captured in time.
CancelNeverDecides ==
  [][goal = "canceling" /\ goal' = "none"
       => outcome' # "SUCCEEDED" \/ published'.decision = Unknown]_vars

\* The VLM's own time apart, a goal is answered within the times of its three
\* loops and a poll period for each, whatever becomes of images and reports.
AnsweredInTime ==
  goal # "none" => elapsed < Settle + CaptureTimeout + Window + 3 * Period

\* What the mission manager relies on, see GoalServer: within that time, the
\* VLM's own apart, one answer, as cancelled only when asked to.
Server == INSTANCE GoalServer WITH
  Answers <- {"SUCCEEDED", "CANCELED", "ABORTED"},
  Canceled <- "CANCELED",
  phase <- goal,
  left <- IF goal = "none" THEN 0
          ELSE (Settle + CaptureTimeout + Window + 3 * Period) - elapsed,
  answer <- outcome

ServesGoals == Server!Spec

-----------------------------------------------------------------------------
(* What the documents say, and the code does not do.                       *)

\* A target that the detector has reported on one of the published images is
\* not concluded absent.
AbsentIsHonest ==
  published.decision = Decide("ABSENT", FALSE, "local_model")
    => \A s \in published.evidence : ~Shows(report[s])

\* A target that is concluded present is in a report on a published image, at the
\* confidence asked for.
PresentIsSeen ==
  published.decision = Decide("PRESENT", FALSE, "local_model")
    => \E s \in published.evidence : Shows(report[s])

\* The result's JSON stays on disk, its digest beside it.
RecordIsKept == "result" \in published.files => published.record = "content"

\* So do the detector's reports and the VLM's answer that a verdict rests on.
EvidenceIsKept ==
  ~published.decision.review =>
    /\ "detection" \in published.files
    /\ published.decision.source = "vlm" => "review" \in published.files

\* An accepted cancel ends the goal as cancelled.
CancelIsAnswered ==
  [][goal = "canceling" /\ goal' = "none" => outcome' # "SUCCEEDED"]_vars
-----------------------------------------------------------------------------
(* The inductive invariant of the proofs.                                  *)

\* Every variable keeps to its range.
InputsOK ==
  /\ camera \in BOOLEAN /\ shot \in 0..MaxShots /\ sequence \in 0..shot
  /\ received \subseteq 1..sequence /\ detected \in 0..shot
  /\ report \in [1..MaxShots -> Payloads \cup {NoPayload}]
  /\ report_age \in [1..MaxShots -> Nat]
GoalOK ==
  /\ goal \in {"none", "running", "canceling"} /\ request \in Requests \cup {NoRequest}
  /\ pc \in {"idle", "settle", "capture", "window", "review", "store"}
  /\ awake \in BOOLEAN /\ time \in Nat /\ since_poll \in 0..Period /\ elapsed \in Nat
  /\ begun \in 0..sequence /\ read \in begun..sequence /\ captures \subseteq received
VerdictOK ==
  /\ local \in {"PRESENT", "ABSENT", "NEGATIVE_UNVERIFIED", "UNAVAILABLE"}
  /\ decision \in Decision /\ published.decision \in Decision
  /\ outcome \in {"NONE", "SUCCEEDED", "CANCELED", "ABORTED"}
TypeOK == InputsOK /\ GoalOK /\ VerdictOK

\* Where the coroutine is, and that it sleeps in its loops only.
PlaceAgrees ==
  /\ goal = "none" <=> pc = "idle"
  /\ awake => pc # "idle"
  /\ pc \in {"window", "review", "store"} => captures # {}
  /\ pc \in {"review", "store"} => awake /\ goal = "running"

\* A loop whose time is over is left at its next poll, and the times add up.
Limit(loop) == CASE loop = "settle" -> Settle [] loop = "capture" -> CaptureTimeout
                 [] OTHER -> Window
Before(loop) == CASE loop = "settle" -> 0 [] loop = "capture" -> Settle + Period
                  [] OTHER -> Settle + CaptureTimeout + 2 * Period
TimesAddUp ==
  goal # "none" =>
    /\ time < Limit(pc) + Period /\ elapsed <= time + Before(pc)
    /\ ~awake => time < Limit(pc) + since_poll

\* A verdict that is about to be published is one that may be.
VerdictHolds ==
  /\ pc = "review" => request.use_vlm_fallback
  /\ pc = "review" /\ local \in {"PRESENT", "ABSENT"} => Rests(local, captures)
  /\ pc = "store" /\ decision.source = "local_model" => Rests(decision.conclusion, captures)
  /\ pc = "store" /\ ~decision.review =>
       /\ decision.conclusion \in {"PRESENT", "ABSENT"}
       /\ decision.source = "vlm" => request.use_vlm_fallback /\ Endpoint

\* A goal that is under way is one of the admitted ones.
RequestAdmitted == goal # "none" => request \in Requests

IInv == TypeOK /\ RequestAdmitted /\ PlaceAgrees /\ TimesAddUp /\ EvidenceIsOwn

\* With it goes what is about to be published, and what has been.
VerdictInv == IInv /\ VerdictHolds /\ TrustedIsStored
=============================================================================
