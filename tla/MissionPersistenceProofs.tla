---------------------- MODULE MissionPersistenceProofs ----------------------
(***************************************************************************)
(* IInv of MissionPersistence is inductive, for every route, any number of *)
(* missions, callbacks and failing transactions; its safety properties     *)
(* follow.                                                                 *)
(***************************************************************************)
EXTENDS MissionPersistence, TLAPS

Threads == {"patrol", "callback"}

USE RouteAssumption, BoundAssumption, InputAssumption

\* The records a call is made of have the type of a call.
LEMMA CallTypes ==
  ASSUME TypeOK, NEW m \in 0..count, NEW s \in MissionState, NEW k \in Codes,
         NEW t \in {"checkin", "failed", "inspection"}
  PROVE  /\ Idle \in CallType
         /\ Transition(m, s, k) \in CallType
         /\ Record(m, k) \in CallType
         /\ Sync(m) \in CallType
         /\ Insert(m, t) \in CallType
<1>0. 0 \in 0..count
  BY DEF TypeOK
<1>1. Idle \in CallType
  BY <1>0 DEF Idle, CallType, Phases, Targets, Codes
<1>2. Transition(m, s, k) \in CallType
  BY <1>1 DEF Transition, CallType, Phases, Targets
<1>3. Record(m, k) \in CallType
  BY <1>1 DEF Record, CallType, Phases, Targets
<1>4. Sync(m) \in CallType
  BY <1>1 DEF Sync, CallType, Phases
<1>5. Insert(m, t) \in CallType
  BY <1>1 DEF Insert, CallType, Phases, Targets
<1> QED BY <1>1, <1>2, <1>3, <1>4, <1>5

\* The states a mission is moved to, and the codes, are of their types.
LEMMA States ==
  /\ {"IDLE", "PREPARING", "LOCALIZING", "PAUSED", "PAUSING", "NAVIGATING",
      "ARRIVAL_CONFIRMING", "RECOVERING", "BLOCKED", "CHECKING_IN",
      "CAPTURING", "INSPECTING", "RECORDING", "ESTOPPED",
      "WAITING_OPERATOR"} \subseteq MissionState \ TERMINAL_STATES
  /\ TERMINAL_STATES \subseteq MissionState
  /\ Accounting \subseteq Codes
  /\ "NOTE" \in Codes \ Accounting
  /\ "PROCESS_RESTART_RECOVERY" \in Codes
  BY DEF MissionState, ActiveStates, TERMINAL_STATES, Accounting, Codes

LEMMA Closings ==
  /\ Closing \in [TERMINAL_STATES -> Codes]
  /\ \A o \in TERMINAL_STATES : Closing[o] \notin Accounting \cup {"NOTE"}
  BY DEF Closing, TERMINAL_STATES, Codes, Accounting

-----------------------------------------------------------------------------
(* Types.                                                                  *)

\* The updates of a record that keep its type.
LEMMA RuntimeUpdates ==
  ASSUME NEW r \in RuntimeType
  PROVE  /\ \A s \in MissionState : [r EXCEPT !.state = s] \in RuntimeType
         /\ \A i \in Index : [r EXCEPT !.index = i] \in RuntimeType
  BY DEF RuntimeType

LEMMA RecordUpdates ==
  ASSUME NEW r \in RecordsType
  PROVE  /\ \A w \in Row \cup {NoRow} : [r EXCEPT !.row = w] \in RecordsType
         /\ \A x \in Events : [r EXCEPT !.events = @ \cup {x}] \in RecordsType
         /\ \A i \in Index : [r EXCEPT !.checkins = @ \cup {i}] \in RecordsType
         /\ \A i \in Index, k \in Nat :
              [r EXCEPT !.inspections = @ \cup {<<i, k>>}] \in RecordsType
  BY DEF RecordsType

LEMMA ClientUpdates ==
  ASSUME NEW r \in ClientType
  PROVE  /\ \A o \in TERMINAL_STATES \cup {"nothing", "ABORTED"} :
              [r EXCEPT !.told = o] \in ClientType
         /\ \A x \in SUBSET Events : [r EXCEPT !.report = x] \in ClientType
  BY DEF ClientType

LEMMA PatrolUpdates ==
  ASSUME NEW r \in PatrolType, NEW p \in Places
  PROVE  /\ [r EXCEPT !.place = p] \in PatrolType
         /\ \A e \in BOOLEAN : [r EXCEPT !.place = p, !.handling = e] \in PatrolType
         /\ \A e \in BOOLEAN : [r EXCEPT !.place = p, !.excused = e] \in PatrolType
         /\ \A e \in BOOLEAN, d \in Nat :
              [r EXCEPT !.place = p, !.excused = e, !.done = d] \in PatrolType
         /\ \A d \in Nat : [r EXCEPT !.place = p, !.done = d] \in PatrolType
         /\ \A o \in TERMINAL_STATES :
              [r EXCEPT !.place = p, !.outcome = o] \in PatrolType
  BY DEF PatrolType

LEMMA CallUpdates ==
  ASSUME NEW c \in CallType
  PROVE  /\ [c EXCEPT !.phase = "snap"] \in CallType
         /\ [c EXCEPT !.phase = "snap", !.target = "NONE", !.locked = TRUE] \in CallType
         /\ \A w \in Row \cup {NoRow} :
              [c EXCEPT !.phase = "write", !.row = w] \in CallType
         /\ [c EXCEPT !.phase = "append", !.row = NoRow] \in CallType
  BY DEF CallType, Phases, Targets

LEMMA TypesStay == count' = count => PatrolType' = PatrolType /\ CallType' = CallType
  BY DEF PatrolType, CallType

LEMMA TypeCall ==
  ASSUME TypeOK, NEW p \in Places, NEW c \in CallType, Call(p, c)
  PROVE  TypeOK'
<1>1. patrol' \in PatrolType
  BY PatrolUpdates DEF TypeOK, Call
<1>2. calls' \in [{"patrol", "callback"} -> CallType]
  BY DEF TypeOK, Call
<1> QED BY <1>1, <1>2, TypesStay DEF TypeOK, Call

LEMMA TypeEnter ==
  ASSUME TypeOK, NEW p \in Places, Enter(p)
  PROVE  TypeOK'
<1>1. patrol' \in PatrolType
  BY PatrolUpdates DEF TypeOK, Enter
<1> QED BY <1>1, TypesStay DEF TypeOK, Enter

LEMMA TypeFinalize ==
  ASSUME TypeOK, NEW o \in TERMINAL_STATES, Finalize(o)
  PROVE  TypeOK'
<1>1. Closing[o] \in Codes /\ o \in MissionState
  BY Closings, States
<1>2. me \in 0..count
  BY DEF TypeOK, me, PatrolType
<1>3. Transition(me, o, Closing[o]) \in CallType
  BY <1>1, <1>2, CallTypes
<1>4. calls' \in [{"patrol", "callback"} -> CallType]
  BY <1>3 DEF TypeOK, Finalize
<1>5. patrol' \in PatrolType
  BY PatrolUpdates DEF TypeOK, Finalize, Places
<1> QED BY <1>4, <1>5, TypesStay DEF TypeOK, Finalize

LEMMA TypeRaise ==
  ASSUME TypeOK, NEW t \in Threads, Raise(t)
  PROVE  patrol' \in PatrolType /\ calls' \in [{"patrol", "callback"} -> CallType]
<1>1. 0 \in 0..count
  BY DEF TypeOK
<1>2. Idle \in CallType
  BY <1>1, CallTypes, States
<1>3. calls' \in [{"patrol", "callback"} -> CallType]
  BY <1>2 DEF TypeOK, Raise, Return, Threads
<1>4. patrol' \in PatrolType
  <2>1. {"escaped", "except"} \subseteq Places /\ patrol \in PatrolType
    BY DEF Places, TypeOK
  <2>2. \A p \in {"escaped", "except"} :
          [patrol EXCEPT !.place = p, !.handling = TRUE] \in PatrolType
    BY <2>1, PatrolUpdates
  <2>3. CASE patrol' = patrol
    BY <2>1, <2>3, TypesStay
  <2>4. CASE patrol' # patrol
    <3>1. CASE patrol.handling
      BY <2>2, <2>4, <3>1 DEF Raise
    <3>2. CASE ~patrol.handling
      BY <2>2, <2>4, <3>2 DEF Raise
    <3> QED BY <3>1, <3>2
  <2> QED BY <2>3, <2>4
<1> QED BY <1>3, <1>4

\* The thread steps.
LEMMA TypeThread ==
  ASSUME TypeOK, NEW t \in Threads, Thread(t),
         calls[t].phase # "idle" => calls[t].mission # 0,
         calls[t].phase = "move" => calls[t].target \in MissionState
  PROVE  TypeOK'
<1> DEFINE m == calls[t].mission
<1> DEFINE c == calls[t]
<1>0. c \in CallType /\ t \in {"patrol", "callback"}
  BY DEF TypeOK, Threads
<1>a. /\ m \in 0..count /\ c.row \in Row \cup {NoRow} /\ c.code \in Codes
      /\ c.phase \in Phases
  BY <1>0 DEF CallType
<1>b. c.phase # "idle" => m \in Missions
  BY <1>a DEF TypeOK, Missions
<1>c. Idle \in CallType
  BY <1>a, CallTypes, States
<1>d. Return(t) => calls' \in [{"patrol", "callback"} -> CallType]
  BY <1>0, <1>c DEF Return, TypeOK
<1>1. CASE Move(t)
  <2>1. m \in Missions /\ mem[m] \in RuntimeType /\ c.target \in MissionState
    BY <1>b, <1>1 DEF Move, TypeOK
  <2>2. mem' \in [Missions -> RuntimeType]
    BY <1>1, <2>1, RuntimeUpdates DEF Move, TypeOK
  <2>3. patrol' \in PatrolType /\ calls' \in [{"patrol", "callback"} -> CallType]
    <3>1. CASE Raise(t)
      BY <3>1, TypeRaise
    <3>2. CASE ~Raise(t)
      <4>1. patrol' \in PatrolType
        BY <3>2, <1>1, TypesStay DEF Move, TypeOK
      <4>2. /\ [c EXCEPT !.phase = "snap"] \in CallType
            /\ [c EXCEPT !.phase = "snap", !.target = "NONE", !.locked = TRUE] \in CallType
        BY <1>0, CallUpdates
      <4>3. calls' \in [{"patrol", "callback"} -> CallType]
        BY <3>2, <4>2, <1>0, <1>1 DEF Move, Goto, TypeOK
      <4> QED BY <4>1, <4>3
    <3> QED BY <3>1, <3>2
  <2> QED BY <1>1, <2>2, <2>3, TypesStay DEF Move, TypeOK
<1>2. CASE Snap(t)
  <2>1. m \in Missions /\ mem[m] \in RuntimeType
    BY <1>b, <1>2 DEF Snap, TypeOK
  <2>2. [state |-> mem[m].state, index |-> mem[m].index] \in Row
    BY <2>1 DEF Row, RuntimeType
  <2>3. calls' \in [{"patrol", "callback"} -> CallType]
    BY <1>0, <1>2, <2>2, CallUpdates DEF Snap, TypeOK
  <2> QED BY <1>2, <2>3, TypesStay DEF Snap, TypeOK
<1>3. CASE Write(t)
  <2>1. m \in Missions /\ db[m] \in RecordsType
    BY <1>b, <1>3 DEF Write, TypeOK
  <2>2. db' \in [Missions -> RecordsType]
    BY <1>a, <1>3, <2>1, RecordUpdates DEF Write, WriteRow, TypeOK
  <2>3. calls' \in [{"patrol", "callback"} -> CallType]
    BY <1>0, <1>3, <1>d, CallUpdates, NoRow \in Row \cup {NoRow} DEF Write, TypeOK
  <2> QED BY <1>3, <2>2, <2>3, TypesStay DEF Write, TypeOK
<1>4. CASE Append(t)
  <2>1. m \in Missions /\ db[m] \in RecordsType /\ mem[m] \in RuntimeType
    BY <1>b, <1>4 DEF Append, TypeOK
  <2>2. <<c.code, mem[m].index>> \in Events
    BY <1>a, <2>1 DEF Events, RuntimeType
  <2>3. db' \in [Missions -> RecordsType]
    BY <1>4, <2>1, <2>2, RecordUpdates DEF Append, TypeOK
  <2> QED BY <1>4, <1>d, <2>3, TypesStay DEF Append, TypeOK
<1>5. CASE StoreResult(t)
  <2>1. m \in Missions /\ db[m] \in RecordsType /\ mem[m] \in RuntimeType
    BY <1>b, <1>5 DEF StoreResult, TypeOK
  <2>2. mem[m].index \in Index /\ patrol.done + 1 \in Nat
    BY <2>1 DEF RuntimeType, TypeOK, PatrolType
  <2>3. db' \in [Missions -> RecordsType]
    <3>1. CASE c.target = "inspection"
      BY <3>1, <1>5, <2>1, <2>2, RecordUpdates DEF StoreResult, TypeOK
    <3>2. CASE c.target = "checkin"
      BY <3>2, <1>5, <2>1, <2>2, RecordUpdates DEF StoreResult, TypeOK
    <3>3. CASE c.target \notin {"inspection", "checkin"}
      <4>1. [db[m] EXCEPT !.checkins = db[m].checkins] = db[m]
        BY <2>1 DEF RecordsType
      <4> QED BY <3>3, <4>1, <1>5, <2>1 DEF StoreResult, TypeOK
    <3> QED BY <3>1, <3>2, <3>3
  <2> QED BY <1>5, <1>d, <2>3, TypesStay DEF StoreResult, TypeOK
<1>6. CASE TransactionFails(t)
  <2>1. m \in Missions /\ db[m] \in RecordsType
    BY <1>b, <1>6 DEF TransactionFails, TypeOK
  <2>2. db' \in [Missions -> RecordsType]
    <3>1. WriteRow(c) \in [Missions -> RecordsType]
      BY <1>a, <2>1, RecordUpdates DEF WriteRow, TypeOK
    <3> QED BY <3>1, <1>6 DEF TransactionFails, TypeOK
  <2>3. disturbed' \in Nat
    BY <1>6 DEF TransactionFails, TypeOK
  <2>4. Raise(t)
    BY <1>6 DEF TransactionFails
  <2> QED BY <1>6, <2>2, <2>3, <2>4, TypeRaise, TypesStay DEF TransactionFails, TypeOK
<1> QED BY <1>1, <1>2, <1>3, <1>4, <1>5, <1>6 DEF Thread

-----------------------------------------------------------------------------
(* The steps of the coroutine that only issue a call or move on, in one    *)
(* form: the place p it goes to and the call c it is in there.             *)

Calm == MissionState \ TERMINAL_STATES

NoteCall(c) ==
  \/ c \in {Idle, Sync(me), Record(me, "NOTE")}
  \/ \E s \in Calm : c = Transition(me, s, "NOTE")

CallAt(p, c) ==
  \/ p \notin {"advance", "stored", "verified"} /\ NoteCall(c)
  \/ p = "verified" /\ c = Insert(me, "checkin")
  \/ p = "unverified" /\ c = Insert(me, "failed")
  \/ p = "stored" /\ c = Insert(me, "inspection")
  \/ p = "advance" /\ \E k \in Accounting : c = Record(me, k)

WorkPlaces == Places \ (Ended \cup {"create"})

Work(p, c) ==
  /\ up /\ patrol.place \in WorkPlaces /\ calls["patrol"].phase = "idle"
  /\ p \in WorkPlaces /\ CallAt(p, c)
  /\ p \in Underway => patrol.place \in Underway \/ my.index < N
  /\ \E e \in BOOLEAN, d \in Nat :
       patrol' = [patrol EXCEPT !.place = p, !.excused = e, !.done = d]
  /\ calls' = [calls EXCEPT !["patrol"] = c]
  /\ UNCHANGED <<up, disturbed, count, mem, db, client>>

LEMMA WorkCall ==
  ASSUME TypeOK, NEW p \in WorkPlaces, NEW c, CallAt(p, c), Call(p, c),
         p \in Underway => patrol.place \in Underway,
         up, patrol.place \in WorkPlaces, calls["patrol"].phase = "idle"
  PROVE  Work(p, c)
<1>1. /\ patrol \in PatrolType /\ patrol.excused \in BOOLEAN /\ patrol.done \in Nat
  BY DEF TypeOK, PatrolType
<1>2. patrol' = [patrol EXCEPT !.place = p, !.excused = patrol.excused, !.done = patrol.done]
  BY <1>1 DEF Call, PatrolType
<1> QED BY <1>1, <1>2 DEF Work, Call

LEMMA WorkEnter ==
  ASSUME TypeOK, PatrolCall, NEW p \in WorkPlaces, Enter(p),
         p \notin {"advance", "stored", "verified"},
         p \in Underway => patrol.place \in Underway,
         up, patrol.place \in WorkPlaces, calls["patrol"].phase = "idle"
  PROVE  Work(p, Idle)
<1>1. calls["patrol"] = Idle
  BY DEF PatrolCall
<1>2. Call(p, Idle)
  BY <1>1 DEF Enter, Call, TypeOK
<1>3. CallAt(p, Idle)
  BY DEF CallAt, NoteCall
<1> QED BY <1>2, <1>3, WorkCall

Working == \E p \in WorkPlaces : \E c : Work(p, c)

Ready == up /\ calls["patrol"].phase = "idle"

\* A step of the coroutine is one of these.
LEMMA CoroutineCases ==
  ASSUME TypeOK, PatrolCall, Coroutine
  PROVE  \/ Working
         \/ CreateMission \/ CreateFails \/ Advance \/ ExportReport \/ Tell \/ Leave
         \/ EndOfRoute
         \/ /\ Ready /\ patrol.place \in WorkPlaces
            /\ Finalize("CANCELLED") \/ Finalize("FAILED")
         \/ ExceptClause
<1>a. \A x : x \in {"localize", "loop", "driving", "arrived", "blocked", "await", "waiting",
         "checkin", "verified", "unverified", "inspect", "capturing", "result",
         "stored", "settle", "recording", "advance", "prepare"} => x \in WorkPlaces
  BY DEF WorkPlaces, Places, Ended
<1>b. \A s \in {"PREPARING", "LOCALIZING", "PAUSED", "PAUSING", "ARRIVAL_CONFIRMING",
      "RECOVERING", "BLOCKED", "CHECKING_IN", "NAVIGATING",
      "CAPTURING", "INSPECTING", "RECORDING", "ESTOPPED", "WAITING_OPERATOR"} :
        s \in Calm
  BY States DEF Calm
<1>c. /\ {"loop", "localize", "await"} \cap Underway = {}
      /\ {"unverified", "settle", "capturing", "recording"} \subseteq Underway
  BY DEF Underway, Evidenced
<1>1. CASE Prepare
  <2>1. Call("localize", Transition(me, "PREPARING", "NOTE")) /\ Ready /\ patrol.place \in WorkPlaces
        /\ ("localize" \in Underway => patrol.place \in Underway)
    BY <1>a, <1>1 DEF Underway, Evidenced, Prepare, At, Ready
  <2>2. CallAt("localize", Transition(me, "PREPARING", "NOTE"))
    BY <1>b, "CHECKPOINT_SKIPPED" \in Accounting DEF CallAt, NoteCall, Accounting
  <2> QED BY <1>a, <2>1, <2>2, WorkCall DEF Ready, Working
<1>2. CASE Localize
  <2>1. Call("loop", Transition(me, "LOCALIZING", "NOTE")) /\ Ready /\ patrol.place \in WorkPlaces
        /\ ("loop" \in Underway => patrol.place \in Underway)
    BY <1>a, <1>2 DEF Underway, Evidenced, Localize, At, Ready
  <2>2. CallAt("loop", Transition(me, "LOCALIZING", "NOTE"))
    BY <1>b, "CHECKPOINT_SKIPPED" \in Accounting DEF CallAt, NoteCall, Accounting
  <2> QED BY <1>a, <2>1, <2>2, WorkCall DEF Ready, Working
<1>3. CASE AwaitResume
  <2>1. Call("waiting", Sync(me)) /\ Ready /\ patrol.place \in WorkPlaces
        /\ ("waiting" \in Underway => patrol.place \in Underway)
    BY <1>a, <1>3 DEF Underway, Evidenced, AwaitResume, At, Ready
  <2>2. CallAt("waiting", Sync(me))
    BY <1>b, "CHECKPOINT_SKIPPED" \in Accounting DEF CallAt, NoteCall, Accounting
  <2> QED BY <1>a, <2>1, <2>2, WorkCall DEF Ready, Working
<1>4. CASE Arrive
  <2>1. Call("arrived", Transition(me, "ARRIVAL_CONFIRMING", "NOTE")) /\ Ready /\ patrol.place \in WorkPlaces
        /\ ("arrived" \in Underway => patrol.place \in Underway)
    BY <1>a, <1>4 DEF Underway, Evidenced, Arrive, At, Ready
  <2>2. CallAt("arrived", Transition(me, "ARRIVAL_CONFIRMING", "NOTE"))
    BY <1>b, "CHECKPOINT_SKIPPED" \in Accounting DEF CallAt, NoteCall, Accounting
  <2> QED BY <1>a, <2>1, <2>2, WorkCall DEF Ready, Working
<1>5. CASE Retry
  <2>1. Call("loop", Transition(me, "RECOVERING", "NOTE")) /\ Ready /\ patrol.place \in WorkPlaces
        /\ ("loop" \in Underway => patrol.place \in Underway)
    BY <1>a, <1>5 DEF Underway, Evidenced, Retry, At, Ready
  <2>2. CallAt("loop", Transition(me, "RECOVERING", "NOTE"))
    BY <1>b, "CHECKPOINT_SKIPPED" \in Accounting DEF CallAt, NoteCall, Accounting
  <2> QED BY <1>a, <2>1, <2>2, WorkCall DEF Ready, Working
<1>6. CASE Blocked
  <2>1. Call("blocked", Transition(me, "BLOCKED", "NOTE")) /\ Ready /\ patrol.place \in WorkPlaces
        /\ ("blocked" \in Underway => patrol.place \in Underway)
    BY <1>a, <1>6 DEF Underway, Evidenced, Blocked, At, Ready
  <2>2. CallAt("blocked", Transition(me, "BLOCKED", "NOTE"))
    BY <1>b, "CHECKPOINT_SKIPPED" \in Accounting DEF CallAt, NoteCall, Accounting
  <2> QED BY <1>a, <2>1, <2>2, WorkCall DEF Ready, Working
<1>7. CASE Skip
  <2>1. Call("advance", Record(me, "CHECKPOINT_SKIPPED")) /\ Ready /\ patrol.place \in WorkPlaces
        /\ ("advance" \in Underway => patrol.place \in Underway)
    BY <1>a, <1>7 DEF Underway, Evidenced, Skip, At, Ready
  <2>2. CallAt("advance", Record(me, "CHECKPOINT_SKIPPED"))
    BY <1>b, "CHECKPOINT_SKIPPED" \in Accounting DEF CallAt, NoteCall, Accounting
  <2> QED BY <1>a, <2>1, <2>2, WorkCall DEF Ready, Working
<1>8. CASE Verify
  <2>1. Call("checkin", Transition(me, "CHECKING_IN", "NOTE")) /\ Ready /\ patrol.place \in WorkPlaces
        /\ ("checkin" \in Underway => patrol.place \in Underway)
    BY <1>a, <1>8 DEF Underway, Evidenced, Verify, At, Ready
  <2>2. CallAt("checkin", Transition(me, "CHECKING_IN", "NOTE"))
    BY <1>b, "CHECKPOINT_SKIPPED" \in Accounting DEF CallAt, NoteCall, Accounting
  <2> QED BY <1>a, <2>1, <2>2, WorkCall DEF Ready, Working
<1>9. CASE CheckedIn
  <2>1. Call("verified", Insert(me, "checkin")) /\ Ready /\ patrol.place \in WorkPlaces
        /\ ("verified" \in Underway => patrol.place \in Underway)
    BY <1>a, <1>9 DEF Underway, Evidenced, CheckedIn, At, Ready
  <2>2. CallAt("verified", Insert(me, "checkin"))
    BY <1>b, "CHECKPOINT_SKIPPED" \in Accounting DEF CallAt, NoteCall, Accounting
  <2> QED BY <1>a, <2>1, <2>2, WorkCall DEF Ready, Working
<1>10. CASE CheckinFails
  <2>1. Call("unverified", Insert(me, "failed")) /\ Ready /\ patrol.place \in WorkPlaces
        /\ ("unverified" \in Underway => patrol.place \in Underway)
    BY <1>a, <1>10 DEF Underway, Evidenced, CheckinFails, At, Ready
  <2>2. CallAt("unverified", Insert(me, "failed"))
    BY <1>b, "CHECKPOINT_SKIPPED" \in Accounting DEF CallAt, NoteCall, Accounting
  <2> QED BY <1>a, <2>1, <2>2, WorkCall DEF Ready, Working
<1>11. CASE CheckinRetry
  <2>1. Call("checkin", Record(me, "NOTE")) /\ Ready /\ patrol.place \in WorkPlaces
        /\ ("checkin" \in Underway => patrol.place \in Underway)
    BY <1>a, <1>11 DEF Underway, Evidenced, CheckinRetry, At, Ready
  <2>2. CallAt("checkin", Record(me, "NOTE"))
    BY <1>b, "CHECKPOINT_SKIPPED" \in Accounting DEF CallAt, NoteCall, Accounting
  <2> QED BY <1>a, <2>1, <2>2, WorkCall DEF Ready, Working
<1>12. CASE Verified
  <2>1. Call("inspect", Record(me, "NOTE")) /\ Ready /\ patrol.place \in WorkPlaces
        /\ ("inspect" \in Underway => patrol.place \in Underway)
    BY <1>a, <1>12 DEF Underway, Evidenced, Verified, At, Ready
  <2>2. CallAt("inspect", Record(me, "NOTE"))
    BY <1>b, "CHECKPOINT_SKIPPED" \in Accounting DEF CallAt, NoteCall, Accounting
  <2> QED BY <1>a, <2>1, <2>2, WorkCall DEF Ready, Working
<1>13. CASE Capture
  <2>1. Call("capturing", Transition(me, "CAPTURING", "NOTE")) /\ Ready /\ patrol.place \in WorkPlaces
        /\ ("capturing" \in Underway => patrol.place \in Underway)
    BY <1>a, <1>13 DEF Underway, Evidenced, Capture, At, Ready
  <2>2. CallAt("capturing", Transition(me, "CAPTURING", "NOTE"))
    BY <1>b, "CHECKPOINT_SKIPPED" \in Accounting DEF CallAt, NoteCall, Accounting
  <2> QED BY <1>a, <2>1, <2>2, WorkCall DEF Ready, Working
<1>14. CASE RecordInspection
  <2>1. Call("stored", Insert(me, "inspection")) /\ Ready /\ patrol.place \in WorkPlaces
        /\ ("stored" \in Underway => patrol.place \in Underway)
    BY <1>a, <1>14 DEF Underway, Evidenced, RecordInspection, At, Ready
  <2>2. CallAt("stored", Insert(me, "inspection"))
    BY <1>b, "CHECKPOINT_SKIPPED" \in Accounting DEF CallAt, NoteCall, Accounting
  <2> QED BY <1>a, <2>1, <2>2, WorkCall DEF Ready, Working
<1>15. CASE ReportInspection
  <2>1. Call("settle", Record(me, "NOTE")) /\ Ready /\ patrol.place \in WorkPlaces
        /\ ("settle" \in Underway => patrol.place \in Underway)
    BY <1>a, <1>15 DEF Underway, Evidenced, ReportInspection, At, Ready
  <2>2. CallAt("settle", Record(me, "NOTE"))
    BY <1>b, "CHECKPOINT_SKIPPED" \in Accounting DEF CallAt, NoteCall, Accounting
  <2> QED BY <1>a, <2>1, <2>2, WorkCall DEF Ready, Working
<1>16. CASE EnterRecording
  <2>1. Call("recording", Transition(me, "RECORDING", "NOTE")) /\ Ready /\ patrol.place \in WorkPlaces
        /\ ("recording" \in Underway => patrol.place \in Underway)
    BY <1>a, <1>16 DEF Underway, Evidenced, EnterRecording, At, Ready
  <2>2. CallAt("recording", Transition(me, "RECORDING", "NOTE"))
    BY <1>b, "CHECKPOINT_SKIPPED" \in Accounting DEF CallAt, NoteCall, Accounting
  <2> QED BY <1>a, <2>1, <2>2, WorkCall DEF Ready, Working
<1>17. CASE Again
  <2>1. Enter("loop") /\ Ready /\ patrol.place \in WorkPlaces
        /\ ("loop" \in Underway => patrol.place \in Underway)
    BY <1>a, <1>17 DEF Underway, Evidenced, Again, At, Ready
  <2> QED BY <1>a, <1>c, <2>1, WorkEnter DEF Ready, Working
<1>18. CASE NotRequired
  <2>1. Enter("inspect") /\ Ready /\ patrol.place \in WorkPlaces
        /\ ("inspect" \in Underway => patrol.place \in Underway)
    BY <1>a, <1>18 DEF Underway, Evidenced, NotRequired, At, Ready
  <2> QED BY <1>a, <1>c, <2>1, WorkEnter DEF Ready, Working
<1>19. CASE Resume
  <2>1. /\ Ready /\ patrol.place \in WorkPlaces
        /\ Enter("loop") \/ Enter("localize")
    BY <1>a, <1>19 DEF Resume, At, Ready
  <2> QED BY <1>a, <1>c, <2>1, WorkEnter DEF Ready, Working
<1>20. CASE \E s \in {"ESTOPPED", "WAITING_OPERATOR"} : Stop(s)
  <2>1. PICK s \in {"ESTOPPED", "WAITING_OPERATOR"} : Stop(s)
    BY <1>20
  <2>2. Call("await", Transition(me, s, "NOTE")) /\ Ready /\ patrol.place \in WorkPlaces
    BY <1>a, <2>1 DEF Stop, At, Ready
  <2>3. CallAt("await", Transition(me, s, "NOTE"))
    BY <1>b DEF CallAt, NoteCall
  <2> QED BY <1>a, <1>c, <2>2, <2>3, WorkCall DEF Ready, Working
<1>21. CASE Pause
  <2>1. /\ Ready /\ patrol.place \in WorkPlaces
        /\ \/ Call("await", Transition(me, "PAUSED", "NOTE"))
           \/ Call("loop", Transition(me, "PAUSING", "NOTE"))
    BY <1>a, <1>21 DEF Pause, At, Ready
  <2>2. /\ CallAt("await", Transition(me, "PAUSED", "NOTE"))
        /\ CallAt("loop", Transition(me, "PAUSING", "NOTE"))
    BY <1>b DEF CallAt, NoteCall
  <2> QED BY <1>a, <1>c, <2>1, <2>2, WorkCall DEF Ready, Working
<1>22. CASE Analyse
  <2>1. /\ Ready /\ patrol.place \in WorkPlaces /\ patrol.place \in Underway
        /\ \/ Call("result", Transition(me, "INSPECTING", "NOTE"))
           \/ Enter("result")
    BY <1>a, <1>c, <1>22 DEF Analyse, At, Ready
  <2>2. CallAt("result", Transition(me, "INSPECTING", "NOTE"))
    BY <1>b DEF CallAt, NoteCall
  <2> QED BY <1>a, <2>1, <2>2, WorkCall, WorkEnter DEF Ready, Working
<1>23. CASE RecordCheckpoint
  <2>1. /\ Ready /\ patrol.place \in WorkPlaces /\ patrol.place \in Underway
        /\ \E k \in Accounting : Call("advance", Record(me, k))
    BY <1>a, <1>c, <1>23 DEF RecordCheckpoint, At, Ready, Accounting
  <2>2. PICK k \in Accounting : Call("advance", Record(me, k))
    BY <2>1
  <2>3. CallAt("advance", Record(me, k))
    BY DEF CallAt
  <2> QED BY <1>a, <2>1, <2>2, <2>3, WorkCall DEF Ready, Working
<1>24. CASE Navigate
  <2>1. /\ Ready /\ patrol.place \in WorkPlaces
        /\ CallAt("driving", Transition(me, "NAVIGATING", "NOTE"))
    BY <1>a, <1>b, <1>24 DEF Navigate, At, Ready, CallAt, NoteCall
  <2>2. Work("driving", Transition(me, "NAVIGATING", "NOTE"))
    BY <1>a, <2>1, <1>24 DEF Work, Navigate, Ready
  <2> QED BY <1>a, <2>2 DEF Working
<1>25. CASE ContinueUnverified
  <2>1. /\ Ready /\ patrol.place \in WorkPlaces /\ patrol.place \in Underway /\ patrol.done \in Nat
        /\ patrol \in PatrolType
    BY <1>a, <1>c, <1>25 DEF ContinueUnverified, At, Ready, TypeOK, PatrolType
  <2>2. CallAt("inspect", Record(me, "NOTE"))
    BY DEF CallAt, NoteCall
  <2>3. patrol' = [patrol EXCEPT !.place = "inspect", !.excused = TRUE, !.done = patrol.done]
    BY <2>1, <1>25 DEF ContinueUnverified, PatrolType
  <2>4. Work("inspect", Record(me, "NOTE"))
    BY <1>a, <2>1, <2>2, <2>3, <1>25 DEF Work, ContinueUnverified, Ready
  <2> QED BY <1>a, <2>4 DEF Working
<1>26. CASE TaskDone
  <2>1. /\ Ready /\ patrol.place \in WorkPlaces /\ patrol.place \in Underway /\ patrol.done + 1 \in Nat
        /\ patrol.excused \in BOOLEAN /\ patrol \in PatrolType
    BY <1>a, <1>c, <1>26 DEF TaskDone, At, Ready, TypeOK, PatrolType
  <2>2. CallAt("inspect", Record(me, "NOTE")) /\ CallAt("inspect", Idle)
    BY DEF CallAt, NoteCall
  <2>3. patrol' = [patrol EXCEPT !.place = "inspect", !.excused = patrol.excused, !.done = patrol.done + 1]
    BY <2>1, <1>26 DEF TaskDone, PatrolType
  <2>4. calls["patrol"] = Idle
    BY <2>1 DEF Ready, PatrolCall
  <2>5. \/ calls' = [calls EXCEPT !["patrol"] = Idle]
        \/ calls' = [calls EXCEPT !["patrol"] = Record(me, "NOTE")]
    BY <2>4, <1>26 DEF TaskDone, TypeOK
  <2>6. Work("inspect", Record(me, "NOTE")) \/ Work("inspect", Idle)
    BY <1>a, <2>1, <2>2, <2>3, <2>5, <1>26 DEF Work, TaskDone, Ready
  <2> QED BY <1>a, <2>6 DEF Working
<1>27. CASE Cancelled
  BY <1>a, <1>27 DEF Cancelled, At, Ready
<1>28. CASE GiveUp
  BY <1>a, <1>28 DEF GiveUp, At, Ready
<1> QED BY <1>1, <1>2, <1>3, <1>4, <1>5, <1>6, <1>7, <1>8, <1>9, <1>10, <1>11, <1>12, <1>13, <1>14, <1>15, <1>16, <1>17, <1>18, <1>19, <1>20, <1>21, <1>22, <1>23, <1>24, <1>25, <1>26, <1>27, <1>28 DEF Coroutine

\* The records a goal begins with.
LEMMA Beginnings ==
  /\ NoRuntime \in RuntimeType
  /\ \A i \in Index : \A l \in BOOLEAN :
       [NoRuntime EXCEPT !.index = i, !.loop = l] \in RuntimeType
  /\ NoRecords \in RecordsType
  /\ NoClient \in ClientType
  /\ \A i, b \in Index : \A cov \in SUBSET Index :
       [NoClient EXCEPT !.first = i, !.base = b, !.covered = cov] \in ClientType
  /\ [NoRow EXCEPT !.state = "IDLE"] \in Row
<1>1. 0 \in Index /\ "IDLE" \in MissionState
  BY States DEF Index
<1>2. NoRuntime \in RuntimeType
  BY <1>1 DEF NoRuntime, RuntimeType
<1>3. \A i \in Index : \A l \in BOOLEAN :
       [NoRuntime EXCEPT !.index = i, !.loop = l] \in RuntimeType
  BY <1>2 DEF RuntimeType
<1>4. NoRecords \in RecordsType
  BY DEF NoRecords, RecordsType
<1>5. NoClient \in ClientType
  BY <1>1 DEF NoClient, ClientType
<1>6. \A i, b \in Index : \A cov \in SUBSET Index :
       [NoClient EXCEPT !.first = i, !.base = b, !.covered = cov] \in ClientType
  BY <1>5 DEF ClientType
<1>7. [NoRow EXCEPT !.state = "IDLE"] \in Row
  BY <1>1 DEF NoRow, Row
<1> QED BY <1>2, <1>3, <1>4, <1>5, <1>6, <1>7

LEMMA PatrolBeginnings ==
  ASSUME NEW n \in Nat
  PROVE  /\ count = n => NoPatrol \in PatrolType
         /\ count' = n => [NoPatrol EXCEPT !.place = "create", !.mission = n] \in PatrolType'
<1>1. 0 \in 0..n /\ n \in 0..n
  OBVIOUS
<1>2. ASSUME count = n PROVE NoPatrol \in PatrolType
  BY <1>1, <1>2 DEF NoPatrol, PatrolType, Places, TERMINAL_STATES
<1>3. ASSUME count' = n
      PROVE  [NoPatrol EXCEPT !.place = "create", !.mission = n] \in PatrolType'
  BY <1>1, <1>3 DEF NoPatrol, PatrolType, Places, TERMINAL_STATES
<1> QED BY <1>2, <1>3

LEMMA TypeWork ==
  ASSUME TypeOK, Working
  PROVE  TypeOK'
<1>0. PICK p \in WorkPlaces : \E c : Work(p, c)
  BY DEF Working
<1>1. PICK c : p \in WorkPlaces /\ Work(p, c)
  BY <1>0
<1>2. p \in Places /\ patrol \in PatrolType /\ me \in 0..count /\ 0 \in 0..count
  BY DEF WorkPlaces, TypeOK, PatrolType, me
<1>3. c \in CallType
  BY <1>1, <1>2, CallTypes, States DEF Work, CallAt, NoteCall, Calm
<1>4. patrol' \in PatrolType
  <2>1. PICK e \in BOOLEAN, d \in Nat :
          patrol' = [patrol EXCEPT !.place = p, !.excused = e, !.done = d]
    BY <1>1 DEF Work
  <2> QED BY <1>2, <2>1, PatrolUpdates
<1>5. calls' \in [{"patrol", "callback"} -> CallType]
  BY <1>1, <1>3 DEF Work, TypeOK
<1> QED BY <1>1, <1>4, <1>5, TypesStay DEF Work, TypeOK

LEMMA TypeStart ==
  ASSUME TypeOK, NEW i \in Index, NEW l \in BOOLEAN, NEW b \in Index,
         NEW cov \in SUBSET Index, Execute(i, l, b, cov)
  PROVE  TypeOK'
<1>1. count \in Nat /\ count + 1 \in Missions /\ count + 1 \in Nat /\ count' = count + 1
      /\ count' \in 0..MaxMissions
  BY DEF Execute, TypeOK, Missions
<1>2. patrol' \in PatrolType'
  BY <1>1, PatrolBeginnings DEF Execute
<1>3. mem' \in [Missions -> RuntimeType]
  BY <1>1, Beginnings DEF Execute, TypeOK
<1>4. client' \in [Missions -> ClientType]
  BY <1>1, Beginnings DEF Execute, TypeOK
<1>5. calls' \in [{"patrol", "callback"} -> CallType']
  <2>1. \A c \in CallType : c \in CallType'
    BY <1>1 DEF CallType
  <2> QED BY <2>1 DEF Execute, TypeOK
<1> QED BY <1>1, <1>2, <1>3, <1>4, <1>5 DEF Execute, TypeOK

\* A goal is started in one of three ways.
Started == \E i \in Index, l \in BOOLEAN, b \in Index, cov \in SUBSET Index :
             Execute(i, l, b, cov)

LEMMA StartedCases ==
  ASSUME TypeOK
  PROVE  /\ \A start \in Starts, loop \in Loops : StartFresh(start, loop) => Started
         /\ \A m \in Missions, loop \in Loops :
              RetryCurrent(m, loop) \/ ContinueNext(m, loop) => Started
<1>1. \A start \in Starts, loop \in Loops : StartFresh(start, loop) => Started
  BY DEF StartFresh, Started, Index
<1>2. ASSUME NEW m \in Missions, NEW loop \in Loops,
             RetryCurrent(m, loop) \/ ContinueNext(m, loop)
      PROVE  Started
  <2>0. loop \in BOOLEAN
    BY InputAssumption
  <2>1. /\ db[m].row.index \in Index /\ client[m].base \in Index
        /\ client[m].covered \in SUBSET Index /\ Accounted(m) \in SUBSET Index
    <3>1. db[m] \in RecordsType /\ client[m] \in ClientType
      BY DEF TypeOK
    <3>2. db[m].row \in Row
      BY <1>2, <3>1 DEF RetryCurrent, ContinueNext, Recoverable, RecordsType
    <3> QED BY <3>1, <3>2 DEF Row, ClientType, Accounted, Index
  <2>2. db[m].row.index < N => db[m].row.index + 1 \in Index
    BY <2>1 DEF Index
  <2>3. CASE RetryCurrent(m, loop)
    <3>1. client[m].covered \cup Accounted(m) \in SUBSET Index
      BY <2>1
    <3> QED BY <2>0, <2>3, <2>1, <3>1 DEF RetryCurrent, Started
  <2>4. CASE ContinueNext(m, loop)
    <3>1. client[m].covered \cup Accounted(m) \cup {db[m].row.index} \in SUBSET Index
      BY <2>1
    <3> QED BY <2>0, <2>4, <2>1, <2>2, <3>1 DEF ContinueNext, Started
  <2> QED BY <1>2, <2>3, <2>4
<1> QED BY <1>1, <1>2

\* TypeOK is kept by every step.
LEMMA TypeNext ==
  ASSUME TypeOK, IndexInRoute, OneCoroutine, PatrolCall, CallbackCall, Next
  PROVE  TypeOK'
<1>0. /\ patrol \in PatrolType /\ count \in Nat /\ 0 \in 0..count
      /\ me \in 0..count /\ Idle \in CallType /\ 0 \in Index
  <2>1. patrol \in PatrolType /\ count \in Nat /\ 0 \in 0..count
    BY DEF TypeOK
  <2> QED BY <2>1, CallTypes, States DEF PatrolType, me, Index
<1>m. ASSUME patrol.place # "none"
      PROVE  me \in Missions /\ mem[me] \in RuntimeType /\ db[me] \in RecordsType
               /\ client[me] \in ClientType /\ mem[me].index \in Index
  <2>1. me \in Missions
    BY <1>0, <1>m DEF OneCoroutine, me, Missions, TypeOK
  <2> QED BY <2>1 DEF TypeOK, RuntimeType
<1>1. ASSUME NEW t \in Threads, Thread(t) PROVE TypeOK'
  BY <1>1, TypeThread DEF PatrolCall, CallbackCall, Threads
<1>2. CASE Coroutine
  <2>1. CASE Working
    BY <2>1, TypeWork
  <2>2. CASE CreateMission
    <3>1. patrol' \in PatrolType
      BY <1>0, <2>2, PatrolUpdates DEF CreateMission, Places
    <3>2. db' \in [Missions -> RecordsType]
      BY <1>m, <2>2, Beginnings, RecordUpdates DEF CreateMission, At, TypeOK
    <3> QED BY <2>2, <3>1, <3>2, TypesStay DEF CreateMission, TypeOK
  <2>3. CASE CreateFails
    <3>1. disturbed' \in Nat /\ Raise("patrol")
      BY <2>3 DEF CreateFails, TypeOK
    <3> QED BY <2>3, <3>1, TypeRaise, TypesStay DEF CreateFails, TypeOK, Threads
  <2>4. CASE Advance
    <3>1. patrol.place = "advance"
      BY <2>4 DEF Advance, At
    <3>2. mem[me].index + 1 \in Index
      BY <1>m, <3>1 DEF IndexInRoute, Underway, Evidenced, Index, me
    <3>3. mem' \in [Missions -> RuntimeType]
      BY <1>m, <2>4, <3>1, <3>2, RuntimeUpdates DEF Advance, TypeOK
    <3>4. patrol' \in PatrolType
      BY <1>0, <2>4, PatrolUpdates DEF Advance, Places
    <3> QED BY <2>4, <3>3, <3>4, TypesStay DEF Advance, TypeOK
  <2>5. CASE ExportReport
    <3>1. patrol' \in PatrolType
      BY <1>0, <2>5, PatrolUpdates DEF ExportReport, Places
    <3>2. client' \in [Missions -> ClientType]
      <4>1. patrol.place = "export"
        BY <2>5 DEF ExportReport, At
      <4>2. get_report(me) \in SUBSET Events
        BY <1>m, <4>1 DEF RecordsType, get_report
      <4>3. [client[me] EXCEPT !.report = get_report(me)] \in ClientType
        BY <1>m, <4>1, <4>2, ClientUpdates
      <4> QED BY <2>5, <4>3 DEF ExportReport, export_report, TypeOK
    <3> QED BY <2>5, <3>1, <3>2, TypesStay DEF ExportReport, TypeOK
  <2>6. CASE Tell
    <3>1. patrol' \in PatrolType
      BY <1>0, <2>6, PatrolUpdates DEF Tell, Places
    <3>2. client' \in [Missions -> ClientType]
      BY <1>0, <1>m, <2>6, ClientUpdates DEF Tell, At, TypeOK, PatrolType
    <3> QED BY <2>6, <3>1, <3>2, TypesStay DEF Tell, TypeOK
  <2>7. CASE Leave
    <3>1. patrol' \in PatrolType
      BY <1>0, <2>7, PatrolBeginnings DEF Leave
    <3>2. client' \in [Missions -> ClientType]
      BY <1>m, <2>7, ClientUpdates DEF Leave, At, TypeOK
    <3> QED BY <2>7, <3>1, <3>2, TypesStay DEF Leave, TypeOK
  <2>8. CASE EndOfRoute
    <3>1. CASE Finalize("COMPLETED")
      BY <3>1, TypeFinalize DEF TERMINAL_STATES
    <3>2. CASE ~Finalize("COMPLETED")
      <4>1. Sync(me) \in CallType
        BY <1>0, CallTypes, States
      <4>2. calls' \in [{"patrol", "callback"} -> CallType]
        BY <2>8, <3>2, <4>1 DEF EndOfRoute, TypeOK
      <4>3. mem' \in [Missions -> RuntimeType]
        <5>1. patrol.place = "loop"
          BY <2>8 DEF EndOfRoute, At
        <5>2. [mem[me] EXCEPT !.index = 0] \in RuntimeType
          BY <1>0, <1>m, <5>1, RuntimeUpdates
        <5> QED BY <2>8, <3>2, <5>2 DEF EndOfRoute, TypeOK
      <4> QED BY <2>8, <3>2, <4>2, <4>3, TypesStay DEF EndOfRoute, TypeOK
    <3> QED BY <3>1, <3>2
  <2>9. CASE Finalize("CANCELLED") \/ Finalize("FAILED")
    BY <2>9, TypeFinalize DEF TERMINAL_STATES
  <2>10. CASE ExceptClause
    BY <2>10, TypeFinalize DEF TERMINAL_STATES, ExceptClause
  <2> QED BY <1>2, <2>1, <2>2, <2>3, <2>4, <2>5, <2>6, <2>7, <2>8, <2>9, <2>10, CoroutineCases
<1>3. CASE Started
  BY <1>3, TypeStart DEF Started
<1>4. ASSUME NEW kind \in Callbacks, Callback(kind) PROVE TypeOK'
  <2>1. \A s \in MissionState : Transition(me, s, "NOTE") \in CallType
    BY <1>0, CallTypes, States
  <2>2. Sync(me) \in CallType
    BY <1>0, CallTypes, States
  <2>0. PICK c \in CallType : Called(c)
    BY <1>4, <2>1, <2>2, States DEF Callback
  <2>3. calls' \in [{"patrol", "callback"} -> CallType]
    BY <2>0 DEF Called, TypeOK
  <2>4. disturbed' \in Nat
    BY <2>0 DEF Called, TypeOK
  <2>5. UNCHANGED <<up, count, patrol, mem, db, client>>
    BY <2>0 DEF Called
  <2> QED BY <2>3, <2>4, <2>5, TypesStay DEF TypeOK
<1>5. CASE Crash
  <2>1. patrol' \in PatrolType
    BY <1>0, <1>5, PatrolBeginnings DEF Crash
  <2>2. calls' \in [{"patrol", "callback"} -> CallType]
    BY <1>0, <1>5 DEF Crash, TypeOK
  <2>3. mem' \in [Missions -> RuntimeType]
    BY <1>5, Beginnings DEF Crash
  <2> QED BY <1>5, <2>1, <2>2, <2>3, TypesStay DEF Crash, TypeOK
<1>6. CASE Restart
  <2>1. \A r \in RecordsType : r.row # NoRow =>
          [r EXCEPT !.row.state = "WAITING_OPERATOR",
                    !.events = @ \cup {<<"PROCESS_RESTART_RECOVERY", 0>>}] \in RecordsType
    <3>1. <<"PROCESS_RESTART_RECOVERY", 0>> \in Events /\ "WAITING_OPERATOR" \in MissionState
      BY <1>0, States DEF Events
    <3> QED BY <3>1 DEF RecordsType, Row
  <2>2. db' \in [Missions -> RecordsType]
    BY <1>6, <2>1 DEF Restart, Interrupted, TypeOK
  <2> QED BY <1>6, <2>2, TypesStay DEF Restart, TypeOK
<1> QED BY <1>1, <1>2, <1>3, <1>4, <1>5, <1>6, StartedCases DEF Next, Threads

-----------------------------------------------------------------------------
(* What a step leaves alone.                                               *)

LEMMA RaiseFrame ==
  ASSUME TypeOK, NEW t \in Threads, Raise(t)
  PROVE  /\ calls'[t] = Idle
         /\ \A u \in Threads \ {t} : calls'[u] = calls[u]
         /\ patrol'.mission = patrol.mission /\ patrol'.outcome = patrol.outcome
         /\ patrol'.excused = patrol.excused /\ patrol'.done = patrol.done
         /\ t = "callback" => patrol' = patrol
         /\ t = "patrol" => patrol'.place \in {"except", "escaped"}
  BY DEF TypeOK, Raise, Return, PatrolType, Threads

\* A thread step keeps who is running and what was told.
LEMMA ThreadFrame ==
  ASSUME TypeOK, NEW t \in Threads, Thread(t)
  PROVE  /\ calls[t].phase # "idle"
         /\ up' = up /\ count' = count /\ client' = client
         /\ \A u \in Threads \ {t} : calls'[u] = calls[u]
         /\ Raise(t) \/ patrol' = patrol
         /\ patrol'.mission = patrol.mission /\ patrol'.outcome = patrol.outcome
         /\ patrol'.excused = patrol.excused /\ patrol'.done = patrol.done
         /\ \A m \in Missions : mem'[m].index = mem[m].index
<1>1. /\ calls[t].phase # "idle" /\ up' = up /\ count' = count /\ client' = client
  BY DEF Thread, Move, Snap, Write, Append, StoreResult, TransactionFails
<1>2. \A u \in Threads \ {t} : calls'[u] = calls[u]
  <2>1. CASE Raise(t)
    BY <2>1, RaiseFrame
  <2>2. CASE ~Raise(t)
    BY <2>2 DEF Thread, Move, Snap, Write, Append, StoreResult, TransactionFails, Goto,
         Return, TypeOK, Threads
  <2> QED BY <2>1, <2>2
<1>3. Raise(t) \/ patrol' = patrol
  BY DEF Thread, Move, Snap, Write, Append, StoreResult, TransactionFails
<1>4. \A m \in Missions : mem'[m].index = mem[m].index
  BY DEF Thread, Move, Snap, Write, Append, StoreResult, TransactionFails, TypeOK,
     RuntimeType
<1> QED BY <1>1, <1>2, <1>3, <1>4, RaiseFrame

LEMMA WorkFrame ==
  ASSUME TypeOK, NEW p, NEW c, Work(p, c)
  PROVE  /\ UNCHANGED <<up, count, mem, db, client>>
         /\ patrol'.place = p /\ patrol'.mission = patrol.mission
         /\ patrol'.outcome = patrol.outcome
         /\ calls'["patrol"] = c /\ calls'["callback"] = calls["callback"]
  BY DEF Work, TypeOK, PatrolType

LEMMA FinalizeFrame ==
  ASSUME TypeOK, NEW o, Finalize(o)
  PROVE  /\ UNCHANGED <<up, count, mem, db, client>>
         /\ patrol'.place = "export" /\ patrol'.mission = patrol.mission
         /\ patrol'.outcome = o
         /\ calls'["patrol"] = Transition(me, o, Closing[o])
         /\ calls'["callback"] = calls["callback"]
  BY DEF Finalize, TypeOK, PatrolType

\* The fields of a call.
LEMMA CallFields ==
  ASSUME NEW m, NEW s, NEW k, NEW t
  PROVE  /\ Transition(m, s, k).phase = "move" /\ Transition(m, s, k).mission = m
         /\ Transition(m, s, k).target = s /\ Transition(m, s, k).code = k
         /\ Record(m, k).phase = "snap" /\ Record(m, k).mission = m
         /\ Record(m, k).target = "EVENT" /\ Record(m, k).code = k
         /\ Sync(m).phase = "snap" /\ Sync(m).mission = m
         /\ Sync(m).target = "NONE" /\ Sync(m).code = "NOTE"
         /\ Insert(m, t).phase = "insert" /\ Insert(m, t).mission = m
         /\ Insert(m, t).target = t /\ Insert(m, t).code = "NOTE"
         /\ Idle.phase = "idle" /\ Idle.target = "NONE" /\ Idle.code = "NOTE"
         /\ Idle.mission = 0
  BY DEF Transition, Record, Sync, Insert, Idle

LEMMA CalledFrame ==
  ASSUME TypeOK, NEW kind \in Callbacks, Callback(kind)
  PROVE  \E c : /\ calls'["callback"] = c /\ calls'["patrol"] = calls["patrol"]
                /\ UNCHANGED <<up, count, patrol, mem, db, client>>
                /\ up /\ me # 0
                /\ c = Sync(me) \/ \E s \in Calm : c = Transition(me, s, "NOTE")
<1>1. PICK c : Called(c) /\ (c = Sync(me) \/ \E s \in Calm : c = Transition(me, s, "NOTE"))
  BY States DEF Callback, Calm
<1> QED BY <1>1 DEF Called, Callback, TypeOK

LEMMA StartFrame ==
  ASSUME TypeOK, NEW i, NEW l, NEW b, NEW cov, Execute(i, l, b, cov)
  PROVE  /\ up /\ up' = up /\ patrol.mission = 0 /\ count' = count + 1
         /\ count + 1 \in Missions /\ calls' = calls /\ db' = db
         /\ patrol'.place = "create" /\ patrol'.mission = count + 1
         /\ patrol'.outcome = "FAILED"
         /\ mem'[count + 1].index = i
         /\ client'[count + 1].first = i /\ client'[count + 1].base = b
         /\ client'[count + 1].covered = cov /\ client'[count + 1].told = "nothing"
         /\ client'[count + 1].report = {}
         /\ \A m \in Missions : m # count + 1 =>
              mem'[m] = mem[m] /\ client'[m] = client[m]
         /\ mem'[count + 1].state = "IDLE"
  BY DEF Execute, TypeOK, Missions, NoPatrol, NoRuntime, NoClient

LEMMA NextCases ==
  ASSUME TypeOK, PatrolCall, Next
  PROVE  \/ \E t \in Threads : Thread(t)
         \/ Coroutine /\ Working
         \/ CreateMission \/ CreateFails \/ Advance \/ ExportReport \/ Tell \/ Leave
         \/ EndOfRoute
         \/ /\ Ready /\ patrol.place \in WorkPlaces
            /\ Finalize("CANCELLED") \/ Finalize("FAILED")
         \/ ExceptClause
         \/ \E start \in Starts, loop \in Loops : StartFresh(start, loop)
         \/ \E m \in Missions, loop \in Loops : RetryCurrent(m, loop) \/ ContinueNext(m, loop)
         \/ \E kind \in Callbacks : Callback(kind)
         \/ Crash \/ Restart
  BY CoroutineCases DEF Next, Threads

\* Where the steps that end, begin or crash a mission leave the coroutine.
LEMMA PlaceFrame ==
  ASSUME TypeOK
  PROVE  /\ CreateMission => patrol'.place = "prepare" /\ patrol.place = "create"
         /\ CreateFails => patrol'.place \in {"except", "escaped"} /\ patrol.place = "create"
         /\ Advance => patrol'.place = "loop" /\ patrol.place = "advance"
         /\ ExportReport => patrol'.place = "tell" /\ patrol.place = "export"
         /\ Tell => patrol'.place = "finally" /\ patrol.place = "tell"
         /\ CreateMission \/ CreateFails \/ Advance \/ ExportReport \/ Tell =>
              /\ Ready /\ up' = up /\ count' = count
              /\ patrol'.mission = patrol.mission /\ patrol'.outcome = patrol.outcome
              /\ calls'["callback"] = calls["callback"]
              /\ calls'["patrol"] \in {calls["patrol"], Idle}
         /\ Leave => /\ patrol' = NoPatrol /\ patrol.place \in {"finally", "escaped"}
                     /\ Ready /\ up' = up /\ count' = count /\ calls' = calls
                     /\ db' = db /\ mem' = mem
         /\ EndOfRoute =>
              /\ Ready /\ patrol.place = "loop" /\ up' = up /\ count' = count
              /\ mem[me].index = N
              /\ \/ Finalize("COMPLETED")
                 \/ /\ patrol' = patrol /\ calls'["patrol"] = Sync(me)
                    /\ calls'["callback"] = calls["callback"]
                    /\ mem' = [mem EXCEPT ![me].index = 0]
                    /\ db' = db /\ client' = client
         /\ ExceptClause => Finalize("FAILED") /\ Ready /\ patrol.place = "except"
         /\ Crash => /\ up' = FALSE /\ patrol' = NoPatrol /\ count' = count
                     /\ calls'["patrol"] = Idle /\ calls'["callback"] = Idle
                     /\ db' = db /\ client' = client
         /\ Restart => /\ ~up /\ up' /\ UNCHANGED <<count, patrol, mem, calls, client>>
<1>1. patrol \in PatrolType
  BY DEF TypeOK
<1>2. CreateFails => patrol'.place \in {"except", "escaped"} /\ patrol.place = "create"
        /\ Ready /\ up' = up /\ count' = count /\ patrol'.mission = patrol.mission
        /\ patrol'.outcome = patrol.outcome
        /\ calls'["callback"] = calls["callback"] /\ calls'["patrol"] = Idle
  BY RaiseFrame DEF CreateFails, At, Ready, Threads
<1>3. CreateMission => patrol'.place = "prepare" /\ patrol.place = "create"
        /\ Ready /\ up' = up /\ count' = count /\ patrol'.mission = patrol.mission
        /\ patrol'.outcome = patrol.outcome /\ calls' = calls
  BY <1>1 DEF CreateMission, At, Ready, PatrolType
<1>4. Advance => patrol'.place = "loop" /\ patrol.place = "advance"
        /\ Ready /\ up' = up /\ count' = count /\ patrol'.mission = patrol.mission
        /\ patrol'.outcome = patrol.outcome /\ calls' = calls
  BY <1>1 DEF Advance, At, Ready, PatrolType
<1>5. ExportReport => patrol'.place = "tell" /\ patrol.place = "export"
        /\ Ready /\ up' = up /\ count' = count /\ patrol'.mission = patrol.mission
        /\ patrol'.outcome = patrol.outcome /\ calls' = calls
  BY <1>1 DEF ExportReport, At, Ready, PatrolType
<1>6. Tell => patrol'.place = "finally" /\ patrol.place = "tell"
        /\ Ready /\ up' = up /\ count' = count /\ patrol'.mission = patrol.mission
        /\ patrol'.outcome = patrol.outcome /\ calls' = calls
  BY <1>1 DEF Tell, At, Ready, PatrolType
<1>7. Leave => /\ patrol' = NoPatrol /\ patrol.place \in {"finally", "escaped"}
               /\ Ready /\ up' = up /\ count' = count /\ calls' = calls
               /\ db' = db /\ mem' = mem
  BY DEF Leave, At, Ready
<1>8. EndOfRoute =>
              /\ Ready /\ patrol.place = "loop" /\ up' = up /\ count' = count
              /\ mem[me].index = N
              /\ \/ Finalize("COMPLETED")
                 \/ /\ patrol' = patrol /\ calls'["patrol"] = Sync(me)
                    /\ calls'["callback"] = calls["callback"]
                    /\ mem' = [mem EXCEPT ![me].index = 0]
                    /\ db' = db /\ client' = client
  BY DEF EndOfRoute, At, Ready, my, me, Finalize, TypeOK
<1>9. ExceptClause => Finalize("FAILED") /\ Ready /\ patrol.place = "except"
  BY DEF ExceptClause, At, Ready
<1>10. Crash => /\ up' = FALSE /\ patrol' = NoPatrol /\ count' = count
                /\ calls'["patrol"] = Idle /\ calls'["callback"] = Idle
                /\ db' = db /\ client' = client
  BY DEF Crash, TypeOK
<1>11. Restart => /\ ~up /\ up' /\ UNCHANGED <<count, patrol, mem, calls, client>>
  BY DEF Restart
<1> QED BY <1>2, <1>3, <1>4, <1>5, <1>6, <1>7, <1>8, <1>9, <1>10, <1>11

LEMMA PlaceSets ==
  /\ Underway \cap {"none", "create", "prepare", "loop", "except", "escaped", "export",
                    "tell", "finally"} = {}
  /\ Underway \subseteq WorkPlaces
  /\ WorkPlaces \cap Ended = {} /\ "create" \notin WorkPlaces
  /\ {"prepare", "loop", "advance", "stored", "verified", "unverified"} \subseteq WorkPlaces
  /\ NoPatrol.place = "none" /\ NoPatrol.mission = 0
  BY DEF Underway, Evidenced, WorkPlaces, Places, Ended, NoPatrol

LEMMA ActiveMission ==
  ASSUME TypeOK, OneCoroutine, patrol.place # "none"
  PROVE  /\ patrol.mission \in Missions /\ patrol.mission = count /\ me = patrol.mission
         /\ mem[patrol.mission] \in RuntimeType /\ db[patrol.mission] \in RecordsType
         /\ client[patrol.mission] \in ClientType
<1>1. patrol.mission \in Missions
  BY DEF OneCoroutine, TypeOK, PatrolType, Missions
<1> QED BY <1>1 DEF OneCoroutine, TypeOK, me

LEMMA NextIndexInRoute ==
  ASSUME TypeOK, OneCoroutine, PatrolCall, IndexInRoute, Next
  PROVE  IndexInRoute'
<1>1. ASSUME NEW t \in Threads, Thread(t) PROVE IndexInRoute'
  <2>1. patrol'.place = patrol.place \/ patrol'.place \in {"except", "escaped"}
    BY <1>1, ThreadFrame, RaiseFrame DEF Threads
  <2>2. patrol'.mission = patrol.mission
    BY <1>1, ThreadFrame
  <2>3. CASE patrol.place \in Underway
    BY <1>1, <2>1, <2>2, <2>3, ThreadFrame, ActiveMission, PlaceSets DEF IndexInRoute
  <2>4. CASE patrol.place \notin Underway
    BY <2>1, <2>4, PlaceSets DEF IndexInRoute
  <2> QED BY <2>3, <2>4
<1>2. CASE Working
  <2>0. PICK p \in WorkPlaces : \E c : Work(p, c)
    BY <1>2 DEF Working
  <2>1. PICK c : p \in WorkPlaces /\ Work(p, c)
    BY <2>0
  <2> QED BY <2>1, WorkFrame DEF Work, IndexInRoute, my
<1>3. CASE CreateMission \/ CreateFails \/ Advance \/ ExportReport \/ Tell \/ Leave
             \/ EndOfRoute \/ ExceptClause \/ Crash
  BY <1>3, PlaceFrame, FinalizeFrame, PlaceSets DEF IndexInRoute
<1>4. CASE Finalize("CANCELLED") \/ Finalize("FAILED")
  BY <1>4, FinalizeFrame, PlaceSets DEF IndexInRoute
<1>5. CASE Started
  BY <1>5, StartFrame, PlaceSets DEF IndexInRoute, Started
<1>6. ASSUME NEW kind \in Callbacks, Callback(kind) PROVE IndexInRoute'
  BY <1>6, CalledFrame DEF IndexInRoute
<1>7. CASE Restart
  BY <1>7, PlaceFrame DEF IndexInRoute
<1> QED BY <1>1, <1>2, <1>3, <1>4, <1>5, <1>6, <1>7, NextCases, StartedCases

\* A step writes the records of one mission at most.
LEMMA RecordsFrame ==
  ASSUME TypeOK, NEW t \in Threads, Thread(t)
  PROVE  \A m \in Missions : m # calls[t].mission => db'[m] = db[m] /\ mem'[m] = mem[m]
  BY DEF Thread, Move, Snap, Write, WriteRow, Append, StoreResult, TransactionFails, TypeOK

LEMMA NextOneCoroutine ==
  ASSUME TypeOK, OneCoroutine, PatrolCall, CallbackCall, Next
  PROVE  OneCoroutine'
<1>0. count \in Nat /\ patrol.mission \in Nat
  BY DEF TypeOK, PatrolType
<1>1. ASSUME NEW t \in Threads, Thread(t) PROVE OneCoroutine'
  <2>1. calls[t].mission \in 1..count /\ calls[t].mission \in Missions
    BY <1>1, ThreadFrame DEF PatrolCall, CallbackCall, Threads, TypeOK, CallType, Missions
  <2>2. up /\ up' = up
    BY <1>1, ThreadFrame DEF OneCoroutine, Threads, Idle
  <2>3. \A m \in Missions : m > count => db'[m] = db[m] /\ client'[m] = client[m]
    <3>1. \A m \in Missions : m > count => m # calls[t].mission
      BY <1>0, <2>1 DEF Missions
    <3> QED BY <1>1, <3>1, ThreadFrame, RecordsFrame
  <2>4. patrol'.place = "none" <=> patrol.mission = 0
    <3>1. CASE patrol' = patrol
      BY <3>1 DEF OneCoroutine
    <3>2. CASE patrol' # patrol
      <4>1. t = "patrol" /\ patrol'.place \in {"except", "escaped"}
        BY <1>1, <3>2, ThreadFrame, RaiseFrame DEF Threads
      <4>2. patrol.mission # 0
        BY <1>1, <4>1, ThreadFrame DEF PatrolCall
      <4> QED BY <4>1, <4>2
    <3> QED BY <3>1, <3>2
  <2>5. patrol'.mission = patrol.mission /\ count' = count
    BY <1>1, ThreadFrame
  <2> QED BY <2>2, <2>3, <2>4, <2>5 DEF OneCoroutine
<1>2. ASSUME up, up' = up, count' = count, patrol'.mission = patrol.mission,
             patrol'.place # "none", patrol.place # "none",
             \A m \in Missions : m > count => db'[m] = db[m] /\ client'[m] = client[m]
      PROVE  OneCoroutine'
  BY <1>2 DEF OneCoroutine
<1>3. CASE Working
  <2>0. PICK p \in WorkPlaces : \E c : Work(p, c)
    BY <1>3 DEF Working
  <2>1. PICK c : p \in WorkPlaces /\ Work(p, c)
    BY <2>0
  <2>2. p # "none" /\ patrol.place # "none" /\ up
    BY <2>1 DEF Work, WorkPlaces, Ended
  <2> QED BY <1>2, <2>1, <2>2, WorkFrame
<1>4. CASE CreateMission \/ CreateFails \/ Advance \/ ExportReport \/ Tell
  <2>1. /\ up /\ up' = up /\ count' = count /\ patrol'.mission = patrol.mission
        /\ patrol'.place # "none" /\ patrol.place # "none"
    BY <1>4, PlaceFrame DEF Ready
  <2>2. \A m \in Missions : m # me => db'[m] = db[m] /\ client'[m] = client[m]
    BY <1>4 DEF CreateMission, CreateFails, Advance, ExportReport, export_report, Tell, TypeOK
  <2>3. me \in Nat /\ me = count
    BY <2>1, <1>0, ActiveMission
  <2> QED BY <1>0, <1>2, <2>1, <2>2, <2>3 DEF Missions
<1>5. CASE Leave
  <2>1. \A m \in Missions : m # me => client'[m] = client[m]
    BY <1>5 DEF Leave, TypeOK
  <2>2. me = count
    BY <1>5, PlaceFrame, ActiveMission
  <2> QED BY <1>0, <1>5, <2>1, <2>2, PlaceFrame, PlaceSets DEF OneCoroutine, Missions, Ready
<1>6. CASE EndOfRoute \/ ExceptClause \/ (Ready /\ patrol.place \in WorkPlaces
                      /\ (Finalize("CANCELLED") \/ Finalize("FAILED")))
  <2>1. up /\ up' = up /\ count' = count /\ patrol'.mission = patrol.mission
        /\ patrol'.place # "none" /\ patrol.place # "none" /\ db' = db /\ client' = client
    BY <1>6, PlaceFrame, FinalizeFrame, PlaceSets DEF Ready, Ended
  <2> QED BY <1>2, <2>1
<1>7. CASE Started
  BY <1>0, <1>7, StartFrame DEF OneCoroutine, Started, Missions
<1>8. ASSUME NEW kind \in Callbacks, Callback(kind) PROVE OneCoroutine'
  <2>1. up /\ UNCHANGED <<up, count, patrol, db, client>>
    BY <1>8, CalledFrame
  <2> QED BY <2>1 DEF OneCoroutine
<1>9. CASE Crash
  BY <1>9, PlaceFrame, PlaceSets DEF OneCoroutine
<1>10. CASE Restart
  <2>1. \A m \in Missions : db[m] = NoRecords => db'[m] = db[m]
    <3>1. ~Interrupted(NoRecords.row)
      BY DEF Interrupted, NoRecords
    <3>2. \A m \in Missions : ~Interrupted(db[m].row) => db'[m] = db[m]
      BY <1>10 DEF Restart
    <3> QED BY <3>1, <3>2
  <2> QED BY <1>10, <2>1, PlaceFrame DEF OneCoroutine
<1> QED BY <1>1, <1>3, <1>4, <1>5, <1>6, <1>7, <1>8, <1>9, <1>10, NextCases, StartedCases

-----------------------------------------------------------------------------
(* What a step does to the database.                                       *)

\* The row of a mission changes in three ways.
RowWritten(m, t) ==
  /\ calls[t].phase = "write" /\ calls[t].mission = m /\ Thread(t)
  /\ db[m].row # NoRow /\ db'[m].row = calls[t].row

RowCreated(m) ==
  CreateMission /\ m = me /\ db'[m].row = [state |-> "IDLE", index |-> 0]

RowParked(m) ==
  /\ Restart /\ Interrupted(db[m].row)
  /\ db'[m].row = [db[m].row EXCEPT !.state = "WAITING_OPERATOR"]
  /\ db'[m].events = db[m].events \cup {<<"PROCESS_RESTART_RECOVERY", 0>>}

RowKept(m) == db'[m].row = db[m].row

\* What a call writes, and what it adds to the events.
LEMMA ThreadRecords ==
  ASSUME TypeOK, NEW t \in Threads, Thread(t), NEW m \in Missions
  PROVE  /\ RowKept(m) \/ RowWritten(m, t)
         /\ \/ db'[m].events = db[m].events
            \/ /\ Append(t) /\ m = calls[t].mission
               /\ db'[m].events = db[m].events \cup {<<calls[t].code, mem[m].index>>}
<1>0. db[m] \in RecordsType
  BY DEF TypeOK
<1>1. CASE m # calls[t].mission
  BY <1>1, RecordsFrame DEF RowKept
<1>2. CASE m = calls[t].mission
  <2>1. CASE db' = db
    BY <2>1 DEF RowKept
  <2>2. CASE db' = WriteRow(calls[t]) /\ calls[t].phase = "write" /\ db[m].row # NoRow
    BY <1>0, <1>2, <2>2 DEF WriteRow, TypeOK, RecordsType, RowWritten
  <2>3. CASE Append(t)
    BY <1>0, <1>2, <2>3 DEF Append, TypeOK, RecordsType, RowKept
  <2>4. CASE StoreResult(t)
    BY <1>0, <1>2, <2>4 DEF StoreResult, TypeOK, RecordsType, RowKept
  <2>5. \/ db' = db
        \/ db' = WriteRow(calls[t]) /\ calls[t].phase = "write" /\ db[m].row # NoRow
        \/ Append(t) \/ StoreResult(t)
    BY <1>2 DEF Thread, Move, Snap, Write, TransactionFails
  <2> QED BY <2>1, <2>2, <2>3, <2>4, <2>5
<1> QED BY <1>1, <1>2

\* The steps outside the calls that keep the database.
Quiet ==
  \/ Working \/ CreateFails \/ Advance \/ ExportReport \/ Tell \/ Leave \/ EndOfRoute
  \/ Finalize("CANCELLED") \/ Finalize("FAILED") \/ ExceptClause
  \/ Started \/ (\E kind \in Callbacks : Callback(kind)) \/ Crash

LEMMA QuietKeeps == TypeOK /\ Quiet => db' = db
<1>1. TypeOK /\ Working => db' = db
  BY WorkFrame DEF Working
<1>2. TypeOK /\ (\E kind \in Callbacks : Callback(kind)) => db' = db
  BY CalledFrame
<1> QED BY <1>1, <1>2 DEF Quiet, CreateFails, Advance, ExportReport, Tell, Leave,
   EndOfRoute, Finalize, ExceptClause, Started, Execute, Crash

LEMMA NextDb ==
  ASSUME TypeOK, PatrolCall, Next
  PROVE  (\E t \in Threads : Thread(t)) \/ CreateMission \/ Restart \/ Quiet
  BY NextCases, StartedCases DEF Quiet

LEMMA RowCases ==
  ASSUME TypeOK, PatrolCall, Next, NEW m \in Missions
  PROVE  /\ \/ RowKept(m)
            \/ \E t \in Threads : RowWritten(m, t)
            \/ RowCreated(m) \/ RowParked(m)
         /\ db[m].events \subseteq db'[m].events
<1>0. db[m] \in RecordsType
  BY DEF TypeOK
<1>1. ASSUME NEW t \in Threads, Thread(t)
      PROVE  /\ RowKept(m) \/ RowWritten(m, t)
             /\ db[m].events \subseteq db'[m].events
  BY <1>1, ThreadRecords
<1>2. CASE CreateMission
  <2>1. me \in Missions => db[me] \in RecordsType
    BY DEF TypeOK
  <2> QED BY <1>0, <1>2, <2>1 DEF CreateMission, RowCreated, RowKept, TypeOK, RecordsType, NoRow
<1>3. CASE Restart
  <2>1. CASE Interrupted(db[m].row)
    <3>1. db'[m] = [db[m] EXCEPT !.row.state = "WAITING_OPERATOR",
                          !.events = @ \cup {<<"PROCESS_RESTART_RECOVERY", 0>>}]
      BY <1>3, <2>1 DEF Restart
    <3> QED BY <1>0, <1>3, <2>1, <3>1 DEF RowParked, RecordsType
  <2>2. CASE ~Interrupted(db[m].row)
    <3>1. db'[m] = db[m]
      BY <1>3, <2>2 DEF Restart
    <3> QED BY <3>1 DEF RowKept
  <2> QED BY <2>1, <2>2
<1>4. CASE Quiet
  BY <1>4, QuietKeeps DEF RowKept
<1> QED BY <1>1, <1>2, <1>3, <1>4, NextDb

\* The constants of a mission.
LEMMA ClientKept ==
  ASSUME TypeOK, PatrolCall, Next, NEW m \in Missions
  PROVE  \/ /\ client'[m].first = client[m].first /\ client'[m].base = client[m].base
            /\ client'[m].covered = client[m].covered
         \/ Started /\ m = count + 1
<1>0. client[m] \in ClientType
  BY DEF TypeOK
<1>1. CASE client' = client
  BY <1>1
<1>2. CASE Started
  BY <1>2, StartFrame DEF Started
<1>3. CASE ExportReport \/ Tell \/ Leave
  <2>0. client = [q \in Missions |-> client[q]]
    BY DEF TypeOK
  <2>1. ASSUME NEW value,
               \/ client' = [client EXCEPT ![me].report = value]
               \/ client' = [client EXCEPT ![me].told = value]
               \/ client' = client
        PROVE  /\ client'[m].first = client[m].first /\ client'[m].base = client[m].base
               /\ client'[m].covered = client[m].covered
    <3>1. \/ client'[m] = client[m]
          \/ client'[m] = [client[m] EXCEPT !.report = value]
          \/ client'[m] = [client[m] EXCEPT !.told = value]
      <4>1. CASE client' = [client EXCEPT ![me].report = value]
        BY <2>0, <4>1
      <4>2. CASE client' = [client EXCEPT ![me].told = value]
        BY <2>0, <4>2
      <4> QED BY <2>1, <4>1, <4>2
    <3> QED BY <1>0, <3>1 DEF ClientType
  <2>2. CASE ExportReport
    BY <2>1, <2>2 DEF ExportReport, export_report
  <2>3. CASE Tell
    BY <2>1, <2>3 DEF Tell
  <2>4. CASE Leave
    BY <2>1, <2>4 DEF Leave
  <2> QED BY <1>3, <2>2, <2>3, <2>4
<1>4. \/ client' = client \/ Started \/ ExportReport \/ Tell \/ Leave
  <2>1. \A t \in Threads : Thread(t) => client' = client
    BY ThreadFrame
  <2>2. Working => client' = client
    BY WorkFrame DEF Working
  <2>3. (\E kind \in Callbacks : Callback(kind)) => client' = client
    BY CalledFrame
  <2>4. CreateMission \/ CreateFails \/ Advance \/ EndOfRoute \/ ExceptClause
        \/ Finalize("CANCELLED") \/ Finalize("FAILED") \/ Crash \/ Restart => client' = client
    BY DEF CreateMission, CreateFails, Advance, EndOfRoute, ExceptClause, Finalize, Crash, Restart
  <2> QED BY <2>1, <2>2, <2>3, <2>4, NextCases, StartedCases
<1> QED BY <1>1, <1>2, <1>3, <1>4

\* Backed(m, i) after the step, for an index that is known before or after it.
BackedNext(m, i) ==
  \A j \in client'[m].first..(i - 1) :
    \E code \in Accounting : <<code, j>> \in db'[m].events

\* What is backed stays so.
LEMMA BackedStays ==
  ASSUME TypeOK, PatrolCall, Next, NEW m \in Missions, NEW i, Backed(m, i),
         m # count + 1 \/ ~Started
  PROVE  BackedNext(m, i)
<1>1. client'[m].first = client[m].first /\ db[m].events \subseteq db'[m].events
  BY RowCases, ClientKept
<1> QED BY <1>1 DEF Backed, BackedNext

-----------------------------------------------------------------------------
(* The calls and the states they move to.                                  *)

CallEnds(t) ==
  /\ calls'[t] = Idle
  /\ \/ Raise(t)
     \/ calls[t].phase = "write" /\ calls[t].code = "NOTE"
     \/ calls[t].phase = "write" /\ calls[t].target = "NONE"
     \/ calls[t].phase = "insert" /\ StoreResult(t)
     \/ calls[t].phase = "append" /\ Append(t)

CallGoesOn(t) ==
  /\ calls'[t].mission = calls[t].mission /\ calls'[t].code = calls[t].code
  /\ patrol' = patrol
  /\ \/ /\ calls[t].phase = "move" /\ calls'[t].phase = "snap"
        /\ \/ calls'[t].target = "NONE" /\ mem[calls[t].mission].state = calls[t].target
           \/ calls'[t].target = calls[t].target
     \/ /\ calls[t].phase = "snap" /\ calls'[t].phase = "write"
        /\ calls'[t].target = calls[t].target
        /\ calls'[t].row = [state |-> mem[calls[t].mission].state,
                            index |-> mem[calls[t].mission].index]
     \/ /\ calls[t].phase = "write" /\ calls'[t].phase = "append"
        /\ calls[t].code # "NOTE"
        /\ calls'[t].target = calls[t].target /\ calls[t].target # "NONE"

LEMMA ThreadCall ==
  ASSUME TypeOK, NEW t \in Threads, Thread(t)
  PROVE  CallEnds(t) \/ CallGoesOn(t)
<1>0. calls[t] \in CallType /\ t \in {"patrol", "callback"}
  BY DEF TypeOK, Threads
<1>1. CASE Raise(t)
  BY <1>1, RaiseFrame DEF CallEnds
<1>2. CASE ~Raise(t)
  <2>1. CASE Move(t)
    <3>1. calls[t].phase = "move" /\ patrol' = patrol
      BY <1>2, <2>1 DEF Move
    <3>2. CASE calls'[t] = [calls[t] EXCEPT !.phase = "snap", !.target = "NONE", !.locked = TRUE]
               /\ mem[calls[t].mission].state = calls[t].target
      BY <1>0, <3>1, <3>2 DEF CallGoesOn, CallType
    <3>3. CASE calls'[t] = [calls[t] EXCEPT !.phase = "snap"]
      BY <1>0, <3>1, <3>3 DEF CallGoesOn, CallType
    <3> QED BY <1>0, <1>2, <2>1, <3>2, <3>3 DEF Move, Goto, TypeOK
  <2>2. CASE Snap(t)
    BY <1>0, <2>2 DEF Snap, CallGoesOn, TypeOK, CallType
  <2>3. CASE Write(t)
    <3>1. calls[t].phase = "write" /\ patrol' = patrol
      BY <2>3 DEF Write
    <3>2. CASE calls[t].code = "NOTE" \/ calls[t].target = "NONE"
      BY <1>0, <2>3, <3>1, <3>2 DEF Write, Return, CallEnds, TypeOK
    <3>3. CASE ~(calls[t].code = "NOTE" \/ calls[t].target = "NONE")
      <4>1. calls'[t] = [calls[t] EXCEPT !.phase = "append", !.row = NoRow]
        BY <1>0, <2>3, <3>3 DEF Write, TypeOK
      <4> QED BY <1>0, <3>1, <3>3, <4>1 DEF CallGoesOn, CallType
    <3> QED BY <3>2, <3>3
  <2>4. CASE Append(t)
    BY <1>0, <2>4 DEF Append, Return, CallEnds, TypeOK
  <2>5. CASE StoreResult(t)
    BY <1>0, <2>5 DEF StoreResult, Return, CallEnds, TypeOK
  <2> QED BY <1>2, <2>1, <2>2, <2>3, <2>4, <2>5 DEF Thread, TransactionFails
<1> QED BY <1>1, <1>2

\* The state of a mission is moved by the calls alone.
LEMMA ThreadStates ==
  ASSUME TypeOK, NEW t \in Threads, Thread(t), NEW m \in Missions
  PROVE  \/ mem'[m].state = mem[m].state
         \/ /\ m = calls[t].mission /\ calls[t].phase = "move"
            /\ mem'[m].state = calls[t].target
  BY DEF Thread, Move, Snap, Write, Append, StoreResult, TransactionFails, TypeOK, RuntimeType

LEMMA NextNotYetEnded ==
  ASSUME TypeOK, OneCoroutine, PatrolCall, CallbackCall, NotYetEnded, Next
  PROVE  NotYetEnded'
<1>1. ASSUME NEW t \in Threads, Thread(t) PROVE NotYetEnded'
  <2> SUFFICES ASSUME patrol'.place \notin Ended
               PROVE  mem'[patrol.mission].state \notin TERMINAL_STATES
    BY <1>1, ThreadFrame DEF NotYetEnded
  <2>1. patrol' = patrol
    BY <1>1, ThreadFrame, RaiseFrame DEF Ended, Threads
  <2>2. patrol.place # "none" /\ patrol.place # "export"
        /\ mem[patrol.mission].state \notin TERMINAL_STATES
    BY <2>1 DEF NotYetEnded, Ended
  <2>3. patrol.mission \in Missions
    BY <2>2, ActiveMission
  <2>4. calls[t].phase = "move" => calls[t].target \notin TERMINAL_STATES
    BY <2>2, States DEF PatrolCall, CallbackCall, Threads
  <2> QED BY <1>1, <2>2, <2>3, <2>4, ThreadStates
<1>2. CASE Working
  BY <1>2, WorkFrame, PlaceSets DEF Working, Work, NotYetEnded
<1>3. CASE CreateMission
  <2>1. patrol.place = "create" /\ mem' = mem /\ patrol'.mission = patrol.mission
    BY <1>3, PlaceFrame DEF CreateMission
  <2> QED BY <2>1 DEF NotYetEnded, Ended
<1>4. CASE Advance
  <2>1. patrol.place = "advance" /\ patrol'.mission = patrol.mission
    BY <1>4, PlaceFrame
  <2>2. mem'[patrol.mission].state = mem[patrol.mission].state
    BY <1>4, <2>1, ActiveMission DEF Advance, TypeOK, RuntimeType
  <2> QED BY <2>1, <2>2 DEF NotYetEnded, Ended
<1>5. CASE EndOfRoute
  <2>1. CASE Finalize("COMPLETED")
    BY <2>1, FinalizeFrame DEF NotYetEnded, Ended
  <2>2. CASE ~Finalize("COMPLETED")
    <3>1. patrol' = patrol /\ mem' = [mem EXCEPT ![me].index = 0] /\ patrol.place = "loop"
      BY <1>5, <2>2, PlaceFrame
    <3>2. mem'[patrol.mission].state = mem[patrol.mission].state
      BY <3>1, ActiveMission DEF TypeOK, RuntimeType
    <3> QED BY <3>1, <3>2 DEF NotYetEnded
  <2> QED BY <2>1, <2>2
<1>6. CASE CreateFails \/ ExportReport \/ Tell \/ Leave \/ ExceptClause \/ Crash
             \/ Finalize("CANCELLED") \/ Finalize("FAILED")
  <2>1. patrol'.place \in Ended
    BY <1>6, PlaceFrame, PlaceSets, FinalizeFrame DEF Ended
  <2> QED BY <2>1 DEF NotYetEnded
<1>7. CASE Started
  BY <1>7, StartFrame, States DEF NotYetEnded, Started
<1>8. ASSUME NEW kind \in Callbacks, Callback(kind) PROVE NotYetEnded'
  BY <1>8, CalledFrame DEF NotYetEnded
<1>9. CASE Restart
  BY <1>9, PlaceFrame DEF NotYetEnded
<1> QED BY <1>1, <1>2, <1>3, <1>4, <1>5, <1>6, <1>7, <1>8, <1>9, NextCases, StartedCases

\* A call of the coroutine as Work leaves it.
LEMMA WorkCalls ==
  ASSUME TypeOK, OneCoroutine, NEW p \in WorkPlaces, NEW c, Work(p, c)
  PROVE  PatrolCall'
<1>1. me # 0 /\ me = patrol.mission /\ me = patrol'.mission
  BY PlaceSets, WorkFrame DEF Work, OneCoroutine, me, WorkPlaces, Ended
<1>2. calls'["patrol"] = c /\ patrol'.place = p
  BY WorkFrame
<1>3. p \notin Ended
  BY DEF WorkPlaces
<1>4. CASE c = Idle
  BY <1>2, <1>4 DEF PatrolCall, Idle
<1>5. ASSUME p \notin {"advance", "stored", "verified"},
             c.phase \in {"snap", "move"}, c.mission = me, c.code = "NOTE",
             c.target \in {"NONE", "EVENT"} \cup Calm, c.phase = "move" => c.target \in Calm
      PROVE  PatrolCall'
  <2>1. c.target \notin TERMINAL_STATES
    BY <1>5 DEF Calm, TERMINAL_STATES
  <2> QED BY <1>1, <1>2, <1>3, <1>5, <2>1 DEF PatrolCall, Ended, Calm
<1>6. CASE p \notin {"advance", "stored", "verified"} /\ NoteCall(c)
  <2>1. CASE c = Sync(me) \/ c = Record(me, "NOTE")
    BY <1>5, <1>6, <2>1, CallFields
  <2>2. ASSUME NEW s \in Calm, c = Transition(me, s, "NOTE") PROVE PatrolCall'
    BY <1>5, <1>6, <2>2, CallFields
  <2> QED BY <1>4, <1>6, <2>1, <2>2 DEF NoteCall
<1>7. ASSUME NEW x \in {"checkin", "failed", "inspection"}, c = Insert(me, x),
             p # "advance", p = "stored" <=> x = "inspection", p = "verified" => x = "checkin"
      PROVE  PatrolCall'
  <2>1. c.phase = "insert" /\ c.mission = me /\ c.code = "NOTE" /\ c.target = x
    BY <1>7, CallFields
  <2>2. x \notin TERMINAL_STATES
    BY DEF TERMINAL_STATES
  <2> QED BY <1>1, <1>2, <1>3, <1>7, <2>1, <2>2 DEF PatrolCall, Ended
<1>8. ASSUME NEW k \in Accounting, c = Record(me, k), p = "advance" PROVE PatrolCall'
  <2>1. c.phase = "snap" /\ c.mission = me /\ c.code = k /\ c.target = "EVENT"
    BY <1>8, CallFields
  <2>2. k # "NOTE" /\ "EVENT" \notin TERMINAL_STATES
    BY DEF TERMINAL_STATES, Accounting
  <2> QED BY <1>1, <1>2, <1>3, <1>8, <2>1, <2>2 DEF PatrolCall, Ended
<1> QED BY <1>6, <1>7, <1>8 DEF Work, CallAt

LEMMA NextPatrolCall ==
  ASSUME TypeOK, OneCoroutine, PatrolCall, CallbackCall, NotYetEnded, Next
  PROVE  PatrolCall'
<1>1. ASSUME Thread("patrol") PROVE PatrolCall'
  <2>1. /\ calls["patrol"].phase # "idle" /\ patrol'.mission = patrol.mission
        /\ calls["patrol"].mission = patrol.mission /\ patrol.mission # 0
    BY <1>1, ThreadFrame DEF PatrolCall, Threads
  <2>2. CASE CallEnds("patrol")
    BY <2>2 DEF CallEnds, PatrolCall, Idle
  <2>3. CASE CallGoesOn("patrol")
    <3>1. /\ patrol' = patrol /\ calls'["patrol"].mission = calls["patrol"].mission
          /\ calls'["patrol"].code = calls["patrol"].code
          /\ calls'["patrol"].phase \in {"snap", "write", "append"}
          /\ calls["patrol"].phase # "insert"
      BY <2>3 DEF CallGoesOn
    <3>2. /\ calls'["patrol"].code = "NOTE" => calls'["patrol"].phase # "append"
      BY <2>3 DEF CallGoesOn
    <3>3. calls'["patrol"].target \in TERMINAL_STATES => calls["patrol"].target \in TERMINAL_STATES
      BY <2>3 DEF CallGoesOn, TERMINAL_STATES
    <3>4. patrol.place = "advance" => calls'["patrol"].target = "EVENT"
      <4>1. patrol.place = "advance" => calls["patrol"].target = "EVENT"
        BY <2>1 DEF PatrolCall
      <4>2. "EVENT" \notin MissionState
        BY DEF MissionState, ActiveStates, TERMINAL_STATES
      <4>3. calls["patrol"].phase = "move" => calls["patrol"].target \in MissionState
        BY <2>1 DEF PatrolCall
      <4> QED BY <2>3, <4>1, <4>2, <4>3 DEF CallGoesOn
    <3>5. patrol.place = "export" /\ patrol.outcome \in Done => calls'["patrol"].target = patrol.outcome
      <4>1. patrol.place = "export" /\ patrol.outcome \in Done =>
              /\ calls["patrol"].target = patrol.outcome
              /\ calls["patrol"].phase = "move" => mem[calls["patrol"].mission].state \notin TERMINAL_STATES
        BY <2>1 DEF PatrolCall
      <4>2. Done \subseteq TERMINAL_STATES
        BY DEF Done, TERMINAL_STATES
      <4> QED BY <2>3, <4>1, <4>2 DEF CallGoesOn
    <3>6. patrol.place # "stored" /\ patrol.place # "verified"
      BY <2>1, <3>1 DEF PatrolCall
    <3>7. /\ patrol.place = "advance" => calls["patrol"].code \in Accounting
          /\ patrol.place = "export" => calls["patrol"].code = Closing[patrol.outcome]
          /\ patrol.place \notin {"advance", "export"} => calls["patrol"].code = "NOTE"
          /\ calls["patrol"].target \in TERMINAL_STATES => patrol.place = "export"
      BY <2>1 DEF PatrolCall
    <3>8. patrol.place \notin {"tell", "finally"}
      BY <2>1 DEF PatrolCall
    <3> QED BY <2>1, <3>1, <3>2, <3>3, <3>4, <3>5, <3>6, <3>7, <3>8 DEF PatrolCall
  <2> QED BY <1>1, <2>2, <2>3, ThreadCall DEF Threads
<1>2. ASSUME Thread("callback") PROVE PatrolCall'
  <2>1. /\ patrol' = patrol /\ calls'["patrol"] = calls["patrol"]
    BY <1>2, ThreadFrame, RaiseFrame DEF Threads
  <2>2. calls["callback"].phase = "move" => calls["callback"].target \notin TERMINAL_STATES
    BY DEF CallbackCall, Idle
  <2>3. \A m \in Missions : mem[m].state \notin TERMINAL_STATES => mem'[m].state \notin TERMINAL_STATES
    BY <1>2, <2>2, ThreadStates DEF Threads
  <2>4. patrol.mission # 0 => patrol.mission \in Missions
    BY ActiveMission DEF OneCoroutine
  <2> QED BY <2>1, <2>3, <2>4 DEF PatrolCall
<1>3. CASE Working
  BY <1>3, WorkCalls DEF Working
<1>4. ASSUME calls'["patrol"] = Idle PROVE PatrolCall'
  BY <1>4 DEF PatrolCall, Idle
<1>5. CASE CreateMission \/ CreateFails \/ Advance \/ ExportReport \/ Tell \/ Leave \/ Crash
  <2>1. Ready => calls["patrol"] = Idle
    BY DEF PatrolCall, Ready
  <2>2. calls'["patrol"] = Idle
    BY <1>5, <2>1, PlaceFrame
  <2> QED BY <1>4, <2>2
<1>6. ASSUME NEW o \in TERMINAL_STATES, Finalize(o), patrol.place # "none",
             o \in Done => patrol.place \notin Ended
      PROVE  PatrolCall'
  <2>1. /\ patrol'.place = "export" /\ patrol'.mission = patrol.mission /\ patrol'.outcome = o
        /\ calls'["patrol"] = Transition(me, o, Closing[o]) /\ mem' = mem
    BY <1>6, FinalizeFrame
  <2>2. me = patrol.mission /\ me # 0
    BY <1>6 DEF OneCoroutine, me
  <2>3. /\ calls'["patrol"].phase = "move" /\ calls'["patrol"].mission = me
        /\ calls'["patrol"].target = o /\ calls'["patrol"].code = Closing[o]
    BY <2>1, CallFields
  <2>4. Closing[o] # "NOTE" /\ o \in MissionState
    BY Closings, States
  <2>5. o \in Done => mem[me].state \notin TERMINAL_STATES
    BY <1>6, <2>2 DEF NotYetEnded
  <2> QED BY <2>1, <2>2, <2>3, <2>4, <2>5 DEF PatrolCall
<1>7. CASE EndOfRoute
  <2>1. patrol.place = "loop" /\ me = patrol.mission
    BY <1>7, PlaceFrame DEF me
  <2>2. CASE Finalize("COMPLETED")
    BY <1>6, <2>1, <2>2 DEF Ended, TERMINAL_STATES
  <2>3. CASE ~Finalize("COMPLETED")
    <3>1. patrol' = patrol /\ calls'["patrol"] = Sync(me)
      BY <1>7, <2>3, PlaceFrame
    <3>2. calls'["patrol"].phase = "snap" /\ calls'["patrol"].mission = me
          /\ calls'["patrol"].code = "NOTE" /\ calls'["patrol"].target = "NONE"
      BY <3>1, CallFields
    <3> QED BY <2>1, <3>1, <3>2, "NONE" \notin TERMINAL_STATES DEF PatrolCall, OneCoroutine, TERMINAL_STATES
  <2> QED BY <2>2, <2>3
<1>8. CASE ExceptClause
  BY <1>6, <1>8, PlaceFrame DEF TERMINAL_STATES, Done
<1>9. CASE patrol.place \in WorkPlaces /\ (Finalize("CANCELLED") \/ Finalize("FAILED"))
  BY <1>6, <1>9 DEF TERMINAL_STATES, WorkPlaces, Ended
<1>10. CASE Started
  <2>1. patrol.mission = 0 /\ calls' = calls
    BY <1>10, StartFrame DEF Started
  <2>2. calls["patrol"] = Idle
    BY <2>1 DEF PatrolCall
  <2> QED BY <1>4, <2>1, <2>2
<1>11. ASSUME NEW kind \in Callbacks, Callback(kind) PROVE PatrolCall'
  BY <1>11, CalledFrame DEF PatrolCall
<1>12. CASE Restart
  BY <1>12, PlaceFrame DEF PatrolCall
<1> QED BY <1>1, <1>2, <1>3, <1>5, <1>7, <1>8, <1>9, <1>10, <1>11, <1>12, NextCases, StartedCases DEF Threads

\* What the client of a mission is told, and the report that comes with it.
LEMMA ToldCases ==
  ASSUME TypeOK, PatrolCall, Next, NEW m \in Missions
  PROVE  /\ \/ client'[m].told = client[m].told
            \/ Tell /\ m = me /\ client'[m].told = patrol.outcome
            \/ Leave /\ patrol.place = "escaped" /\ m = me /\ client'[m].told = "ABORTED"
            \/ Started /\ m = count + 1 /\ client'[m].told = "nothing"
         /\ \/ client'[m].report = client[m].report
            \/ ExportReport /\ m = me /\ client'[m].report = db[m].events
            \/ Started /\ m = count + 1 /\ client'[m].report = {}
<1>0. client[m] \in ClientType
  BY DEF TypeOK
<1>1. CASE client' = client
  BY <1>1
<1>2. CASE Started
  BY <1>2, StartFrame DEF Started
<1>3. CASE ExportReport
  BY <1>0, <1>3 DEF ExportReport, export_report, get_report, TypeOK, ClientType
<1>4. CASE Tell
  BY <1>0, <1>4 DEF Tell, TypeOK, ClientType
<1>5. CASE Leave
  BY <1>0, <1>5 DEF Leave, TypeOK, ClientType
<1>6. \/ client' = client \/ Started \/ ExportReport \/ Tell \/ Leave
  <2>1. \A t \in Threads : Thread(t) => client' = client
    BY ThreadFrame
  <2>2. Working => client' = client
    BY WorkFrame DEF Working
  <2>3. (\E kind \in Callbacks : Callback(kind)) => client' = client
    BY CalledFrame
  <2>4. CreateMission \/ CreateFails \/ Advance \/ EndOfRoute \/ ExceptClause
        \/ Finalize("CANCELLED") \/ Finalize("FAILED") \/ Crash \/ Restart => client' = client
    BY DEF CreateMission, CreateFails, Advance, EndOfRoute, ExceptClause, Finalize, Crash, Restart
  <2> QED BY <2>1, <2>2, <2>3, <2>4, NextCases, StartedCases
<1> QED BY <1>1, <1>2, <1>3, <1>4, <1>5, <1>6

\* The mission the coroutine works on, and the process, change seldom.
LEMMA MissionCases ==
  ASSUME TypeOK, PatrolCall, Next
  PROVE  \/ patrol'.mission = patrol.mission /\ (up' = up \/ Restart)
         \/ Leave /\ patrol'.mission = 0 /\ up' = up
         \/ Started /\ patrol'.mission = count + 1 /\ up' = up
         \/ Crash /\ patrol'.mission = 0 /\ ~up'
<1>1. \A t \in Threads : Thread(t) => patrol'.mission = patrol.mission /\ up' = up
  BY ThreadFrame
<1>2. Working => patrol'.mission = patrol.mission /\ up' = up
  BY WorkFrame DEF Working
<1>3. (\E kind \in Callbacks : Callback(kind)) => patrol'.mission = patrol.mission /\ up' = up
  BY CalledFrame
<1>4. Started => patrol'.mission = count + 1 /\ up' = up
  BY StartFrame DEF Started
<1>5. Finalize("CANCELLED") \/ Finalize("FAILED") \/ Finalize("COMPLETED") =>
        patrol'.mission = patrol.mission /\ up' = up
  BY FinalizeFrame
<1> QED BY <1>1, <1>2, <1>3, <1>4, <1>5, PlaceFrame, PlaceSets, NextCases, StartedCases

\* A mission the coroutine leaves has its answer.
LEMMA LeaveTold ==
  ASSUME TypeOK, OneCoroutine, OutcomeIsStored, Leave
  PROVE  client'[patrol.mission].told # "nothing"
<1>1. patrol.place \in {"finally", "escaped"}
  BY PlaceFrame
<1>2. patrol.mission \in Missions /\ me = patrol.mission
  BY <1>1, ActiveMission
<1> QED BY <1>1, <1>2 DEF Leave, OutcomeIsStored, TypeOK, ClientType

LEMMA NextCallbackCall ==
  ASSUME TypeOK, OneCoroutine, PatrolCall, CallbackCall, OutcomeIsStored, Next
  PROVE  CallbackCall'
<1> DEFINE c == calls["callback"]
<1>0. c \in CallType /\ c.mission \in 0..count /\ count \in Nat /\ patrol \in PatrolType
  BY DEF TypeOK, CallType
<1>1. ASSUME calls'["callback"] = calls["callback"] PROVE CallbackCall'
  <2> SUFFICES ASSUME c.phase # "idle", c.mission # patrol'.mission
               PROVE  client'[c.mission].told # "nothing"
    BY <1>1 DEF CallbackCall
  <2>1. c.mission \in Missions /\ c.mission # count + 1
    BY <1>0 DEF CallbackCall, Missions, TypeOK
  <2>2. CASE c.mission # patrol.mission
    <3>1. client[c.mission].told # "nothing"
      BY <2>2 DEF CallbackCall
    <3>2. patrol.outcome # "nothing"
      BY <1>0 DEF PatrolType, TERMINAL_STATES
    <3> QED BY <2>1, <3>1, <3>2, ToldCases
  <2>3. CASE c.mission = patrol.mission
    <3>1. Leave \/ Crash \/ Started
      BY <2>3, MissionCases
    <3>2. ~Crash
      <4>1. Idle.phase = "idle"
        BY DEF Idle
      <4> QED BY <1>1, <4>1, PlaceFrame
    <3>3. ~Started
      BY <2>1, <2>3, StartFrame DEF Started, Missions
    <3> QED BY <2>3, <3>1, <3>2, <3>3, LeaveTold
  <2> QED BY <2>2, <2>3
<1>2. ASSUME Thread("callback") PROVE CallbackCall'
  <2>1. /\ c.phase # "idle" /\ client' = client /\ patrol'.mission = patrol.mission
        /\ c.mission # 0 /\ c.code = "NOTE" /\ c.target \notin TERMINAL_STATES
    BY <1>2, ThreadFrame DEF CallbackCall, Threads
  <2>2. CASE CallEnds("callback")
    BY <2>2 DEF CallEnds, CallbackCall, Idle
  <2>3. CASE CallGoesOn("callback")
    <3>1. /\ calls'["callback"].mission = c.mission /\ calls'["callback"].code = "NOTE"
          /\ calls'["callback"].phase \in {"snap", "write"}
      BY <2>1, <2>3 DEF CallGoesOn
    <3>2. calls'["callback"].target \notin TERMINAL_STATES
      BY <2>1, <2>3 DEF CallGoesOn, TERMINAL_STATES
    <3>3. c.mission # patrol.mission => client[c.mission].told # "nothing"
      BY <2>1 DEF CallbackCall
    <3> QED BY <2>1, <3>1, <3>2, <3>3 DEF CallbackCall
  <2> QED BY <1>2, <2>2, <2>3, ThreadCall DEF Threads
<1>3. ASSUME NEW kind \in Callbacks, Callback(kind) PROVE CallbackCall'
  <2>1. PICK x : /\ calls'["callback"] = x /\ patrol' = patrol /\ me # 0
                 /\ x = Sync(me) \/ \E s \in Calm : x = Transition(me, s, "NOTE")
    BY <1>3, CalledFrame
  <2>2. /\ x.phase \in {"snap", "move"} /\ x.mission = me /\ x.code = "NOTE"
        /\ x.target \in {"NONE"} \cup Calm
        /\ x.phase = "move" => x.target \in Calm
    BY <2>1, CallFields
  <2>3. x.target \notin TERMINAL_STATES
    BY <2>2 DEF Calm, TERMINAL_STATES
  <2> QED BY <2>1, <2>2, <2>3 DEF CallbackCall, me, Calm
<1>4. CASE Crash
  BY <1>4, PlaceFrame DEF CallbackCall, Idle
<1>5. \/ calls'["callback"] = calls["callback"]
      \/ Thread("callback") \/ Crash \/ \E kind \in Callbacks : Callback(kind)
  <2>1. Thread("patrol") => calls'["callback"] = calls["callback"]
    BY ThreadFrame DEF Threads
  <2>2. Working => calls'["callback"] = calls["callback"]
    BY WorkFrame DEF Working
  <2>3. Started => calls'["callback"] = calls["callback"]
    BY StartFrame DEF Started
  <2>4. Finalize("CANCELLED") \/ Finalize("FAILED") \/ Finalize("COMPLETED") =>
          calls'["callback"] = calls["callback"]
    BY FinalizeFrame
  <2> QED BY <2>1, <2>2, <2>3, <2>4, PlaceFrame, NextCases, StartedCases DEF Threads
<1> QED BY <1>1, <1>2, <1>3, <1>4, <1>5

-----------------------------------------------------------------------------
(* The index and the row.                                                  *)

\* Where an index of memory comes from.
LEMMA IndexCases ==
  ASSUME TypeOK, PatrolCall, Next, NEW m \in Missions
  PROVE  \/ mem'[m].index = mem[m].index \/ mem'[m].index = 0
         \/ Advance /\ m = me /\ mem'[m].index = mem[m].index + 1
         \/ Started /\ m = count + 1 /\ mem'[m].index = client'[m].first
<1>0. mem[m] \in RuntimeType
  BY DEF TypeOK
<1>1. \A t \in Threads : Thread(t) => mem'[m].index = mem[m].index
  BY ThreadFrame
<1>2. Working => mem' = mem
  BY WorkFrame DEF Working
<1>3. Started => mem'[m].index = mem[m].index \/ (m = count + 1 /\ mem'[m].index = client'[m].first)
  BY StartFrame DEF Started
<1>4. Finalize("CANCELLED") \/ Finalize("FAILED") \/ Finalize("COMPLETED") => mem' = mem
  BY FinalizeFrame
<1>5. (\E kind \in Callbacks : Callback(kind)) => mem' = mem
  BY CalledFrame
<1>6. EndOfRoute => mem'[m].index \in {mem[m].index, 0}
  <2>1. mem' = [mem EXCEPT ![me].index = 0] => mem'[m].index \in {mem[m].index, 0}
    BY <1>0 DEF TypeOK, RuntimeType
  <2>2. EndOfRoute => mem' = mem \/ mem' = [mem EXCEPT ![me].index = 0]
    BY <1>4, PlaceFrame
  <2> QED BY <2>1, <2>2
<1>7. Advance => mem'[m].index = mem[m].index \/ (m = me /\ mem'[m].index = mem[m].index + 1)
  BY <1>0 DEF Advance, TypeOK, RuntimeType
<1>8. CreateMission \/ CreateFails \/ ExportReport \/ Tell \/ Leave \/ ExceptClause \/ Restart
      => mem' = mem
  BY <1>4, PlaceFrame DEF CreateMission, CreateFails, ExportReport, Tell
<1>9. Crash => mem'[m].index = 0
  BY DEF Crash, NoRuntime
<1> QED BY <1>1, <1>2, <1>3, <1>4, <1>5, <1>6, <1>7, <1>8, <1>9, NextCases, StartedCases

\* The call of a thread changes with its own step or is begun anew.
LEMMA CallCases ==
  ASSUME TypeOK, PatrolCall, Next, NEW t \in Threads
  PROVE  calls'[t] = calls[t] \/ Thread(t) \/ calls'[t].phase \in {"idle", "snap", "move", "insert"}
<1>0. Idle.phase = "idle"
  BY DEF Idle
<1>1. \A u \in Threads : Thread(u) => calls'[t] = calls[t] \/ Thread(t)
  BY ThreadFrame
<1>2. ASSUME NEW p \in WorkPlaces, NEW c, Work(p, c)
      PROVE  calls'["callback"] = calls["callback"]
             /\ calls'["patrol"].phase \in {"idle", "snap", "move", "insert"}
  <2>1. \A x, k, s : /\ Sync(me).phase = "snap" /\ Record(me, k).phase = "snap"
                     /\ Transition(me, s, k).phase = "move" /\ Insert(me, x).phase = "insert"
    BY CallFields
  <2>2. c.phase \in {"idle", "snap", "move", "insert"}
    BY <1>0, <1>2, <2>1 DEF Work, CallAt, NoteCall
  <2> QED BY <1>2, <2>2, WorkFrame
<1>3. Started => calls' = calls
  BY StartFrame DEF Started
<1>4. ASSUME NEW o, Finalize(o)
      PROVE  calls'["callback"] = calls["callback"] /\ calls'["patrol"].phase = "move"
  BY <1>4, FinalizeFrame, CallFields
<1>5. ASSUME NEW kind \in Callbacks, Callback(kind)
      PROVE  calls'["patrol"] = calls["patrol"] /\ calls'["callback"].phase \in {"snap", "move"}
  BY <1>5, CalledFrame, CallFields
<1>6. EndOfRoute => /\ calls'["callback"] = calls["callback"]
                    /\ calls'["patrol"].phase \in {"move", "snap"}
  <2>1. Sync(me).phase = "snap"
    BY CallFields
  <2> QED BY <1>4, <2>1, PlaceFrame
<1>7. ExceptClause => Finalize("FAILED")
  BY PlaceFrame
<1>8. CreateMission \/ CreateFails \/ Advance \/ ExportReport \/ Tell =>
        calls'["callback"] = calls["callback"] /\ calls'["patrol"] \in {calls["patrol"], Idle}
  BY PlaceFrame
<1>9. Leave \/ Restart => calls' = calls
  BY PlaceFrame
<1>10. Crash => calls'["callback"] = Idle /\ calls'["patrol"] = Idle
  BY PlaceFrame
<1> QED BY <1>0, <1>1, <1>2, <1>3, <1>4, <1>5, <1>6, <1>7, <1>8, <1>9, <1>10, NextCases,
   StartedCases DEF Threads, Working

LEMMA NextIndexIsBacked ==
  ASSUME TypeOK, OneCoroutine, PatrolCall, CallbackCall, IndexIsBacked, TypeOK', Next
  PROVE  IndexIsBacked'
<1>0. count \in Nat /\ \A m \in Missions : /\ client[m].first \in Nat
                                           /\ client'[m].first \in Nat
                                           /\ mem[m].index \in Nat
  BY DEF TypeOK, ClientType, RuntimeType, Index
<1>1. ASSUME NEW m \in Missions PROVE BackedNext(m, mem'[m].index)
  <2>0. Backed(m, mem[m].index)
    BY DEF IndexIsBacked
  <2>1. CASE Started /\ m = count + 1 /\ mem'[m].index = client'[m].first
    BY <1>0, <2>1 DEF BackedNext
  <2>2. CASE mem'[m].index = 0
    BY <1>0, <2>2 DEF BackedNext
  <2>3. CASE Advance /\ m = me /\ mem'[m].index = mem[m].index + 1
    <3>1. patrol.place = "advance" /\ calls["patrol"].phase = "idle"
      BY <2>3, PlaceFrame DEF Ready
    <3>2. \E code \in Accounting : <<code, mem[m].index>> \in db[m].events
      BY <2>3, <3>1 DEF IndexIsBacked, me
    <3>3. db' = db /\ client' = client
      BY <2>3 DEF Advance
    <3>4. \A j \in client[m].first..mem[m].index :
            j \in client[m].first..(mem[m].index - 1) \/ j = mem[m].index
      BY <1>0
    <3>5. \A j \in client[m].first..mem[m].index :
            \E code \in Accounting : <<code, j>> \in db[m].events
      BY <2>0, <3>2, <3>4 DEF Backed
    <3>6. mem'[m].index - 1 = mem[m].index
      BY <1>0, <2>3
    <3>7. client'[m].first..(mem'[m].index - 1) = client[m].first..mem[m].index
      BY <3>3, <3>6
    <3> QED BY <3>3, <3>5, <3>7 DEF BackedNext
  <2>4. CASE mem'[m].index = mem[m].index /\ (m # count + 1 \/ ~Started)
    BY <2>0, <2>4, BackedStays
  <2>5. CASE Started /\ m = count + 1
    <3>1. mem'[m].index = client'[m].first
      BY <2>5, StartFrame DEF Started
    <3> QED BY <2>1, <2>5, <3>1
  <2> QED BY <2>1, <2>2, <2>3, <2>4, <2>5, IndexCases
<1>2. ASSUME NEW t \in Threads, calls'[t].phase = "write"
      PROVE  BackedNext(calls'[t].mission, calls'[t].row.index)
  <2>1. CASE calls'[t] = calls[t]
    <3>1. calls[t].mission \in Missions /\ calls[t].mission # count + 1
      BY <1>0, <1>2, <2>1 DEF PatrolCall, CallbackCall, TypeOK, CallType, Missions, Threads
    <3>2. Backed(calls[t].mission, calls[t].row.index)
      BY <1>2, <2>1 DEF IndexIsBacked, Threads
    <3>3. BackedNext(calls[t].mission, calls[t].row.index)
      BY <3>1, <3>2, BackedStays
    <3> QED BY <2>1, <3>3
  <2>2. CASE Thread(t)
    <3>1. CallGoesOn(t)
      BY <1>2, <2>2, ThreadCall DEF CallEnds, Idle
    <3>2. /\ calls'[t].mission = calls[t].mission
          /\ calls'[t].row.index = mem[calls[t].mission].index
      BY <1>2, <3>1 DEF CallGoesOn
    <3>3. calls[t].mission \in Missions
      BY <2>2, ThreadFrame DEF PatrolCall, CallbackCall, TypeOK, CallType, Missions, Threads
    <3>4. mem'[calls[t].mission].index = mem[calls[t].mission].index
      BY <2>2, <3>3, ThreadFrame
    <3>5. BackedNext(calls[t].mission, mem'[calls[t].mission].index)
      BY <1>1, <3>3
    <3> QED BY <3>2, <3>4, <3>5
  <2> QED BY <1>2, <2>1, <2>2, CallCases
<1>3. ASSUME patrol'.place = "advance", calls'["patrol"].phase = "idle"
      PROVE  \E code \in Accounting :
               <<code, mem'[patrol'.mission].index>> \in db'[patrol'.mission].events
  <2>1. CASE Thread("patrol")
    <3>1. /\ patrol' = patrol /\ patrol.place = "advance" /\ calls["patrol"].phase # "idle"
      BY <1>3, <2>1, ThreadFrame, RaiseFrame DEF Threads
    <3>2. /\ calls["patrol"].mission = patrol.mission /\ calls["patrol"].code \in Accounting
          /\ calls["patrol"].target = "EVENT" /\ calls["patrol"].phase # "insert"
      BY <3>1 DEF PatrolCall
    <3>3. ~Raise("patrol")
      BY <1>3, <3>1, RaiseFrame DEF Threads
    <3>4. Append("patrol")
      <4>1. "NOTE" \notin Accounting
        BY DEF Accounting
      <4> QED BY <1>3, <2>1, <3>2, <3>3, <4>1, ThreadCall DEF CallEnds, CallGoesOn, Threads
    <3>5. patrol.mission \in Missions
      BY <3>1, ActiveMission
    <3>6. /\ db'[patrol.mission].events =
               db[patrol.mission].events \cup {<<calls["patrol"].code, mem[patrol.mission].index>>}
          /\ mem' = mem
      BY <3>2, <3>4, <3>5 DEF Append, TypeOK, RecordsType
    <3> QED BY <3>1, <3>2, <3>6
  <2>2. CASE Thread("callback")
    <3>1. patrol' = patrol /\ calls'["patrol"] = calls["patrol"]
      BY <2>2, ThreadFrame, RaiseFrame DEF Threads
    <3>2. patrol.mission \in Missions
      BY <1>3, <3>1, ActiveMission
    <3>3. mem'[patrol.mission].index = mem[patrol.mission].index
          /\ db[patrol.mission].events \subseteq db'[patrol.mission].events
      BY <2>2, <3>2, ThreadFrame, RowCases DEF Threads
    <3> QED BY <1>3, <3>1, <3>3 DEF IndexIsBacked
  <2>3. CASE Working
    <3>0. PICK p \in WorkPlaces : \E c : Work(p, c)
      BY <2>3 DEF Working
    <3>1. PICK c : p \in WorkPlaces /\ Work(p, c)
      BY <3>0
    <3>2. p = "advance" /\ c = calls'["patrol"]
      BY <1>3, <3>1, WorkFrame
    <3>3. c.phase = "snap"
      BY <3>1, <3>2, CallFields DEF Work, CallAt
    <3> QED BY <1>3, <3>2, <3>3
  <2>4. CASE patrol' = patrol /\ calls'["patrol"] = calls["patrol"] /\ mem' = mem
    <3>1. patrol.mission \in Missions
      BY <1>3, <2>4, ActiveMission
    <3>2. db[patrol.mission].events \subseteq db'[patrol.mission].events
      BY <3>1, RowCases
    <3> QED BY <1>3, <2>4, <3>2 DEF IndexIsBacked
  <2>5. CASE CreateMission \/ CreateFails \/ Advance \/ ExportReport \/ Tell \/ Leave
             \/ EndOfRoute \/ Finalize("CANCELLED") \/ Finalize("FAILED") \/ ExceptClause
             \/ Started \/ Crash
    <3>1. Started => patrol'.place = "create"
      BY StartFrame DEF Started
    <3>2. Finalize("CANCELLED") \/ Finalize("FAILED") \/ Finalize("COMPLETED") =>
            patrol'.place = "export"
      BY FinalizeFrame
    <3> QED BY <1>3, <2>5, <3>1, <3>2, PlaceFrame, PlaceSets
  <2>6. CASE Restart
    BY <2>4, <2>6, PlaceFrame
  <2>7. CASE \E kind \in Callbacks : Callback(kind)
    BY <2>4, <2>7, CalledFrame
  <2> QED BY <2>1, <2>2, <2>3, <2>5, <2>6, <2>7, NextCases, StartedCases DEF Threads
<1> QED BY <1>1, <1>2, <1>3 DEF IndexIsBacked, Backed, BackedNext, Threads

LEMMA NextRowIsBacked ==
  ASSUME TypeOK, OneCoroutine, PatrolCall, CallbackCall, IndexIsBacked, RowIsBacked,
         TypeOK', Next
  PROVE  RowIsBacked'
<1>0. count \in Nat /\ \A m \in Missions : client'[m].first \in Nat
  BY DEF TypeOK, ClientType, Index
<1> SUFFICES ASSUME NEW m \in Missions, db'[m].row # NoRow
             PROVE  BackedNext(m, db'[m].row.index)
  BY DEF RowIsBacked, Backed, BackedNext
<1>1. CASE RowKept(m)
  <2>1. db[m].row # NoRow /\ Backed(m, db[m].row.index)
    BY <1>1 DEF RowKept, RowIsBacked
  <2>2. m # count + 1
    BY <1>0, <2>1 DEF OneCoroutine, NoRecords, Missions
  <2> QED BY <1>1, <2>1, <2>2, BackedStays DEF RowKept
<1>2. ASSUME NEW t \in Threads, RowWritten(m, t) PROVE BackedNext(m, db'[m].row.index)
  <2>1. Backed(m, calls[t].row.index)
    BY <1>2 DEF RowWritten, IndexIsBacked, Threads
  <2>2. m # count + 1
    BY <1>0, <1>2 DEF RowWritten, OneCoroutine, NoRecords, Missions
  <2> QED BY <1>2, <2>1, <2>2, BackedStays DEF RowWritten
<1>3. CASE RowCreated(m)
  BY <1>0, <1>3 DEF RowCreated, BackedNext
<1>4. CASE RowParked(m)
  <2>1. db[m].row # NoRow /\ db'[m].row.index = db[m].row.index
    <3>1. db[m].row \in Row
      BY <1>4 DEF RowParked, Interrupted, TypeOK, RecordsType
    <3> QED BY <1>4, <3>1 DEF RowParked, Interrupted, Row
  <2>2. m # count + 1
    BY <1>0, <2>1 DEF OneCoroutine, NoRecords, Missions
  <2> QED BY <2>1, <2>2, BackedStays DEF RowIsBacked
<1> QED BY <1>1, <1>2, <1>3, <1>4, RowCases

-----------------------------------------------------------------------------
(* What the client is told.                                                *)

\* The place of the coroutine before a step that brings it to the end.
LEMMA EndCases ==
  ASSUME TypeOK, PatrolCall, Next
  PROVE  /\ patrol'.place = "export" =>
              \/ patrol.place = "export" /\ patrol' = patrol
              \/ calls'["patrol"].phase # "idle"
         /\ patrol'.place = "tell" => ExportReport \/ patrol' = patrol
         /\ patrol'.place = "finally" => Tell \/ patrol' = patrol
<1>1. \A t \in Threads : Thread(t) => patrol' = patrol \/ patrol'.place \in {"except", "escaped"}
  BY ThreadFrame, RaiseFrame DEF Threads
<1>2. Working => patrol'.place \notin Ended
  BY WorkFrame, PlaceSets DEF Working, WorkPlaces
<1>3. (\E kind \in Callbacks : Callback(kind)) => patrol' = patrol
  BY CalledFrame
<1>4. Started => patrol'.place = "create"
  BY StartFrame DEF Started
<1>5. ASSUME NEW o, Finalize(o)
      PROVE  patrol'.place = "export" /\ calls'["patrol"].phase = "move"
  BY <1>5, FinalizeFrame, CallFields
<1> QED BY <1>1, <1>2, <1>3, <1>4, <1>5, PlaceFrame, PlaceSets, NextCases, StartedCases DEF Ended

LEMMA NextOutcomeIsStored ==
  ASSUME TypeOK, OneCoroutine, PatrolCall, CallbackCall, OutcomeIsStored, Next
  PROVE  OutcomeIsStored'
<1>1. ASSUME patrol'.place \notin {"none", "tell", "finally"}
      PROVE  client'[patrol'.mission].report = {}
  <2>1. CASE Started
    BY <2>1, StartFrame DEF Started
  <2>2. CASE ~Started
    <3>1. ~Leave /\ ~Crash /\ ~Tell /\ ~ExportReport
      BY <1>1, PlaceFrame, PlaceSets
    <3>2. patrol'.mission = patrol.mission
      BY <2>2, <3>1, MissionCases
    <3>3. patrol.place \notin {"none", "tell", "finally"}
      <4>1. \A t \in Threads : Thread(t) =>
              patrol.place \notin {"none", "tell", "finally"} \/ patrol' = patrol
        <5>1. ASSUME Thread("patrol") PROVE patrol.place \notin {"none", "tell", "finally"}
          BY <5>1, ThreadFrame DEF PatrolCall, OneCoroutine, Threads
        <5>2. Thread("callback") => patrol' = patrol
          BY ThreadFrame, RaiseFrame DEF Threads
        <5> QED BY <5>1, <5>2 DEF Threads
      <4>2. Working => patrol.place \in WorkPlaces
        BY DEF Working, Work
      <4>3. (\E kind \in Callbacks : Callback(kind)) => patrol' = patrol
        BY CalledFrame
      <4> QED BY <1>1, <2>2, <3>1, <4>1, <4>2, <4>3, PlaceFrame, NextCases, StartedCases
              DEF WorkPlaces, Ended
    <3>4. patrol.mission \in Missions
      BY <3>3, ActiveMission
    <3> QED BY <2>2, <3>1, <3>2, <3>3, <3>4, ToldCases DEF OutcomeIsStored
  <2> QED BY <2>1, <2>2
<1>2. ASSUME patrol'.place \in {"export", "tell"}, calls'["patrol"].phase = "idle",
             patrol'.outcome \in Done
      PROVE  /\ Has(db'[patrol'.mission].events, {Closing[patrol'.outcome]})
             /\ client'[patrol'.mission].report # {} =>
                  Has(client'[patrol'.mission].report, {Closing[patrol'.outcome]})
  <2>1. patrol.place # "none" /\ patrol.mission \in Missions
        /\ patrol.mission = patrol'.mission /\ patrol.outcome = patrol'.outcome
    <3>1. ExportReport \/ patrol' = patrol
      BY <1>2, EndCases
    <3>2. patrol.place # "none" /\ patrol'.mission = patrol.mission
          /\ patrol'.outcome = patrol.outcome
      BY <1>2, <3>1, PlaceFrame
    <3> QED BY <3>2, ActiveMission
  <2> DEFINE m == patrol.mission
  <2>2. CASE calls["patrol"].phase = "idle"
    <3>1. ExportReport \/ patrol' = patrol
      BY <1>2, EndCases
    <3>2. patrol.place \in {"export", "tell"}
      BY <1>2, <3>1, PlaceFrame
    <3>3. /\ Has(db[m].events, {Closing[patrol.outcome]})
          /\ client[m].report # {} => Has(client[m].report, {Closing[patrol.outcome]})
      BY <1>2, <2>1, <2>2, <3>2 DEF OutcomeIsStored
    <3>4. /\ db[m].events \subseteq db'[m].events
          /\ client'[m].report \in {client[m].report, db[m].events, {}}
      BY <2>1, RowCases, ToldCases
    <3> QED BY <2>1, <3>3, <3>4 DEF Has
  <2>3. CASE calls["patrol"].phase # "idle"
    <3>1. patrol' = patrol /\ patrol.place = "export"
      <4>1. ~ExportReport
        BY <2>3, PlaceFrame DEF Ready
      <4>2. patrol.place # "tell"
        BY <2>3 DEF PatrolCall
      <4> QED BY <1>2, <4>1, <4>2, EndCases
    <3>2. Thread("patrol")
      <4>1. Thread("callback") => calls'["patrol"] = calls["patrol"]
        BY ThreadFrame DEF Threads
      <4>2. (\E kind \in Callbacks : Callback(kind)) => calls'["patrol"] = calls["patrol"]
        BY CalledFrame
      <4>3. Restart => calls' = calls
        BY PlaceFrame
      <4>4. Working => patrol.place # "export"
        BY DEF Working, Work, WorkPlaces, Ended
      <4>5. Started => patrol.mission = 0
        BY StartFrame DEF Started
      <4>6. patrol.mission # 0 /\ ~Ready
        BY <2>1, <2>3 DEF Missions, Ready
      <4>7. ~Crash
        BY <3>1, PlaceFrame, PlaceSets
      <4>8. ~(CreateMission \/ CreateFails \/ Advance \/ ExportReport \/ Tell \/ Leave
              \/ EndOfRoute \/ ExceptClause)
        BY <4>6, PlaceFrame
      <4> QED BY <1>2, <2>3, <3>1, <4>1, <4>2, <4>3, <4>4, <4>5, <4>6, <4>7, <4>8, NextCases,
              StartedCases DEF Threads
    <3>3. /\ calls["patrol"].mission = m /\ calls["patrol"].code = Closing[patrol.outcome]
          /\ calls["patrol"].target = patrol.outcome
          /\ calls["patrol"].phase = "insert" => calls["patrol"].target \in {"checkin", "failed", "inspection"}
      BY <1>2, <2>1, <2>3, <3>1 DEF PatrolCall
    <3>4. ~Raise("patrol")
      BY <3>1, RaiseFrame DEF Threads
    <3>5. patrol.outcome \in TERMINAL_STATES /\ patrol.outcome \notin {"NONE", "checkin", "failed", "inspection"}
      BY <1>2, <2>1 DEF Done, TERMINAL_STATES
    <3>6. calls["patrol"].code # "NOTE"
      BY <3>3, <3>5, Closings
    <3>7. Append("patrol")
      BY <1>2, <3>2, <3>3, <3>4, <3>5, <3>6, ThreadCall DEF CallEnds, CallGoesOn, Threads
    <3>8. /\ db'[m].events = db[m].events \cup {<<calls["patrol"].code, mem[m].index>>}
          /\ client' = client
      BY <2>1, <3>3, <3>7 DEF Append, TypeOK, RecordsType
    <3>9. client[m].report = {}
      BY <3>1 DEF OutcomeIsStored
    <3>10. Has(db'[m].events, {calls["patrol"].code})
      <4>1. <<calls["patrol"].code, mem[m].index>> \in db'[m].events
        BY <3>8
      <4> QED BY <4>1 DEF Has
    <3> QED BY <2>1, <3>3, <3>8, <3>9, <3>10
  <2> QED BY <2>2, <2>3
<1>3. ASSUME patrol'.place = "finally" PROVE client'[patrol'.mission].told # "nothing"
  <2>1. CASE Tell
    <3>1. patrol.place = "tell" /\ patrol'.mission = patrol.mission
      BY <2>1, PlaceFrame
    <3>2. me \in Missions /\ me = patrol.mission
      BY <3>1, ActiveMission
    <3>3. client'[me].told = patrol.outcome
      BY <2>1, <3>2 DEF Tell, TypeOK, ClientType
    <3>4. patrol.outcome # "nothing"
      BY DEF TypeOK, PatrolType, TERMINAL_STATES
    <3> QED BY <3>1, <3>2, <3>3, <3>4
  <2>2. CASE patrol' = patrol
    <3>1. patrol.place = "finally" /\ client[patrol.mission].told # "nothing"
      BY <1>3, <2>2 DEF OutcomeIsStored
    <3>2. patrol.mission \in Missions
      BY <3>1, ActiveMission
    <3>3. ~Started
      BY <1>3, StartFrame DEF Started
    <3>4. ~Tell
      BY <3>1, PlaceFrame
    <3> QED BY <2>2, <3>1, <3>2, <3>3, <3>4, ToldCases
  <2> QED BY <1>3, <2>1, <2>2, EndCases
<1> QED BY <1>1, <1>2, <1>3 DEF OutcomeIsStored

LEMMA NextToldIsStored ==
  ASSUME TypeOK, OneCoroutine, PatrolCall, OutcomeIsStored, ToldIsStored, Next
  PROVE  ToldIsStored'
<1> SUFFICES ASSUME NEW m \in Missions, client'[m].told \in Done
             PROVE  /\ Has(db'[m].events, {Closing[client'[m].told]})
                    /\ client'[m].report # {} =>
                         Has(client'[m].report, {Closing[client'[m].told]})
  BY DEF ToldIsStored, Done
<1>1. /\ db[m].events \subseteq db'[m].events
      /\ client'[m].report \in {client[m].report, db[m].events, {}}
  BY RowCases, ToldCases
<1>2. CASE client'[m].told = client[m].told
  BY <1>1, <1>2 DEF ToldIsStored, Has, Done
<1>3. CASE Tell /\ m = me /\ client'[m].told = patrol.outcome
  <2>1. /\ patrol.place = "tell" /\ calls["patrol"].phase = "idle" /\ me = patrol.mission
        /\ ~Started /\ ~ExportReport
    <3>1. patrol.place = "tell" /\ calls["patrol"].phase = "idle" /\ me = patrol.mission
      BY <1>3, PlaceFrame DEF Ready, me
    <3>2. patrol.mission # 0
      BY <3>1 DEF OneCoroutine
    <3> QED BY <3>1, <3>2, StartFrame, PlaceFrame DEF Started
  <2>2. client'[m].report = client[m].report
    BY <2>1, ToldCases
  <2>3. /\ Has(db[m].events, {Closing[patrol.outcome]})
        /\ client[m].report # {} => Has(client[m].report, {Closing[patrol.outcome]})
    BY <1>3, <2>1 DEF OutcomeIsStored
  <2> QED BY <1>1, <1>3, <2>2, <2>3 DEF Has
<1> QED BY <1>2, <1>3, ToldCases DEF Done

LEMMA NextNothingIsForgotten ==
  ASSUME TypeOK, OneCoroutine, PatrolCall, CallbackCall, OutcomeIsStored, NothingIsForgotten, Next
  PROVE  NothingIsForgotten'
<1>0. count \in Nat
  BY DEF TypeOK
<1> SUFFICES ASSUME NEW m \in Missions, up', m # patrol'.mission,
                    client'[m].told = "nothing", db'[m].row # NoRow
             PROVE  \/ /\ db'[m].row.state = "WAITING_OPERATOR"
                       /\ Has(db'[m].events, {"PROCESS_RESTART_RECOVERY"})
                    \/ db'[m].row.state \in TERMINAL_STATES
  BY DEF NothingIsForgotten, Recoverable
<1>1. CASE Restart
  <2>1. CASE Interrupted(db[m].row)
    <3>1. /\ db[m] \in RecordsType /\ db[m].row # NoRow
          /\ db'[m] = [db[m] EXCEPT !.row.state = "WAITING_OPERATOR",
                            !.events = @ \cup {<<"PROCESS_RESTART_RECOVERY", 0>>}]
      BY <1>1, <2>1 DEF Restart, Interrupted, TypeOK
    <3>2. db[m].row \in Row
      BY <3>1 DEF RecordsType
    <3>3. /\ db'[m].row.state = "WAITING_OPERATOR"
          /\ <<"PROCESS_RESTART_RECOVERY", 0>> \in db'[m].events
      BY <3>1, <3>2 DEF RecordsType, Row
    <3> QED BY <3>3 DEF Has
  <2>2. CASE ~Interrupted(db[m].row)
    <3>1. db'[m] = db[m]
      BY <1>1, <2>2 DEF Restart
    <3> QED BY <2>2, <3>1 DEF Interrupted
  <2> QED BY <2>1, <2>2
<1>2. CASE ~Restart
  <2>1. up /\ m # patrol.mission
    <3>1. up
      BY <1>2, MissionCases, StartFrame DEF Leave, At, Started
    <3>2. CASE Leave
      BY <3>1, <3>2, LeaveTold
    <3>3. CASE Started
      BY <3>1, <3>3, StartFrame DEF Started, Missions
    <3> QED BY <1>2, <3>1, <3>2, <3>3, MissionCases
  <2>2. client[m].told = "nothing"
    <3>1. patrol.outcome # "nothing"
      BY DEF TypeOK, PatrolType, TERMINAL_STATES
    <3>2. CASE Started
      <4>1. m # count + 1
        BY <3>2, StartFrame DEF Started
      <4> QED BY <3>1, <4>1, ToldCases
    <3>3. CASE ~Started
      BY <3>1, <3>3, ToldCases
    <3> QED BY <3>2, <3>3
  <2>3. RowKept(m)
    <3>1. ASSUME NEW t \in Threads, RowWritten(m, t) PROVE FALSE
      <4>1. calls[t].phase # "idle" /\ calls[t].mission = m
        BY <3>1, ThreadFrame DEF RowWritten
      <4>2. t = "callback"
        BY <2>1, <4>1 DEF PatrolCall, Threads
      <4> QED BY <2>1, <2>2, <4>1, <4>2 DEF CallbackCall
    <3>2. ~RowCreated(m)
      BY <2>1 DEF RowCreated, me
    <3>3. ~RowParked(m)
      BY <1>2 DEF RowParked
    <3> QED BY <3>1, <3>2, <3>3, RowCases
  <2>4. db[m].row # NoRow /\ db[m].events \subseteq db'[m].events
    BY <2>3, RowCases DEF RowKept
  <2>5. Recoverable(m) \/ db[m].row.state \in TERMINAL_STATES
    BY <2>1, <2>2, <2>4 DEF NothingIsForgotten
  <2> QED BY <2>3, <2>4, <2>5 DEF RowKept, Recoverable, Has
<1> QED BY <1>1, <1>2

-----------------------------------------------------------------------------
(* The whole route.                                                        *)

LEMMA OutcomeCases ==
  ASSUME TypeOK, PatrolCall, Next
  PROVE  \/ patrol'.mission = patrol.mission /\ patrol'.outcome = patrol.outcome
         \/ patrol'.mission = patrol.mission /\ patrol'.outcome # "COMPLETED"
         \/ /\ patrol'.mission = patrol.mission /\ EndOfRoute
            /\ mem[me].index = N /\ patrol.place = "loop"
         \/ patrol'.mission = 0 \/ patrol'.outcome = "FAILED"
<1>1. \A t \in Threads : Thread(t) =>
        patrol'.mission = patrol.mission /\ patrol'.outcome = patrol.outcome
  BY ThreadFrame
<1>2. Working => patrol'.mission = patrol.mission /\ patrol'.outcome = patrol.outcome
  BY WorkFrame DEF Working
<1>3. (\E kind \in Callbacks : Callback(kind)) => patrol' = patrol
  BY CalledFrame
<1>4. Started => patrol'.outcome = "FAILED"
  BY StartFrame DEF Started
<1>5. Finalize("CANCELLED") \/ Finalize("FAILED") =>
        patrol'.mission = patrol.mission /\ patrol'.outcome # "COMPLETED"
  BY FinalizeFrame
<1>6. Finalize("COMPLETED") => patrol'.mission = patrol.mission
  BY FinalizeFrame
<1>7. EndOfRoute => /\ patrol'.mission = patrol.mission
                    /\ mem[me].index = N /\ patrol.place = "loop"
  BY <1>6, PlaceFrame
<1> QED BY <1>1, <1>2, <1>3, <1>4, <1>5, <1>7, PlaceFrame, PlaceSets, NextCases, StartedCases

\* A mission that continues another begins where that one's row stood.
LEMMA ChainBegins ==
  ASSUME TypeOK, RowIsBacked, WholeRoute, NEW m \in Missions, Recoverable(m)
  PROVE  /\ client[m].base..(db[m].row.index - 1) \subseteq client[m].covered \cup Accounted(m)
         /\ db[m].row.index \in Index
<1>1. /\ client[m].base \in Nat /\ client[m].first \in Nat /\ db[m].row.index \in Index
  BY DEF TypeOK, ClientType, RecordsType, Recoverable, Row, Index
<1>2. Backed(m, db[m].row.index)
  BY DEF RowIsBacked, Recoverable
<1>3. client[m].base..(client[m].first - 1) \subseteq client[m].covered
  BY DEF WholeRoute
<1>4. ASSUME NEW j \in client[m].first..(db[m].row.index - 1) PROVE j \in Accounted(m)
  <2>1. j \in 0..(N - 1)
    BY <1>1 DEF Index
  <2>2. PICK code \in Accounting : <<code, j>> \in db[m].events
    BY <1>2 DEF Backed
  <2> QED BY <2>1, <2>2 DEF Accounted
<1>5. \A j \in client[m].base..(db[m].row.index - 1) :
        j \in client[m].base..(client[m].first - 1) \/ j \in client[m].first..(db[m].row.index - 1)
  BY <1>1 DEF Index
<1> QED BY <1>1, <1>3, <1>4, <1>5

LEMMA NextWholeRoute ==
  ASSUME TypeOK, OneCoroutine, PatrolCall, IndexIsBacked, RowIsBacked, WholeRoute, Next
  PROVE  WholeRoute'
<1>0. /\ count \in Nat
      /\ \A m \in Missions : client[m].base \in Nat /\ client[m].first \in Nat
  BY DEF TypeOK, ClientType, Index
<1>1. ASSUME patrol'.mission # 0, patrol'.outcome = "COMPLETED"
      PROVE  BackedNext(patrol'.mission, N)
  <2>1. ~Started
    BY <1>1, StartFrame DEF Started
  <2>2. patrol'.mission = patrol.mission /\ patrol.mission # 0
        /\ Backed(patrol.mission, N)
    <3>1. CASE patrol'.mission = patrol.mission /\ patrol'.outcome = patrol.outcome
      BY <1>1, <3>1 DEF WholeRoute
    <3>2. CASE patrol'.mission = patrol.mission /\ mem[me].index = N /\ patrol.place = "loop"
      BY <1>1, <3>2, ActiveMission DEF IndexIsBacked
    <3> QED BY <1>1, <3>1, <3>2, OutcomeCases
  <2>3. patrol.mission \in Missions
    BY <2>2, ActiveMission DEF OneCoroutine
  <2> QED BY <2>1, <2>2, <2>3, BackedStays
<1>2. ASSUME NEW m \in Missions, client'[m].told = "COMPLETED" PROVE BackedNext(m, N)
  <2>1. CASE client'[m].told = client[m].told
    <3>1. Backed(m, N)
      BY <1>2, <2>1 DEF WholeRoute
    <3>2. m # count + 1
      BY <1>0, <1>2, <2>1 DEF OneCoroutine, NoClient, Missions
    <3> QED BY <3>1, <3>2, BackedStays
  <2>2. CASE Tell /\ m = me /\ client'[m].told = patrol.outcome
    <3>1. patrol.place = "tell" /\ patrol.outcome = "COMPLETED"
      BY <1>2, <2>2, PlaceFrame
    <3>2. patrol.mission = m /\ m = count /\ m # count + 1 /\ m # 0
      BY <1>0, <2>2, <3>1, ActiveMission DEF Missions
    <3>3. Backed(m, N)
      BY <3>1, <3>2 DEF WholeRoute
    <3> QED BY <3>2, <3>3, BackedStays
  <2> QED BY <1>2, <2>1, <2>2, ToldCases
<1>3. ASSUME NEW m \in Missions
      PROVE  client'[m].base..(client'[m].first - 1) \subseteq client'[m].covered
  <2>1. CASE /\ client'[m].first = client[m].first /\ client'[m].base = client[m].base
             /\ client'[m].covered = client[m].covered
    BY <2>1 DEF WholeRoute
  <2>2. CASE m = count + 1
    <3>1. ASSUME NEW start \in Starts, NEW loop \in Loops, StartFresh(start, loop)
          PROVE  client'[m].base..(client'[m].first - 1) \subseteq client'[m].covered
      <4>1. client'[m].first = start /\ client'[m].base = start /\ start \in Nat
        BY <2>2, <3>1, StartFrame DEF StartFresh
      <4> QED BY <4>1
    <3>2. ASSUME NEW k \in Missions, NEW loop \in Loops, RetryCurrent(k, loop)
          PROVE  client'[m].base..(client'[m].first - 1) \subseteq client'[m].covered
      <4>1. /\ client'[m].first = db[k].row.index /\ client'[m].base = client[k].base
            /\ client'[m].covered = client[k].covered \cup Accounted(k)
        BY <2>2, <3>2, StartFrame DEF RetryCurrent
      <4> QED BY <3>2, <4>1, ChainBegins DEF RetryCurrent
    <3>3. ASSUME NEW k \in Missions, NEW loop \in Loops, ContinueNext(k, loop)
          PROVE  client'[m].base..(client'[m].first - 1) \subseteq client'[m].covered
      <4>1. /\ client'[m].first = db[k].row.index + 1 /\ client'[m].base = client[k].base
            /\ client'[m].covered = client[k].covered \cup Accounted(k) \cup {db[k].row.index}
        BY <2>2, <3>3, StartFrame DEF ContinueNext
      <4>2. /\ client[k].base..(db[k].row.index - 1) \subseteq client[k].covered \cup Accounted(k)
            /\ db[k].row.index \in Nat
        BY <3>3, ChainBegins DEF ContinueNext, Index
      <4>3. \A j \in client[k].base..(db[k].row.index + 1 - 1) :
              j \in client[k].base..(db[k].row.index - 1) \/ j = db[k].row.index
        BY <1>0, <4>2
      <4> QED BY <4>1, <4>2, <4>3
    <3>4. \/ \E start \in Starts, loop \in Loops : StartFresh(start, loop)
          \/ \E k \in Missions, loop \in Loops : RetryCurrent(k, loop) \/ ContinueNext(k, loop)
          \/ ~Started
      <4>1. Started => patrol.mission = 0 /\ patrol'.mission = count + 1 /\ count' = count + 1
        BY StartFrame DEF Started
      <4>2. \A t \in Threads : Thread(t) => count' = count
        BY ThreadFrame
      <4>3. Working => count' = count
        BY WorkFrame DEF Working
      <4>4. (\E kind \in Callbacks : Callback(kind)) => count' = count
        BY CalledFrame
      <4>5. Finalize("FAILED") \/ Finalize("CANCELLED") \/ ExceptClause => count' = count
        BY FinalizeFrame, PlaceFrame
      <4>6. CreateMission \/ CreateFails \/ Advance \/ ExportReport \/ Tell \/ Leave
            \/ EndOfRoute \/ Crash \/ Restart => count' = count
        BY PlaceFrame
      <4>7. Started => count' # count
        BY <1>0, <4>1
      <4> QED BY <4>2, <4>3, <4>4, <4>5, <4>6, <4>7, NextCases
    <3>5. CASE ~Started
      BY <2>1, <3>5, ClientKept
    <3> QED BY <3>1, <3>2, <3>3, <3>4, <3>5
  <2> QED BY <2>1, <2>2, ClientKept
<1> QED BY <1>1, <1>2, <1>3 DEF WholeRoute, Backed, BackedNext

-----------------------------------------------------------------------------
(* The evidence of a checkpoint.                                           *)

\* What a step of the coroutine within a checkpoint does to what is known of
\* it: p and c as in Work, e and d the excuse and the number of tasks done.
EvidenceStep(p, c, e, d) ==
  \/ p \notin Underway
  \/ p = "driving" /\ d = 0
  \/ /\ p \in {"arrived", "checkin", "verified", "unverified"} /\ d = patrol.done
     /\ patrol.place \in Underway \ Evidenced
  \/ p = "inspect" /\ patrol.place = "verified" /\ d = patrol.done /\ e = patrol.excused
  \/ p = "inspect" /\ patrol.place = "unverified" /\ d = patrol.done /\ e
  \/ p = "inspect" /\ patrol.place = "settle" /\ d = patrol.done + 1 /\ e = patrol.excused
  \/ /\ p \in {"capturing", "result", "stored", "settle"} /\ d = patrol.done /\ e = patrol.excused
     /\ patrol.place \in {"inspect", "capturing", "result", "stored"}
     /\ p = "settle" => patrol.place = "stored"
  \/ /\ p = "recording" /\ patrol.place = "inspect" /\ d = patrol.done /\ e = patrol.excused
     /\ patrol.done = Tasks[my.index]
  \/ /\ p = "advance" /\ patrol.place = "recording" /\ d = patrol.done /\ e = patrol.excused
     /\ c.code = IF patrol.excused THEN "CHECKPOINT_COMPLETED_WITH_CHECKIN_FAILURE"
                 ELSE "CHECKPOINT_COMPLETED"
  \/ p = "advance" /\ c.code = "CHECKPOINT_SKIPPED"

LEMMA CallEvidence ==
  ASSUME TypeOK, NEW p, NEW c, Call(p, c)
  PROVE  /\ patrol'.place = p /\ patrol'.excused = patrol.excused /\ patrol'.done = patrol.done
         /\ calls'["patrol"] = c
  BY DEF Call, TypeOK, PatrolType

LEMMA EnterEvidence ==
  ASSUME TypeOK, NEW p, Enter(p)
  PROVE  patrol'.place = p /\ patrol'.excused = patrol.excused /\ patrol'.done = patrol.done
  BY DEF Enter, TypeOK, PatrolType

Stepped == EvidenceStep(patrol'.place, calls'["patrol"], patrol'.excused, patrol'.done)

LEMMA CoroutineEvidence ==
  ASSUME TypeOK, Coroutine
  PROVE  Stepped
<1> DEFINE On == {"localize", "loop", "await", "waiting", "blocked"}
<1>0. Underway \cap On = {}
  BY DEF Underway, Evidenced
<1>1. CASE Prepare \/ Localize \/ AwaitResume \/ Retry \/ Blocked \/ Again \/ Resume \/ Pause
  <2>1. patrol'.place \in On
    BY <1>1, CallEvidence, EnterEvidence
       DEF Prepare, Localize, AwaitResume, Retry, Blocked, Again, Resume, Pause
  <2> QED BY <1>0, <2>1 DEF Stepped, EvidenceStep
<1>2. CASE \E s \in {"ESTOPPED", "WAITING_OPERATOR"} : Stop(s)
  <2>1. patrol'.place = "await"
    BY <1>2, CallEvidence DEF Stop
  <2> QED BY <1>0, <2>1 DEF Stepped, EvidenceStep
<1>3. CASE Navigate
  BY <1>3 DEF Navigate, TypeOK, PatrolType, Stepped, EvidenceStep
<1>4. CASE Arrive \/ Verify \/ CheckedIn \/ CheckinFails \/ CheckinRetry
  <2>1. /\ patrol'.place \in {"arrived", "checkin", "verified", "unverified"}
        /\ patrol'.done = patrol.done
        /\ patrol.place \in {"driving", "arrived", "checkin", "unverified"}
    BY <1>4, CallEvidence DEF Arrive, Verify, CheckedIn, CheckinFails, CheckinRetry, At
  <2>2. {"driving", "arrived", "checkin", "unverified"} \subseteq Underway \ Evidenced
    BY DEF Underway, Evidenced
  <2> QED BY <2>1, <2>2 DEF Stepped, EvidenceStep
<1>5. CASE NotRequired \/ Verified
  <2>1. /\ patrol'.place = "inspect" /\ patrol.place = "verified"
        /\ patrol'.excused = patrol.excused /\ patrol'.done = patrol.done
    BY <1>5, CallEvidence, EnterEvidence DEF NotRequired, Verified, At
  <2> QED BY <2>1 DEF Stepped, EvidenceStep
<1>6. CASE ContinueUnverified
  BY <1>6 DEF ContinueUnverified, At, TypeOK, PatrolType, Stepped, EvidenceStep
<1>7. CASE TaskDone
  BY <1>7 DEF TaskDone, At, TypeOK, PatrolType, Stepped, EvidenceStep
<1>8. CASE Capture \/ Analyse \/ RecordInspection \/ ReportInspection
  <2>1. /\ patrol'.place \in {"capturing", "result", "stored", "settle"}
        /\ patrol'.done = patrol.done /\ patrol'.excused = patrol.excused
        /\ patrol.place \in {"inspect", "capturing", "result", "stored"}
        /\ patrol'.place = "settle" => patrol.place = "stored"
    BY <1>8, CallEvidence, EnterEvidence
       DEF Capture, Analyse, RecordInspection, ReportInspection, At
  <2> QED BY <2>1 DEF Stepped, EvidenceStep
<1>9. CASE EnterRecording
  <2>1. /\ patrol'.place = "recording" /\ patrol.place = "inspect"
        /\ patrol'.done = patrol.done /\ patrol'.excused = patrol.excused
        /\ patrol.done = Tasks[my.index]
    BY <1>9, CallEvidence DEF EnterRecording, At
  <2> QED BY <2>1 DEF Stepped, EvidenceStep
<1>10. CASE RecordCheckpoint
  <2>1. /\ patrol'.place = "advance" /\ patrol.place = "recording"
        /\ patrol'.done = patrol.done /\ patrol'.excused = patrol.excused
        /\ calls'["patrol"] = Record(me,
             IF patrol.excused THEN "CHECKPOINT_COMPLETED_WITH_CHECKIN_FAILURE"
             ELSE "CHECKPOINT_COMPLETED")
    BY <1>10, CallEvidence DEF RecordCheckpoint, At
  <2> QED BY <2>1, CallFields DEF Stepped, EvidenceStep
<1>11. CASE Skip
  <2>1. patrol'.place = "advance" /\ calls'["patrol"] = Record(me, "CHECKPOINT_SKIPPED")
    BY <1>11, CallEvidence DEF Skip
  <2> QED BY <2>1, CallFields DEF Stepped, EvidenceStep
<1>12. CASE EndOfRoute \/ Cancelled \/ GiveUp \/ ExceptClause
  <2>1. \A o : Finalize(o) => patrol'.place = "export"
    BY FinalizeFrame
  <2>2. patrol'.place \in {"export", "loop"}
    BY <1>12, <2>1, PlaceFrame DEF Cancelled, GiveUp, ExceptClause
  <2>3. patrol'.place \notin Underway
    BY <2>2, PlaceSets
  <2> QED BY <2>3 DEF Stepped, EvidenceStep
<1>13. CASE CreateMission \/ CreateFails \/ Advance \/ ExportReport \/ Tell \/ Leave
  <2>1. patrol'.place \in {"prepare", "except", "escaped", "loop", "tell", "finally", "none"}
    BY <1>13, PlaceFrame, PlaceSets
  <2>2. patrol'.place \notin Underway
    BY <2>1, PlaceSets
  <2> QED BY <2>2 DEF Stepped, EvidenceStep
<1> QED BY <1>1, <1>2, <1>3, <1>4, <1>5, <1>6, <1>7, <1>8, <1>9, <1>10, <1>11, <1>12, <1>13
        DEF Coroutine

\* The stored results only grow.
LEMMA EvidenceGrows ==
  ASSUME TypeOK, PatrolCall, Next, NEW m \in Missions
  PROVE  /\ db[m].checkins \subseteq db'[m].checkins
         /\ db[m].inspections \subseteq db'[m].inspections
<1>0. db[m] \in RecordsType
  BY DEF TypeOK
<1>1. ASSUME NEW t \in Threads, Thread(t)
      PROVE  /\ db[m].checkins \subseteq db'[m].checkins
             /\ db[m].inspections \subseteq db'[m].inspections
  <2>1. CASE m # calls[t].mission
    BY <1>1, <2>1, RecordsFrame
  <2>2. CASE m = calls[t].mission /\ StoreResult(t)
    BY <1>0, <2>2 DEF StoreResult, TypeOK, RecordsType
  <2>3. CASE m = calls[t].mission /\ Append(t)
    BY <1>0, <2>3 DEF Append, TypeOK, RecordsType
  <2>4. CASE m = calls[t].mission /\ db' = WriteRow(calls[t])
    BY <1>0, <2>4 DEF WriteRow, TypeOK, RecordsType
  <2> QED BY <1>1, <2>1, <2>2, <2>3, <2>4 DEF Thread, Move, Snap, Write, TransactionFails
<1>2. CASE CreateMission
  BY <1>0, <1>2 DEF CreateMission, TypeOK, RecordsType
<1>3. CASE Restart
  BY <1>0, <1>3 DEF Restart, TypeOK, RecordsType
<1>4. CASE Quiet
  BY <1>4, QuietKeeps
<1> QED BY <1>1, <1>2, <1>3, <1>4, NextDb

\* What the end of an insert has stored.
LEMMA InsertEnds ==
  ASSUME TypeOK, OneCoroutine, PatrolCall, Thread("patrol"), patrol' = patrol,
         patrol.place \in {"verified", "stored"}, calls'["patrol"].phase = "idle"
  PROVE  LET m == patrol.mission
             i == mem[patrol.mission].index
         IN /\ patrol.place = "verified" => i \in db'[m].checkins
            /\ patrol.place = "stored" => <<i, patrol.done + 1>> \in db'[m].inspections
<1>1. /\ calls["patrol"].phase = "insert" /\ calls["patrol"].mission = patrol.mission
      /\ patrol.place = "verified" => calls["patrol"].target = "checkin"
      /\ patrol.place = "stored" => calls["patrol"].target = "inspection"
  <2>1. calls["patrol"].phase # "idle"
    BY ThreadFrame DEF Threads
  <2> QED BY <2>1 DEF PatrolCall
<1>2. ~Raise("patrol")
  BY RaiseFrame DEF Threads
<1>3. StoreResult("patrol")
  BY <1>1, <1>2, ThreadCall DEF CallEnds, CallGoesOn, Threads
<1>4. patrol.mission \in Missions /\ db[patrol.mission] \in RecordsType
  BY ActiveMission
<1> QED BY <1>1, <1>3, <1>4 DEF StoreResult, TypeOK, RecordsType

\* The parts of CheckpointIsEvidenced, of the step's start and of its end.
Evidence(pl, ph, code, ex, dn, i, checkins, inspections) ==
  /\ pl = "verified" /\ ph = "idle" => i \in checkins
  /\ pl \in Evidenced \ {"advance"} \/ code \in Accounting \ {"CHECKPOINT_SKIPPED"} =>
       /\ ~ex => i \in checkins
       /\ \A k \in 1..dn : <<i, k>> \in inspections
  /\ (pl = "stored" /\ ph = "idle") \/ pl = "settle" => <<i, dn + 1>> \in inspections
  /\ pl = "recording" \/ code \in Accounting \ {"CHECKPOINT_SKIPPED"} => dn = Tasks[i]
  /\ code = "CHECKPOINT_COMPLETED" => ~ex
  /\ pl \in Underway \ Evidenced => dn = 0

LEMMA EvidenceForm ==
  /\ CheckpointIsEvidenced <=>
       Evidence(patrol.place, calls["patrol"].phase, calls["patrol"].code, patrol.excused,
                patrol.done, mem[patrol.mission].index, db[patrol.mission].checkins,
                db[patrol.mission].inspections)
  /\ CheckpointIsEvidenced' <=>
       Evidence(patrol'.place, calls'["patrol"].phase, calls'["patrol"].code,
                patrol'.excused, patrol'.done, mem'[patrol'.mission].index,
                db'[patrol'.mission].checkins, db'[patrol'.mission].inspections)
  BY DEF CheckpointIsEvidenced, Evidence

\* Outside a checkpoint nothing is asked.
LEMMA NoEvidence ==
  ASSUME NEW pl, NEW ph, NEW code, NEW ex, NEW dn, NEW i, NEW ci, NEW ins,
         pl \notin Underway, code \notin Accounting
  PROVE  Evidence(pl, ph, code, ex, dn, i, ci, ins)
<1>1. Evidenced \subseteq Underway /\ "verified" \in Underway /\ "stored" \in Underway
      /\ "settle" \in Underway /\ "recording" \in Underway
  BY DEF Underway, Evidenced
<1>2. "CHECKPOINT_COMPLETED" \in Accounting
  BY DEF Accounting
<1> QED BY <1>1, <1>2 DEF Evidence

\* Within a checkpoint a step keeps what is known of it.
LEMMA StepEvidence ==
  ASSUME TypeOK, NEW i, NEW ci, NEW ins, NEW p \in Underway, NEW c, NEW e, NEW d,
         my.index = i,
         Evidence(patrol.place, "idle", "NOTE", patrol.excused, patrol.done, i, ci, ins),
         EvidenceStep(p, c, e, d),
         p # "advance" => c.code = "NOTE",
         p \in {"verified", "stored"} => c.phase # "idle"
  PROVE  Evidence(p, c.phase, c.code, e, d, i, ci, ins)
<1>0. /\ "NOTE" \notin Accounting /\ "NOTE" # "CHECKPOINT_COMPLETED"
      /\ patrol.done \in Nat /\ patrol.excused \in BOOLEAN
  BY DEF Accounting, TypeOK, PatrolType
<1>1. CASE p = "driving" /\ d = 0
  <2>1. c.code = "NOTE"
    BY <1>1
  <2> QED BY <1>0, <1>1, <2>1 DEF Evidence, Evidenced
<1>2. CASE /\ p \in {"arrived", "checkin", "verified", "unverified"} /\ d = patrol.done
           /\ patrol.place \in Underway \ Evidenced
  <2>1. c.code = "NOTE" /\ d = 0
    BY <1>2 DEF Evidence
  <2> QED BY <1>0, <1>2, <2>1 DEF Evidence, Evidenced
<1>3. CASE p = "inspect" /\ patrol.place = "verified" /\ d = patrol.done /\ e = patrol.excused
  <2>1. c.code = "NOTE" /\ d = 0 /\ i \in ci
    BY <1>3 DEF Evidence, Underway, Evidenced
  <2> QED BY <1>0, <1>3, <2>1 DEF Evidence, Evidenced
<1>4. CASE p = "inspect" /\ patrol.place = "unverified" /\ d = patrol.done /\ e
  <2>1. c.code = "NOTE" /\ d = 0
    BY <1>4 DEF Evidence, Underway, Evidenced
  <2> QED BY <1>0, <1>4, <2>1 DEF Evidence, Evidenced
<1>5. CASE p = "inspect" /\ patrol.place = "settle" /\ d = patrol.done + 1 /\ e = patrol.excused
  <2>1. /\ c.code = "NOTE" /\ ~e => i \in ci
        /\ \A k \in 1..patrol.done : <<i, k>> \in ins
        /\ <<i, patrol.done + 1>> \in ins
    BY <1>5 DEF Evidence, Evidenced
  <2>2. \A k \in 1..(patrol.done + 1) : k \in 1..patrol.done \/ k = patrol.done + 1
    BY <1>0
  <2>3. \A k \in 1..d : <<i, k>> \in ins
    BY <1>5, <2>1, <2>2
  <2>4. ~e => i \in ci
    BY <1>5 DEF Evidence, Evidenced
  <2>5. c.code = "NOTE"
    BY <1>5
  <2> QED BY <1>0, <1>5, <2>3, <2>4, <2>5 DEF Evidence, Evidenced
<1>6. CASE /\ p \in {"capturing", "result", "stored", "settle"} /\ d = patrol.done
           /\ e = patrol.excused
           /\ patrol.place \in {"inspect", "capturing", "result", "stored"}
           /\ p = "settle" => patrol.place = "stored"
  <2>1. c.code = "NOTE"
    BY <1>6
  <2>2. /\ ~e => i \in ci
        /\ \A k \in 1..d : <<i, k>> \in ins
        /\ p = "settle" => <<i, d + 1>> \in ins
    BY <1>6 DEF Evidence, Evidenced
  <2> QED BY <1>0, <1>6, <2>1, <2>2 DEF Evidence, Evidenced
<1>7. CASE /\ p = "recording" /\ patrol.place = "inspect" /\ d = patrol.done /\ e = patrol.excused
           /\ patrol.done = Tasks[my.index]
  <2>1. c.code = "NOTE"
    BY <1>7
  <2>2. /\ ~e => i \in ci
        /\ \A k \in 1..d : <<i, k>> \in ins
        /\ d = Tasks[i]
    BY <1>7 DEF Evidence, Evidenced
  <2> QED BY <1>0, <1>7, <2>1, <2>2 DEF Evidence, Evidenced
<1>8. CASE /\ p = "advance" /\ patrol.place = "recording" /\ d = patrol.done /\ e = patrol.excused
           /\ c.code = IF patrol.excused THEN "CHECKPOINT_COMPLETED_WITH_CHECKIN_FAILURE"
                       ELSE "CHECKPOINT_COMPLETED"
  <2>1. /\ ~e => i \in ci
        /\ \A k \in 1..d : <<i, k>> \in ins
        /\ d = Tasks[i]
        /\ c.code = "CHECKPOINT_COMPLETED" => ~e
    BY <1>0, <1>8 DEF Evidence, Evidenced
  <2> QED BY <1>8, <2>1 DEF Evidence, Evidenced
<1>9. CASE p = "advance" /\ c.code = "CHECKPOINT_SKIPPED"
  BY <1>9 DEF Evidence, Evidenced
<1> QED BY <1>1, <1>2, <1>3, <1>4, <1>5, <1>6, <1>7, <1>8, <1>9 DEF EvidenceStep

LEMMA NextCheckpointIsEvidenced ==
  ASSUME TypeOK, OneCoroutine, PatrolCall, CheckpointIsEvidenced, Next
  PROVE  CheckpointIsEvidenced'
<1> DEFINE m == patrol.mission
           i == mem[patrol.mission].index
           ci == db[patrol.mission].checkins
           ins == db[patrol.mission].inspections
           old == Evidence(patrol.place, calls["patrol"].phase, calls["patrol"].code,
                           patrol.excused, patrol.done, i, ci, ins)
           new == Evidence(patrol'.place, calls'["patrol"].phase, calls'["patrol"].code,
                           patrol'.excused, patrol'.done, mem'[patrol'.mission].index,
                           db'[patrol'.mission].checkins, db'[patrol'.mission].inspections)
<1> SUFFICES new
  BY EvidenceForm
<1>0. old /\ "NOTE" \notin Accounting /\ Idle.code = "NOTE" /\ Idle.phase = "idle"
  BY EvidenceForm DEF Accounting, Idle
<1>1. ASSUME patrol'.place \notin Underway, calls'["patrol"].code \notin Accounting PROVE new
  BY <1>1, NoEvidence
<1>2. ASSUME patrol' = patrol, calls'["patrol"] = calls["patrol"],
             patrol.mission \in Missions => mem'[m].index = mem[m].index
      PROVE  new
  <2>1. CASE patrol.mission \in Missions
    BY <1>0, <1>2, <2>1, EvidenceGrows DEF Evidence
  <2>2. CASE patrol.mission \notin Missions
    <3>1. patrol.place = "none"
      BY <2>2, ActiveMission
    <3>2. calls["patrol"].code \notin Accounting
      <4>1. patrol.mission = 0
        BY <3>1 DEF OneCoroutine
      <4> QED BY <1>0, <4>1 DEF PatrolCall
    <3> QED BY <1>1, <1>2, <3>1, <3>2, PlaceSets
  <2> QED BY <2>1, <2>2
<1>3. CASE Thread("callback")
  BY <1>2, <1>3, ThreadFrame, RaiseFrame DEF Threads
<1>4. CASE Thread("patrol")
  <2>1. calls["patrol"].phase # "idle"
    BY <1>4, ThreadFrame DEF Threads
  <2>2. CASE patrol'.place \in {"except", "escaped"} /\ Raise("patrol")
    <3>1. calls'["patrol"] = Idle
      BY <2>2, RaiseFrame DEF Threads
    <3> QED BY <1>0, <1>1, <2>2, <3>1, PlaceSets
  <2>3. CASE patrol' = patrol
    <3>1. m \in Missions
      BY <2>1, ActiveMission DEF PatrolCall, OneCoroutine
    <3>2. mem'[m].index = i /\ ci \subseteq db'[m].checkins /\ ins \subseteq db'[m].inspections
      BY <1>4, <3>1, ThreadFrame, EvidenceGrows DEF Threads
    <3>3. calls'["patrol"].code \in {calls["patrol"].code, "NOTE"}
      BY <1>0, <1>4, ThreadCall DEF CallEnds, CallGoesOn, Threads
    <3>4. patrol.place = "verified" /\ calls'["patrol"].phase = "idle" => i \in db'[m].checkins
      BY <1>4, <2>3, InsertEnds
    <3>5. patrol.place = "stored" /\ calls'["patrol"].phase = "idle" =>
            <<i, patrol.done + 1>> \in db'[m].inspections
      BY <1>4, <2>3, InsertEnds
    <3>6. "NOTE" # "CHECKPOINT_COMPLETED"
      OBVIOUS
    <3>7. patrol.place \in Evidenced \ {"advance"}
            \/ calls'["patrol"].code \in Accounting \ {"CHECKPOINT_SKIPPED"} =>
            /\ ~patrol.excused => i \in ci
            /\ \A k \in 1..patrol.done : <<i, k>> \in ins
      BY <1>0, <3>3 DEF Evidence
    <3>8. patrol.place = "recording"
            \/ calls'["patrol"].code \in Accounting \ {"CHECKPOINT_SKIPPED"} =>
            patrol.done = Tasks[i]
      BY <1>0, <3>3 DEF Evidence
    <3>9. /\ calls'["patrol"].code = "CHECKPOINT_COMPLETED" => ~patrol.excused
          /\ patrol.place \in Underway \ Evidenced => patrol.done = 0
          /\ patrol.place = "settle" => <<i, patrol.done + 1>> \in ins
      BY <1>0, <3>3, <3>6 DEF Evidence
    <3> QED BY <2>3, <3>2, <3>4, <3>5, <3>7, <3>8, <3>9 DEF Evidence
  <2> QED BY <1>4, <2>2, <2>3, ThreadFrame, RaiseFrame DEF Threads
<1>5. CASE Coroutine /\ Working
  <2>0. PICK p \in WorkPlaces : \E c : Work(p, c)
    BY <1>5 DEF Working
  <2>1. PICK c : p \in WorkPlaces /\ Work(p, c)
    BY <2>0
  <2>2. /\ patrol'.place = p /\ calls'["patrol"] = c /\ patrol'.mission = m
        /\ mem' = mem /\ db' = db
    BY <2>1, WorkFrame
  <2>3. calls["patrol"] = Idle
    BY <2>1 DEF Work, PatrolCall
  <2>4. PatrolCall'
    BY <2>1, WorkCalls
  <2>5. p # "advance" => c.code = "NOTE"
    BY <1>0, <2>2, <2>4, PlaceSets DEF PatrolCall, WorkPlaces, Ended
  <2>6. p \in {"verified", "stored"} => c.phase = "insert"
    BY <2>1, CallFields DEF Work, CallAt
  <2>7. p \in {"verified", "stored"} => c.phase # "idle"
    BY <2>6
  <2>8. Evidence(patrol.place, "idle", "NOTE", patrol.excused, patrol.done, i, ci, ins)
    BY <1>0, <2>3
  <2>9. CASE p \notin Underway
    BY <1>0, <1>1, <2>2, <2>5, <2>9, PlaceSets DEF Underway, Evidenced
  <2>10. CASE p \in Underway
    <3>1. Stepped
      BY <1>5, CoroutineEvidence
    <3>2. EvidenceStep(p, c, patrol'.excused, patrol'.done)
      BY <2>2, <3>1 DEF Stepped
    <3>3. Evidence(p, c.phase, c.code, patrol'.excused, patrol'.done, i, ci, ins)
      <4>1. my.index = i
        BY DEF my
      <4> HIDE DEF i, ci, ins
      <4> DEFINE e == patrol'.excused
                 d == patrol'.done
      <4>2. EvidenceStep(p, c, e, d)
        BY <3>2
      <4> HIDE DEF e, d
      <4>3. Evidence(p, c.phase, c.code, e, d, i, ci, ins)
        BY <2>5, <2>7, <2>8, <2>10, <4>1, <4>2, StepEvidence
      <4> QED BY <4>3 DEF e, d
    <3> QED BY <2>2, <3>3
  <2> QED BY <2>9, <2>10
<1>6. CASE Advance
  <2>1. calls'["patrol"] = Idle /\ patrol'.place = "loop"
    BY <1>6, PlaceFrame DEF PatrolCall, Ready
  <2> QED BY <1>0, <1>1, <2>1, PlaceSets
<1>7. CASE CreateMission \/ CreateFails \/ ExportReport \/ Tell \/ Leave \/ Crash
  <2>1. calls'["patrol"] = Idle
    BY <1>7, PlaceFrame DEF PatrolCall, Ready
  <2>2. patrol'.place \in {"prepare", "except", "escaped", "tell", "finally", "none"}
    BY <1>7, PlaceFrame, PlaceSets
  <2> QED BY <1>0, <1>1, <2>1, <2>2, PlaceSets
<1>8. ASSUME NEW o \in TERMINAL_STATES, Finalize(o) PROVE new
  <2>1. patrol'.place = "export" /\ calls'["patrol"].code = Closing[o]
    BY <1>8, FinalizeFrame, CallFields
  <2> QED BY <1>1, <2>1, PlaceSets, Closings
<1>9. CASE EndOfRoute
  <2>1. CASE ~Finalize("COMPLETED")
    <3>1. patrol'.place = "loop" /\ calls'["patrol"] = Sync(me)
      BY <1>9, <2>1, PlaceFrame
    <3> QED BY <1>0, <1>1, <3>1, PlaceSets, CallFields
  <2> QED BY <1>8, <2>1 DEF TERMINAL_STATES
<1>10. CASE ExceptClause \/ Finalize("CANCELLED") \/ Finalize("FAILED")
  BY <1>8, <1>10, PlaceFrame DEF TERMINAL_STATES
<1>11. CASE Started
  <2>1. patrol.mission = 0 /\ calls' = calls /\ patrol'.place = "create"
    BY <1>11, StartFrame DEF Started
  <2>2. calls["patrol"] = Idle
    BY <2>1 DEF PatrolCall
  <2> QED BY <1>0, <1>1, <2>1, <2>2, PlaceSets
<1>12. CASE \E kind \in Callbacks : Callback(kind)
  BY <1>2, <1>12, CalledFrame
<1>13. CASE Restart
  BY <1>2, <1>13, PlaceFrame
<1> QED BY <1>3, <1>4, <1>5, <1>6, <1>7, <1>9, <1>10, <1>11, <1>12, <1>13, NextCases,
   StartedCases DEF Threads

\* Only the append of the coroutine's record enters a checkpoint.
LEMMA EventCases ==
  ASSUME TypeOK, OneCoroutine, PatrolCall, CallbackCall, Next, NEW m \in Missions,
         NEW e \in db'[m].events
  PROVE  \/ e \in db[m].events
         \/ e[1] \notin Accounting
         \/ /\ Append("patrol") /\ m = patrol.mission
            /\ e = <<calls["patrol"].code, mem[m].index>>
<1>0. db[m] \in RecordsType
  BY DEF TypeOK
<1>1. CASE Thread("patrol")
  <2>1. calls["patrol"].mission = patrol.mission
    BY <1>1, ThreadFrame DEF PatrolCall, Threads
  <2> QED BY <1>1, <2>1, ThreadRecords DEF Threads
<1>2. CASE Thread("callback")
  <2>1. calls["callback"].phase # "append"
    BY DEF CallbackCall, Idle
  <2>2. ~Append("callback")
    BY <2>1 DEF Append
  <2> QED BY <1>2, <2>2, ThreadRecords DEF Threads
<1>3. CASE CreateMission
  BY <1>0, <1>3 DEF CreateMission, TypeOK, RecordsType
<1>4. CASE Restart
  <2>1. \/ db'[m] = db[m]
        \/ db'[m] = [db[m] EXCEPT !.row.state = "WAITING_OPERATOR",
                                  !.events = @ \cup {<<"PROCESS_RESTART_RECOVERY", 0>>}]
    BY <1>4 DEF Restart
  <2>2. "PROCESS_RESTART_RECOVERY" \notin Accounting
    BY DEF Accounting
  <2>3. db'[m].events \subseteq db[m].events \cup {<<"PROCESS_RESTART_RECOVERY", 0>>}
    BY <1>0, <2>1 DEF RecordsType
  <2>4. CASE e = <<"PROCESS_RESTART_RECOVERY", 0>>
    BY <2>2, <2>4
  <2> QED BY <2>3, <2>4
<1>5. CASE Quiet
  BY <1>5, QuietKeeps
<1> QED BY <1>1, <1>2, <1>3, <1>4, <1>5, NextDb DEF Threads

LEMMA NextCompletionIsEvidenced ==
  ASSUME TypeOK, OneCoroutine, PatrolCall, CallbackCall, CheckpointIsEvidenced,
         CompletionIsEvidenced, Next
  PROVE  CompletionIsEvidenced'
<1> SUFFICES ASSUME NEW m \in Missions, NEW e \in db'[m].events
             PROVE  /\ e[1] = "CHECKPOINT_COMPLETED" => e[2] \in db'[m].checkins
                    /\ e[1] \in Accounting \ {"CHECKPOINT_SKIPPED"} =>
                         \A k \in 1..Tasks[e[2]] : <<e[2], k>> \in db'[m].inspections
  BY DEF CompletionIsEvidenced
<1>0. /\ db[m].checkins \subseteq db'[m].checkins
      /\ db[m].inspections \subseteq db'[m].inspections
      /\ "CHECKPOINT_COMPLETED" \in Accounting
  BY EvidenceGrows DEF Accounting
<1>1. CASE e \in db[m].events
  BY <1>0, <1>1 DEF CompletionIsEvidenced
<1>2. CASE e[1] \notin Accounting
  BY <1>0, <1>2
<1>3. CASE /\ Append("patrol") /\ m = patrol.mission
           /\ e = <<calls["patrol"].code, mem[m].index>>
  <2>1. e[1] = calls["patrol"].code /\ e[2] = mem[m].index
    BY <1>3
  <2>2. e[1] \in Accounting \ {"CHECKPOINT_SKIPPED"} =>
          /\ ~patrol.excused => e[2] \in db[m].checkins
          /\ \A k \in 1..patrol.done : <<e[2], k>> \in db[m].inspections
          /\ patrol.done = Tasks[e[2]]
    BY <1>3, <2>1 DEF CheckpointIsEvidenced
  <2>3. e[1] = "CHECKPOINT_COMPLETED" => ~patrol.excused
    BY <2>1 DEF CheckpointIsEvidenced
  <2> QED BY <1>0, <2>2, <2>3
<1> QED BY <1>1, <1>2, <1>3, EventCases

-----------------------------------------------------------------------------
(* The theorems.                                                           *)

LEMMA InitIInv == Init => IInv
<1> SUFFICES ASSUME Init PROVE IInv
  OBVIOUS
<1>1. /\ patrol = NoPatrol /\ mem = [m \in Missions |-> NoRuntime]
      /\ calls = [t \in {"patrol", "callback"} |-> Idle]
      /\ db = [m \in Missions |-> NoRecords] /\ client = [m \in Missions |-> NoClient]
      /\ up = TRUE /\ count = 0 /\ disturbed = 0
  BY DEF Init
<1>2. /\ calls["patrol"] = Idle /\ calls["callback"] = Idle
      /\ Idle.phase = "idle" /\ Idle.code = "NOTE"
  BY <1>1 DEF Idle
<1>3. /\ patrol.place = "none" /\ patrol.mission = 0 /\ patrol.outcome = "FAILED"
      /\ \A m \in Missions : /\ db[m] = NoRecords /\ db[m].row = NoRow /\ db[m].events = {}
                             /\ client[m] = NoClient /\ client[m].told = "nothing"
                             /\ mem[m].index = 0 /\ client[m].first = 0 /\ client[m].base = 0
                             /\ client[m].covered = {}
  BY <1>1 DEF NoPatrol, NoRecords, NoClient, NoRuntime
<1>4. TypeOK
  <2>1. 0 \in 0..count /\ count \in 0..MaxMissions
    BY <1>1
  <2>2. NoPatrol \in PatrolType
    BY <2>1 DEF NoPatrol, PatrolType, Places, TERMINAL_STATES
  <2>3. Idle \in CallType
    BY <2>1 DEF Idle, CallType, Phases, Targets, Codes
  <2>4. NoRuntime \in RuntimeType
    BY States DEF NoRuntime, RuntimeType, Index
  <2>5. NoRecords \in RecordsType
    BY DEF NoRecords, RecordsType
  <2>6. NoClient \in ClientType
    BY DEF NoClient, ClientType, Index
  <2> QED BY <1>1, <2>1, <2>2, <2>3, <2>4, <2>5, <2>6 DEF TypeOK
<1>5. IndexInRoute
  BY <1>3, PlaceSets DEF IndexInRoute
<1>6. OneCoroutine
  BY <1>1, <1>3 DEF OneCoroutine
<1>7. PatrolCall /\ CallbackCall
  BY <1>2 DEF PatrolCall, CallbackCall
<1>8. NotYetEnded
  BY <1>3 DEF NotYetEnded, Ended
<1>9. \A m \in Missions : Backed(m, 0)
  BY <1>3 DEF Backed
<1>10. IndexIsBacked /\ RowIsBacked
  BY <1>2, <1>3, <1>9 DEF IndexIsBacked, RowIsBacked
<1>11. OutcomeIsStored /\ ToldIsStored
  BY <1>3 DEF OutcomeIsStored, ToldIsStored
<1>12. WholeRoute
  BY <1>3 DEF WholeRoute
<1>13. NothingIsForgotten
  BY <1>3 DEF NothingIsForgotten
<1>14. CheckpointIsEvidenced
  <2>1. "NOTE" \notin Accounting
    BY DEF Accounting
  <2> QED BY <1>2, <1>3, <2>1, PlaceSets, NoEvidence, EvidenceForm
<1>15. CompletionIsEvidenced
  BY <1>3 DEF CompletionIsEvidenced
<1> QED BY <1>4, <1>5, <1>6, <1>7, <1>8, <1>10, <1>11, <1>12, <1>13, <1>14, <1>15 DEF IInv

LEMMA StepIInv == IInv /\ [Next]_vars => IInv'
<1> SUFFICES ASSUME IInv, [Next]_vars PROVE IInv'
  OBVIOUS
<1>0. /\ TypeOK /\ IndexInRoute
      /\ OneCoroutine /\ PatrolCall /\ CallbackCall /\ NotYetEnded
      /\ IndexIsBacked /\ RowIsBacked /\ OutcomeIsStored /\ ToldIsStored
      /\ WholeRoute /\ NothingIsForgotten
      /\ CheckpointIsEvidenced /\ CompletionIsEvidenced
  BY DEF IInv
<1>1. CASE Next
  <2>1. TypeOK'
    BY <1>0, <1>1, TypeNext
  <2>2. IndexInRoute' /\ OneCoroutine' /\ PatrolCall' /\ CallbackCall' /\ NotYetEnded'
    BY <1>0, <1>1, NextIndexInRoute, NextOneCoroutine, NextPatrolCall, NextCallbackCall,
       NextNotYetEnded
  <2>3. IndexIsBacked' /\ RowIsBacked'
    BY <1>0, <1>1, <2>1, NextIndexIsBacked, NextRowIsBacked
  <2>4. OutcomeIsStored' /\ ToldIsStored' /\ WholeRoute' /\ NothingIsForgotten'
    BY <1>0, <1>1, NextOutcomeIsStored, NextToldIsStored, NextWholeRoute, NextNothingIsForgotten
  <2>5. CheckpointIsEvidenced' /\ CompletionIsEvidenced'
    BY <1>0, <1>1, NextCheckpointIsEvidenced, NextCompletionIsEvidenced
  <2> QED BY <2>1, <2>2, <2>3, <2>4, <2>5 DEF IInv
<1>2. CASE UNCHANGED vars
  <2>0. /\ up' = up /\ disturbed' = disturbed /\ count' = count /\ patrol' = patrol
        /\ mem' = mem /\ calls' = calls /\ db' = db /\ client' = client
    BY <1>2 DEF vars
  <2>1. TypeOK'
    BY <1>0, <2>0, TypesStay DEF TypeOK
  <2>2. IndexInRoute' /\ OneCoroutine' /\ NotYetEnded'
    BY <1>0, <2>0 DEF IndexInRoute, OneCoroutine, NotYetEnded
  <2>3. PatrolCall' /\ CallbackCall'
    BY <1>0, <2>0 DEF PatrolCall, CallbackCall
  <2>4. IndexIsBacked' /\ RowIsBacked' /\ WholeRoute'
    BY <1>0, <2>0 DEF IndexIsBacked, RowIsBacked, WholeRoute, Backed
  <2>5. OutcomeIsStored' /\ ToldIsStored'
    BY <1>0, <2>0 DEF OutcomeIsStored, ToldIsStored
  <2>6. NothingIsForgotten'
    BY <1>0, <2>0 DEF NothingIsForgotten, Recoverable
  <2>7. CheckpointIsEvidenced'
    BY <1>0, <2>0, EvidenceForm
  <2>8. CompletionIsEvidenced'
    BY <1>0, <2>0 DEF CompletionIsEvidenced
  <2> QED BY <2>1, <2>2, <2>3, <2>4, <2>5, <2>6, <2>7, <2>8 DEF IInv
<1> QED BY <1>1, <1>2

\* The inductive invariant of the whole.
THEOREM PersistenceInvariant == Spec => []IInv
<1>1. Init => IInv
  BY InitIInv
<1>2. IInv /\ [Next]_vars => IInv'
  BY StepIInv
<1> QED BY <1>1, <1>2, PTL DEF Spec

\* Every variable keeps its type; the index of a mission never leaves its route.
THEOREM PersistenceTypes == Spec => []TypeOK
<1>1. IInv => TypeOK
  BY DEF IInv
<1> QED BY <1>1, PersistenceInvariant, PTL

\* Whatever a crash, a failing transaction or a callback's late write leaves,
\* the row names no checkpoint that is ahead of the stored events.
THEOREM RecoveryIsBacked == Spec => []RowIsBacked
<1>1. IInv => RowIsBacked
  BY DEF IInv
<1> QED BY <1>1, PersistenceInvariant, PTL

\* A client never learns of an end that is not in the database.
THEOREM AnswersAreStored == Spec => []ToldIsStored
<1>1. IInv => ToldIsStored
  BY DEF IInv
<1> QED BY <1>1, PersistenceInvariant, PTL

\* A route that is completed over any number of crashes has no checkpoint that
\* nobody drove to and nobody waived.
THEOREM RouteIsCovered == Spec => []ChainIsCovered
<1>1. IInv => ChainIsCovered
  <2> SUFFICES ASSUME IInv, NEW m \in Missions, client[m].told = "COMPLETED",
                      NEW j \in client[m].base..(N - 1)
               PROVE  j \in client[m].covered \cup Accounted(m)
    BY DEF ChainIsCovered
  <2>1. /\ client[m].base \in Nat /\ client[m].first \in Nat
    BY DEF IInv, TypeOK, ClientType, Index
  <2>2. Backed(m, N) /\ client[m].base..(client[m].first - 1) \subseteq client[m].covered
    BY DEF IInv, WholeRoute
  <2>3. CASE j < client[m].first
    BY <2>1, <2>2, <2>3
  <2>4. CASE j >= client[m].first
    <3>1. j \in client[m].first..(N - 1) /\ j \in 0..(N - 1)
      BY <2>1, <2>4
    <3>2. PICK code \in Accounting : <<code, j>> \in db[m].events
      BY <2>2, <3>1 DEF Backed
    <3> QED BY <3>1, <3>2 DEF Accounted
  <2> QED BY <2>1, <2>3, <2>4
<1> QED BY <1>1, PersistenceInvariant, PTL

\* A mission without an answer is offered again or shows its end.
THEOREM CutOffIsOffered == Spec => []NothingIsForgotten
<1>1. IInv => NothingIsForgotten
  BY DEF IInv
<1> QED BY <1>1, PersistenceInvariant, PTL

\* The record of a checkpoint follows its check-in and its tasks' results.
THEOREM RecordFollowsEvidence == Spec => []CompletionIsEvidenced
<1>1. IInv => CompletionIsEvidenced
  BY DEF IInv
<1> QED BY <1>1, PersistenceInvariant, PTL
=============================================================================
