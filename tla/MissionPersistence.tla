------------------------- MODULE MissionPersistence -------------------------
(***************************************************************************)
(* What a patrol leaves in the database of car_mission, and what is made   *)
(* of it after a crash: mission_repository.py and report_exporter.py, with *)
(* the code of mission_manager.py that calls them.                         *)
(*                                                                         *)
(* Two threads write: the coroutine of _execute_patrol and one callback of *)
(* the MultiThreadedExecutor (pause, effective stop, monitor, feedback).   *)
(* A call of _transition or _record_checkpoint is no single step: the      *)
(* state changes under the lock, the arguments of the status row are read  *)
(* ("snap"), the row is written, the event is appended, and the other      *)
(* thread, a failing write or a crash may come in between.  Which way a    *)
(* checkpoint takes (arrived, refused, interrupted) is left open here: it  *)
(* is the subject of MissionManager.                                       *)
(***************************************************************************)
EXTENDS Naturals, MissionStates

CONSTANTS
  N,            \* number of checkpoints of the route
  Tasks,        \* [0..N-1 -> number of inspection tasks of the checkpoint]
  MaxMissions,  \* bound on the missions that are started
  MaxFresh,     \* bound on those of them that continue no other
  MaxDisturbed, \* bound on the callbacks that run and transactions that fail
  Starts,       \* start_checkpoint_index values of a fresh goal
  Loops,        \* values of the loop flag
  Callbacks     \* callbacks that may run

CallbackKinds == {"pause", "estop", "lost", "capturing", "inspecting"}

ASSUME RouteAssumption == N \in Nat \ {0} /\ Tasks \in [0..(N - 1) -> Nat]
ASSUME BoundAssumption ==
  /\ MaxMissions \in Nat \ {0}
  /\ MaxFresh \in Nat /\ MaxDisturbed \in Nat
ASSUME InputAssumption ==
  /\ Starts \subseteq 0..(N - 1)
  /\ Loops \subseteq BOOLEAN
  /\ Callbacks \subseteq CallbackKinds

Missions == 1..MaxMissions
Index == 0..N
Accounting == {"CHECKPOINT_COMPLETED", "CHECKPOINT_SKIPPED",
               "CHECKPOINT_COMPLETED_WITH_CHECKIN_FAILURE"}
Closing == [o \in TERMINAL_STATES |->
              CASE o = "COMPLETED" -> "MISSION_COMPLETED"
                [] o = "CANCELLED" -> "MISSION_CANCELLED"
                [] OTHER           -> "MISSION_FAILED"]

\* The events told apart below; every other code is a "NOTE" and is not kept.
Codes == Accounting \cup {Closing[o] : o \in TERMINAL_STATES}
           \cup {"PROCESS_RESTART_RECOVERY", "NOTE"}

VARIABLES
  up,       \* the process runs
  disturbed,  \* callbacks that have run and transactions that have failed
  count,    \* missions started so far: 1..count
  patrol,   \* the coroutine
  mem,      \* the MissionRuntime of every mission, lost in a crash
  calls,    \* the repository call each thread is in
  db,       \* what the database holds of every mission
  client    \* what the client of every mission asked for and was told

vars == <<up, disturbed, count, patrol, mem, calls, db, client>>

Row == [state : MissionState, index : Index]
NoRow == [state |-> "NONE", index |-> 0]
NoRuntime == [state |-> "IDLE", index |-> 0, loop |-> FALSE]

\* The coroutine is at place; outcome is what it will tell its client.
NoPatrol == [place |-> "none", mission |-> 0, excused |-> FALSE, done |-> 0,
             outcome |-> "FAILED", handling |-> FALSE]

\* Of the check-ins only the successful ones are kept.
NoRecords == [row |-> NoRow, events |-> {}, checkins |-> {}, inspections |-> {}]

\* told and report are what the goal's result carried; first is the
\* requested start index.  covered and base are history: what the missions
\* this one continues had accounted for or the operator waived, and where
\* the first of them began.
NoClient == [told |-> "nothing", report |-> {}, first |-> 0, base |-> 0,
             covered |-> {}]

Idle == [phase |-> "idle", mission |-> 0, target |-> "NONE", code |-> "NOTE",
         locked |-> FALSE, row |-> NoRow]

Init ==
  /\ up = TRUE /\ disturbed = 0 /\ count = 0
  /\ patrol = NoPatrol
  /\ mem = [m \in Missions |-> NoRuntime]
  /\ calls = [t \in {"patrol", "callback"} |-> Idle]
  /\ db = [m \in Missions |-> NoRecords]
  /\ client = [m \in Missions |-> NoClient]

-----------------------------------------------------------------------------
(* The calls.                                                              *)

\* _transition: move, then sync the row, then append the event.
Transition(m, target, code) ==
  [Idle EXCEPT !.phase = "move", !.mission = m, !.target = target,
               !.code = code]

\* _record_checkpoint: sync the row, then append the event.
Record(m, code) == [Idle EXCEPT !.phase = "snap", !.mission = m,
                                !.target = "EVENT", !.code = code]

\* _sync_status alone.
Sync(m) == [Idle EXCEPT !.phase = "snap", !.mission = m]

\* record_checkin and record_inspection: one insert.
Insert(m, table) == [Idle EXCEPT !.phase = "insert", !.mission = m,
                                 !.target = table]

\* self._lock is held by nobody else.
LockFree(t) == \A u \in DOMAIN calls : u # t => ~calls[u].locked

Goto(t, phase) == calls' = [calls EXCEPT ![t].phase = phase]
Return(t) == calls' = [calls EXCEPT ![t] = Idle]

\* An exception ends the call.  In a callback the rest is dropped; in the
\* coroutine the except clause takes over, and what is raised there escapes.
Raise(t) ==
  /\ Return(t)
  /\ IF t = "callback" THEN UNCHANGED patrol
     ELSE patrol' = [patrol EXCEPT
            !.place = IF patrol.handling THEN "escaped" ELSE "except",
            !.handling = TRUE]

\* The table of MissionStates decides, under the lock.  A state that is the
\* target already is only written again, with the lock held.
Move(t) ==
  LET c == calls[t]
      current == mem[c.mission].state
  IN /\ c.phase = "move" /\ LockFree(t)
     /\ \/ /\ current = c.target
           /\ calls' = [calls EXCEPT ![t] = [c EXCEPT
                !.phase = "snap", !.target = "NONE", !.locked = TRUE]]
           /\ UNCHANGED <<mem, patrol>>
        \/ /\ current # c.target /\ can_transition(current, c.target)
           /\ mem' = [mem EXCEPT ![c.mission].state = c.target]
           /\ Goto(t, "snap")
           /\ UNCHANGED patrol
        \/ /\ current # c.target /\ ~can_transition(current, c.target)
           /\ Raise(t)
           /\ UNCHANGED mem
     /\ UNCHANGED <<up, disturbed, count, db, client>>

\* _sync_status evaluates the arguments of update_status ...
Snap(t) ==
  LET c == calls[t]
      r == mem[c.mission]
  IN /\ c.phase = "snap"
     /\ calls' = [calls EXCEPT ![t] = [c EXCEPT !.phase = "write",
            !.row = [state |-> r.state, index |-> r.index]]]
     /\ UNCHANGED <<up, disturbed, count, patrol, mem, db, client>>

\* ... and update_status writes them.  What follows a row of _transition or
\* _record_checkpoint is the event; the append of a NOTE changes nothing
\* that is kept here, so that such a call returns with its row.
WriteRow(c) == [db EXCEPT ![c.mission].row = c.row]
Write(t) ==
  LET c == calls[t]
  IN /\ c.phase = "write" /\ db[c.mission].row # NoRow
     /\ db' = WriteRow(c)
     /\ IF c.code = "NOTE" \/ c.target = "NONE" THEN Return(t)
        ELSE calls' = [calls EXCEPT ![t] = [c EXCEPT !.phase = "append", !.row = NoRow]]
     /\ UNCHANGED <<up, disturbed, count, patrol, mem, client>>

\* append_event
Append(t) ==
  LET c == calls[t]
      r == mem[c.mission]
  IN /\ c.phase = "append"
     /\ db' = [db EXCEPT ![c.mission].events =
                 @ \cup {<<c.code, r.index>>}]
     /\ Return(t)
     /\ UNCHANGED <<up, disturbed, count, patrol, mem, client>>

\* record_checkin and record_inspection
StoreResult(t) ==
  LET c == calls[t]
      r == mem[c.mission]
  IN /\ c.phase = "insert"
     /\ db' = IF c.target = "inspection"
              THEN [db EXCEPT ![c.mission].inspections =
                      @ \cup {<<r.index, patrol.done + 1>>}]
              ELSE [db EXCEPT ![c.mission].checkins =
                      IF c.target = "checkin" THEN @ \cup {r.index}
                      ELSE @]
     /\ Return(t)
     /\ UNCHANGED <<up, disturbed, count, patrol, mem, client>>

\* A transaction that fails (a locked database, a full disk): the row, or
\* the NOTE after it.  update_status also raises when there is no such row.
TransactionFails(t) ==
  LET c == calls[t]
  IN /\ c.phase \in {"write", "append", "insert"}
     /\ \/ disturbed < MaxDisturbed /\ disturbed' = disturbed + 1
        \/ db[c.mission].row = NoRow /\ UNCHANGED disturbed
     /\ \/ UNCHANGED db
        \/ c.phase = "write" /\ c.target # "NONE" /\ c.code = "NOTE"
           /\ db[c.mission].row # NoRow /\ db' = WriteRow(c)
     /\ Raise(t)
     /\ UNCHANGED <<up, count, mem, client>>

-----------------------------------------------------------------------------
(* The coroutine _execute_patrol.                                          *)

me == patrol.mission
my == mem[patrol.mission]
At(places) ==
  up /\ patrol.place \in places /\ calls["patrol"].phase = "idle"
Call(place, c) ==
  /\ patrol' = [patrol EXCEPT !.place = place]
  /\ calls' = [calls EXCEPT !["patrol"] = c]
  /\ UNCHANGED <<up, disturbed, count, mem, db, client>>
Enter(place) ==
  /\ patrol' = [patrol EXCEPT !.place = place]
  /\ UNCHANGED <<up, disturbed, count, mem, calls, db, client>>

\* Mutant: The client is told before the state is moved and stored.
EagerFinalize(outcome) ==
  /\ patrol' = [patrol EXCEPT !.place = "finally", !.outcome = outcome]
  /\ calls' = [calls EXCEPT !["patrol"] =
                 Transition(me, outcome, Closing[outcome])]
  /\ client' = [client EXCEPT ![me].told = outcome]
  /\ UNCHANGED <<up, disturbed, count, mem, db>>

\* _finalize_success, _finalize_cancelled, _finalize_failed.
Finalize(outcome) ==
  /\ patrol' = [patrol EXCEPT !.place = "export", !.outcome = outcome]
  /\ calls' = [calls EXCEPT !["patrol"] =
                 Transition(me, outcome, Closing[outcome])]
  /\ UNCHANGED <<up, disturbed, count, mem, db, client>>

\* A goal is accepted: start, the first checkpoint, and what it continues.
Execute(start, loop, base, covered) ==
  /\ up /\ patrol.mission = 0 /\ count < MaxMissions
  /\ start < N
  /\ LockFree("patrol")
  /\ count' = count + 1
  /\ mem' = [mem EXCEPT ![count + 1] =
               [NoRuntime EXCEPT !.index = start, !.loop = loop]]
  /\ patrol' = [NoPatrol EXCEPT !.place = "create", !.mission = count + 1]
  /\ client' = [client EXCEPT ![count + 1] =
                  [NoClient EXCEPT !.first = start, !.base = base,
                                   !.covered = covered]]
  /\ UNCHANGED <<up, disturbed, calls, db>>

StartFresh(start, loop) ==
  count < MaxFresh /\ Execute(start, loop, start, {})

CreateMission ==
  /\ At({"create"})
  /\ db' = [db EXCEPT ![me].row = [NoRow EXCEPT !.state = "IDLE"]]
  /\ patrol' = [patrol EXCEPT !.place = "prepare"]
  /\ UNCHANGED <<up, disturbed, count, mem, calls, client>>

CreateFails ==
  /\ At({"create"}) /\ disturbed < MaxDisturbed /\ disturbed' = disturbed + 1
  /\ Raise("patrol")
  /\ UNCHANGED <<up, count, mem, db, client>>

Prepare == At({"prepare"}) /\ Call("localize", Transition(me, "PREPARING", "NOTE"))
Localize == At({"localize"}) /\ Call("loop", Transition(me, "LOCALIZING", "NOTE"))

Cancelled ==
  At({"loop", "driving", "checkin", "capturing", "waiting"}) /\ Finalize("CANCELLED")

\* The end of the route.
EndOfRoute ==
  /\ At({"loop"}) /\ my.index = N
  /\ IF my.loop
     THEN /\ mem' = [mem EXCEPT ![me].index = 0]
          /\ calls' = [calls EXCEPT !["patrol"] = Sync(me)]
          /\ UNCHANGED <<up, disturbed, count, patrol, db, client>>
     ELSE Finalize("COMPLETED")

\* _wait_if_stopped, _wait_for_operator, _ensure_localization: the state is
\* moved, the row is written again by _await_resume, and the operator resumes.
Stop(target) ==
  /\ At({"loop", "driving", "unverified", "settle"})
  /\ my.index < N
  /\ patrol.place \in {"unverified", "settle"} => target = "WAITING_OPERATOR"
  /\ Call("await", Transition(me, target, "NOTE"))

Pause ==
  /\ At({"loop"}) /\ my.index < N
  /\ IF my.state = "PAUSING" THEN Call("await", Transition(me, "PAUSED", "NOTE"))
     ELSE Call("loop", Transition(me, "PAUSING", "NOTE"))

AwaitResume == At({"await"}) /\ Call("waiting", Sync(me))

Resume ==
  /\ At({"waiting"})
  /\ \/ Enter("loop") \/ Enter("localize")

\* A checkpoint that is driven to again is worked on from the start.
Navigate ==
  /\ At({"loop"}) /\ my.index < N
  /\ patrol' = [patrol EXCEPT !.place = "driving", !.excused = FALSE, !.done = 0]
  /\ calls' = [calls EXCEPT !["patrol"] = Transition(me, "NAVIGATING", "NOTE")]
  /\ UNCHANGED <<up, disturbed, count, mem, db, client>>

\* What Nav2, an obstacle or an interruption makes of the drive.
Arrive == At({"driving"}) /\ Call("arrived", Transition(me, "ARRIVAL_CONFIRMING", "NOTE"))
Retry == At({"driving", "blocked"}) /\ Call("loop", Transition(me, "RECOVERING", "NOTE"))
Blocked ==
  At({"loop", "driving"}) /\ my.index < N
    /\ Call("blocked", Transition(me, "BLOCKED", "NOTE"))
Skip == At({"driving"}) /\ Call("advance", Record(me, "CHECKPOINT_SKIPPED"))
Again == At({"driving", "checkin", "capturing"}) /\ Enter("loop")

\* _verify_checkpoint and _handle_checkin_failure
Verify == At({"arrived"}) /\ Call("checkin", Transition(me, "CHECKING_IN", "NOTE"))

\* Mutant: A check-in that needs no marker is not stored.
LaxCheckedIn == At({"checkin"}) /\ Enter("verified")

CheckedIn == At({"checkin"}) /\ Call("verified", Insert(me, "checkin"))
CheckinFails == At({"checkin"}) /\ Call("unverified", Insert(me, "failed"))
CheckinRetry == At({"unverified"}) /\ Call("checkin", Record(me, "NOTE"))
NotRequired == At({"verified"}) /\ Enter("inspect")
Verified == At({"verified"}) /\ Call("inspect", Record(me, "NOTE"))
ContinueUnverified ==
  /\ At({"unverified"})
  /\ patrol' = [patrol EXCEPT !.place = "inspect", !.excused = TRUE]
  /\ calls' = [calls EXCEPT !["patrol"] = Record(me, "NOTE")]
  /\ UNCHANGED <<up, disturbed, count, mem, db, client>>

\* _execute_inspection_task and _handle_inspection_result
Capture ==
  At({"inspect"}) /\ patrol.done < Tasks[my.index]
    /\ Call("capturing", Transition(me, "CAPTURING", "NOTE"))
Analyse ==
  /\ At({"capturing"})
  /\ IF my.state = "CAPTURING"
     THEN Call("result", Transition(me, "INSPECTING", "NOTE"))
     ELSE Enter("result")
RecordInspection == At({"result"}) /\ Call("stored", Insert(me, "inspection"))
ReportInspection == At({"stored"}) /\ Call("settle", Record(me, "NOTE"))
TaskDone ==
  /\ At({"settle"})
  /\ patrol' = [patrol EXCEPT !.place = "inspect", !.done = @ + 1]
  /\ \/ UNCHANGED calls
     \/ calls' = [calls EXCEPT !["patrol"] = Record(me, "NOTE")]
  /\ UNCHANGED <<up, disturbed, count, mem, db, client>>

\* A policy of the checkpoint ends the mission.
GiveUp == At({"driving", "unverified", "settle"}) /\ Finalize("FAILED")

EnterRecording ==
  At({"inspect"}) /\ patrol.done = Tasks[my.index]
    /\ Call("recording", Transition(me, "RECORDING", "NOTE"))

\* Mutant: The index is advanced before the checkpoint is recorded.
EarlyRecordCheckpoint ==
  /\ At({"recording"})
  /\ mem' = [mem EXCEPT ![me].index = @ + 1]
  /\ patrol' = [patrol EXCEPT !.place = "loop"]
  /\ calls' = [calls EXCEPT !["patrol"] = Record(me, "CHECKPOINT_COMPLETED")]
  /\ UNCHANGED <<up, disturbed, count, db, client>>

RecordCheckpoint ==
  At({"recording"}) /\ Call("advance", Record(me,
     IF patrol.excused THEN "CHECKPOINT_COMPLETED_WITH_CHECKIN_FAILURE"
     ELSE "CHECKPOINT_COMPLETED"))

\* runtime.checkpoint_index += 1, after the record
Advance ==
  /\ At({"advance"})
  /\ mem' = [mem EXCEPT ![me].index = @ + 1]
  /\ patrol' = [patrol EXCEPT !.place = "loop"]
  /\ UNCHANGED <<up, disturbed, count, calls, db, client>>

\* except Exception: _finalize_failed
ExceptClause == At({"except"}) /\ Finalize("FAILED")

\* Of the report the events are told apart: a report is never empty then, as
\* the event of the outcome precedes it.
get_report(m) == db[m].events

export_report(m) == client' = [client EXCEPT ![m].report = get_report(m)]

\* _export_report: an error is logged and the report left out.
ExportReport ==
  /\ At({"export"})
  /\ patrol' = [patrol EXCEPT !.place = "tell"]
  /\ export_report(me) \/ UNCHANGED client
  /\ UNCHANGED <<up, disturbed, count, mem, calls, db>>

Tell ==
  /\ At({"tell"})
  /\ client' = [client EXCEPT ![me].told = patrol.outcome]
  /\ patrol' = [patrol EXCEPT !.place = "finally"]
  /\ UNCHANGED <<up, disturbed, count, mem, calls, db>>

\* finally: self._runtime = None.  A goal whose exception escapes is aborted
\* by rclpy.
Leave ==
  /\ At({"finally", "escaped"}) /\ LockFree("patrol")
  /\ client' = IF patrol.place = "escaped"
               THEN [client EXCEPT ![me].told = "ABORTED"] ELSE client
  /\ patrol' = NoPatrol
  /\ UNCHANGED <<up, disturbed, count, mem, calls, db>>

-----------------------------------------------------------------------------
(* The callbacks, which keep the runtime they have read from self._runtime. *)

Called(c) ==
  /\ calls' = [calls EXCEPT !["callback"] = c]
  /\ disturbed' = disturbed + 1
  /\ UNCHANGED <<up, count, patrol, mem, db, client>>

Callback(kind) ==
  /\ up /\ disturbed < MaxDisturbed
  /\ me # 0 /\ calls["callback"].phase = "idle"
  /\ LockFree("callback") /\ my.state \notin TERMINAL_STATES
  /\ \/ /\ kind = "pause" /\ my.state \notin {"ESTOPPED", "PAUSED", "PAUSING"}
        /\ Called(Transition(me, "PAUSING", "NOTE"))
     \/ /\ kind = "estop" /\ my.state # "ESTOPPED"
        /\ Called(Transition(me, "ESTOPPED", "NOTE"))
     \/ /\ kind = "lost" /\ my.state # "WAITING_OPERATOR"
        /\ can_transition(my.state, "WAITING_OPERATOR")
        /\ Called(Transition(me, "WAITING_OPERATOR", "NOTE"))
     \/ /\ kind = "inspecting" /\ patrol.place = "capturing"
        /\ my.state = "CAPTURING"
        /\ Called(Transition(me, "INSPECTING", "NOTE"))
     \/ /\ kind = "capturing" /\ patrol.place = "capturing"
        /\ Called(Sync(me))

-----------------------------------------------------------------------------
(* Crash, restart and what the operator is offered.                        *)

Crash ==
  /\ up /\ up' = FALSE
  /\ patrol' = NoPatrol
  /\ mem' = [m \in Missions |-> NoRuntime]
  /\ calls' = [t \in DOMAIN calls |-> Idle]
  /\ UNCHANGED <<disturbed, count, db, client>>

\* Mutant: Rows that wait for the operator already are not parked again.
ShyInterrupted(r) ==
  r # NoRow /\ r.state \notin TERMINAL_STATES \cup {"WAITING_OPERATOR"}

\* The rows recover_incomplete_missions parks.
Interrupted(r) == r # NoRow /\ r.state \notin TERMINAL_STATES

\* recover_incomplete_missions, one transaction, run before anything else.
Restart ==
  /\ ~up /\ up' = TRUE
  /\ db' = [m \in Missions |->
       IF ~Interrupted(db[m].row) THEN db[m]
       ELSE [db[m] EXCEPT !.row.state = "WAITING_OPERATOR",
                          !.events = @ \cup {<<"PROCESS_RESTART_RECOVERY", 0>>}]]
  /\ UNCHANGED <<disturbed, count, patrol, mem, calls, client>>

Has(events, codes) == \E e \in events : e[1] \in codes

\* list_recoverable_missions
Recoverable(m) ==
  /\ db[m].row # NoRow /\ db[m].row.state = "WAITING_OPERATOR"
  /\ Has(db[m].events, {"PROCESS_RESTART_RECOVERY"})

\* Checkpoints some event of the mission accounts for.
Accounted(m) ==
  {i \in 0..(N - 1) : \E e \in db[m].events : e[1] \in Accounting /\ e[2] = i}

\* Mutant: To retry starts at the checkpoint after the one the row names.
HastyRetryCurrent(m, loop) ==
  /\ Recoverable(m)
  /\ Execute(db[m].row.index + 1, loop, client[m].base,
             client[m].covered \cup Accounted(m))

\* The operator starts again at retry_current_checkpoint_index ...
RetryCurrent(m, loop) ==
  /\ Recoverable(m)
  /\ Execute(db[m].row.index, loop, client[m].base,
             client[m].covered \cup Accounted(m))

\* ... or at continue_next_checkpoint_index, and so waives one checkpoint.
ContinueNext(m, loop) ==
  /\ Recoverable(m)
  /\ db[m].row.index < N
  /\ Execute(db[m].row.index + 1, loop, client[m].base,
             client[m].covered \cup Accounted(m) \cup {db[m].row.index})

-----------------------------------------------------------------------------
Thread(t) ==
  Move(t) \/ Snap(t) \/ Write(t) \/ Append(t) \/ StoreResult(t)
    \/ TransactionFails(t)

Coroutine ==
  \/ CreateMission \/ CreateFails \/ Prepare \/ Localize \/ Cancelled
  \/ EndOfRoute \/ (\E s \in {"ESTOPPED", "WAITING_OPERATOR"} : Stop(s)) \/ Pause
  \/ AwaitResume \/ Resume \/ Navigate \/ Arrive \/ Retry \/ Blocked \/ Skip
  \/ Again \/ Verify \/ CheckedIn \/ CheckinFails \/ CheckinRetry
  \/ NotRequired \/ Verified \/ ContinueUnverified \/ Capture \/ Analyse
  \/ RecordInspection \/ ReportInspection \/ TaskDone \/ GiveUp
  \/ EnterRecording \/ RecordCheckpoint \/ Advance \/ ExceptClause
  \/ ExportReport \/ Tell \/ Leave

Next ==
  \/ \E t \in {"patrol", "callback"} : Thread(t)
  \/ Coroutine
  \/ \E start \in Starts, loop \in Loops : StartFresh(start, loop)
  \/ \E kind \in Callbacks : Callback(kind)
  \/ Crash \/ Restart
  \/ \E m \in Missions, loop \in Loops : RetryCurrent(m, loop) \/ ContinueNext(m, loop)

Spec == Init /\ [][Next]_vars

-----------------------------------------------------------------------------
(* Properties.                                                             *)

Phases == {"idle", "move", "snap", "write", "append", "insert"}
Places == {"none", "create", "prepare", "localize", "loop", "driving",
           "arrived", "blocked", "await", "waiting", "checkin", "verified",
           "unverified", "inspect", "capturing", "result", "stored", "settle",
           "recording", "advance", "except", "escaped", "export", "tell",
           "finally"}
Targets == MissionState \cup
             {"NONE", "EVENT", "checkin", "failed", "inspection"}
Events == Codes \X Index

RuntimeType == [state : MissionState, index : Index, loop : BOOLEAN]
PatrolType == [place : Places, mission : 0..count, excused : BOOLEAN,
               done : Nat, outcome : TERMINAL_STATES, handling : BOOLEAN]
CallType == [phase : Phases, mission : 0..count, target : Targets,
             code : Codes, locked : BOOLEAN, row : Row \cup {NoRow}]
RecordsType == [row : Row \cup {NoRow}, events : SUBSET Events,
                checkins : SUBSET Index, inspections : SUBSET (Index \X Nat)]
ClientType == [told : TERMINAL_STATES \cup {"nothing", "ABORTED"},
               report : SUBSET Events, first : Index, base : Index,
               covered : SUBSET Index]

TypeOK ==
  /\ up \in BOOLEAN /\ disturbed \in Nat /\ count \in 0..MaxMissions
  /\ patrol \in PatrolType
  /\ mem \in [Missions -> RuntimeType]
  /\ calls \in [{"patrol", "callback"} -> CallType]
  /\ db \in [Missions -> RecordsType]
  /\ client \in [Missions -> ClientType]

\* Every checkpoint from the mission's first to before i has its event in
\* the database.
Backed(m, i) ==
  \A j \in client[m].first..(i - 1) :
    \E code \in Accounting : <<code, j>> \in db[m].events

\* The status row never runs ahead of the events: whatever moment a crash
\* picks and whichever thread wrote the row last, every checkpoint before
\* the row's index, where the operator will be offered to go on, is
\* accounted for by a stored event.
RowIsBacked ==
  \A m \in Missions : db[m].row # NoRow => Backed(m, db[m].row.index)

\* A client is told that its mission was completed or cancelled only when
\* the event that says so is stored, and a report that came with the answer
\* holds it too.
ToldIsStored ==
  \A m \in Missions :
    client[m].told \in {"COMPLETED", "CANCELLED"} =>
      /\ Has(db[m].events, {Closing[client[m].told]})
      /\ client[m].report # {} =>
           Has(client[m].report, {Closing[client[m].told]})

\* Through any number of crashes: when a mission is told to be completed,
\* every checkpoint from the start of the first mission of its chain on was
\* accounted for by one of them, or is one the operator chose to leave.
ChainIsCovered ==
  \A m \in Missions :
    client[m].told = "COMPLETED" =>
      client[m].base..(N - 1) \subseteq client[m].covered \cup Accounted(m)

\* A mission a crash cut off, whose client was told nothing, is either
\* offered to the operator after the restart or its row shows how it ended.
NothingIsForgotten ==
  \A m \in Missions :
    (up /\ m # patrol.mission /\ client[m].told = "nothing"
       /\ db[m].row # NoRow)
      => Recoverable(m) \/ db[m].row.state \in TERMINAL_STATES

\* A checkpoint is entered as completed only with its successful check-in
\* and the result of each of its tasks stored before.
CompletionIsEvidenced ==
  \A m \in Missions : \A e \in db[m].events :
    /\ e[1] = "CHECKPOINT_COMPLETED" => e[2] \in db[m].checkins
    /\ e[1] \in Accounting \ {"CHECKPOINT_SKIPPED"} =>
         \A k \in 1..Tasks[e[2]] : <<e[2], k>> \in db[m].inspections

-----------------------------------------------------------------------------
(* The inductive invariant.                                                *)

Done == {"COMPLETED", "CANCELLED"}
Ended == {"none", "except", "escaped", "export", "tell", "finally"}
Evidenced == {"inspect", "capturing", "result", "stored", "settle",
              "recording", "advance"}
Underway == {"driving", "arrived", "checkin", "verified", "unverified"}
              \cup Evidenced

\* One coroutine, that of the newest mission; nothing is known of others.
OneCoroutine ==
  /\ patrol.mission \in {0, count}
  /\ patrol.place = "none" <=> patrol.mission = 0
  /\ ~up => patrol = NoPatrol /\ \A t \in {"patrol", "callback"} : calls[t] = Idle
  /\ \A m \in Missions : m > count => db[m] = NoRecords /\ client[m] = NoClient

\* What the calls of the coroutine and of a callback may be.
PatrolCall ==
  LET c == calls["patrol"] IN
  IF c.phase = "idle" THEN c = Idle ELSE
    /\ c.mission = patrol.mission /\ c.mission # 0
    /\ patrol.place \notin {"tell", "finally"}
    /\ c.phase = "move" => c.target \in MissionState
    /\ patrol.place = "advance" => c.code \in Accounting /\ c.target = "EVENT"
    /\ patrol.place = "export" =>
         /\ c.code = Closing[patrol.outcome]
         /\ patrol.outcome \in Done =>
              c.target = patrol.outcome
                /\ (c.phase = "move" => mem[c.mission].state \notin TERMINAL_STATES)
    /\ patrol.place \notin {"advance", "export"} => c.code = "NOTE"
    /\ c.code = "NOTE" => c.phase # "append"
    /\ c.phase = "insert" => c.target \in {"checkin", "failed", "inspection"}
    /\ c.target \in TERMINAL_STATES => patrol.place = "export"
    /\ c.phase = "insert" /\ c.target = "inspection" => patrol.place = "stored"
    /\ patrol.place = "stored" => c.phase = "insert" /\ c.target = "inspection"
    /\ patrol.place = "verified" => c.phase = "insert" /\ c.target = "checkin"
CallbackCall ==
  LET c == calls["callback"] IN
  IF c.phase = "idle" THEN c = Idle ELSE
    /\ c.mission # 0 /\ c.code = "NOTE"
    /\ c.phase \in {"move", "snap", "write"}
    /\ c.target \notin TERMINAL_STATES
    /\ c.phase = "move" => c.target \in MissionState
    /\ c.mission # patrol.mission => client[c.mission].told # "nothing"

\* The coroutine works on a mission whose state is not terminal.
NotYetEnded ==
  patrol.place \notin Ended => mem[patrol.mission].state \notin TERMINAL_STATES

\* Everything an index is copied from is backed.
IndexIsBacked ==
  /\ \A m \in Missions : Backed(m, mem[m].index)
  /\ \A t \in {"patrol", "callback"} :
       calls[t].phase = "write" => Backed(calls[t].mission, calls[t].row.index)
  /\ patrol.place = "advance" /\ calls["patrol"].phase = "idle" =>
       \E code \in Accounting : <<code, mem[patrol.mission].index>> \in db[patrol.mission].events

\* What the coroutine is about to tell.
OutcomeIsStored ==
  /\ patrol.place \notin {"none", "tell", "finally"} =>
       client[patrol.mission].report = {}
  /\ /\ patrol.place \in {"export", "tell"} /\ calls["patrol"].phase = "idle"
     /\ patrol.outcome \in Done
     => /\ Has(db[patrol.mission].events, {Closing[patrol.outcome]})
        /\ client[patrol.mission].report # {} =>
             Has(client[patrol.mission].report, {Closing[patrol.outcome]})
  /\ patrol.place = "finally" => client[patrol.mission].told # "nothing"

\* A completed mission has come to the end of its route.
WholeRoute ==
  /\ patrol.mission # 0 /\ patrol.outcome = "COMPLETED" => Backed(patrol.mission, N)
  /\ \A m \in Missions : client[m].told = "COMPLETED" => Backed(m, N)
  /\ \A m \in Missions :
       client[m].base..(client[m].first - 1) \subseteq client[m].covered

\* What has been stored of the checkpoint the coroutine works on.
CheckpointIsEvidenced ==
  LET m == patrol.mission
      i == mem[patrol.mission].index
      idle == calls["patrol"].phase = "idle"
  IN
  /\ patrol.place = "verified" /\ idle => i \in db[m].checkins
  /\ patrol.place \in Evidenced \ {"advance"} \/ calls["patrol"].code \in Accounting \ {"CHECKPOINT_SKIPPED"} =>
       /\ ~patrol.excused => i \in db[m].checkins
       /\ \A k \in 1..patrol.done : <<i, k>> \in db[m].inspections
  /\ (patrol.place = "stored" /\ idle) \/ patrol.place = "settle" =>
       <<i, patrol.done + 1>> \in db[m].inspections
  /\ patrol.place = "recording"
       \/ calls["patrol"].code \in Accounting \ {"CHECKPOINT_SKIPPED"} =>
       patrol.done = Tasks[i]
  /\ calls["patrol"].code = "CHECKPOINT_COMPLETED" => ~patrol.excused
  /\ patrol.place \in Underway \ Evidenced => patrol.done = 0

\* It is a checkpoint of the route.
IndexInRoute ==
  patrol.place \in Underway => mem[patrol.mission].index < N

IInv ==
  /\ TypeOK /\ IndexInRoute
  /\ OneCoroutine /\ PatrolCall /\ CallbackCall /\ NotYetEnded
  /\ IndexIsBacked /\ RowIsBacked /\ OutcomeIsStored /\ ToldIsStored
  /\ WholeRoute /\ NothingIsForgotten
  /\ CheckpointIsEvidenced /\ CompletionIsEvidenced

=============================================================================
