# Verification of the iCar patrol car

TLA+ models of the ROS 2 software in this repository, the TLC runs that check
them on small instances, and the TLAPS proofs of what holds for every instance.
Source paths below are relative to the repository; `mission_manager.py` and the
like are found under `src/<package>/<package>/`.

## 1. The system and its parts

The car runs a set of ROS 2 (Foxy) Python nodes. A patrol is submitted by the
Android app or a client over TCP to the **app bridge**, which forwards it as an
`ExecutePatrol` action to the **mission manager**. That node drives Nav2 to one
checkpoint after the other, asks the **checkpoint verifier** to prove the arrival
and the **inspection executor** to run the visual tasks, and records everything
in SQLite. All motion commands (manual, Nav2, lidar avoidance, colour tracking,
voice) pass through the **safety mux**. The **node manager** starts and stops the
exclusive profiles (mapping, navigation, mission) under which the other nodes run.

| Component | State it keeps | Operations | What is hard |
| --- | --- | --- | --- |
| Mission manager (`car_mission`) | one `MissionRuntime`: state machine, checkpoint index, counters, stop and fault flags, three goal handles, two futures | execution coroutine; pause, resume, cancel; emergency stop, obstacle, sensor fault, localization callbacks; 5 Hz monitor | four executor threads share one runtime, most flags are written without the lock, every `await` lets callbacks in |
| Mission repository, report exporter (`car_mission`) | SQLite rows of missions, events, check-ins, inspections | create, update, append, record, recover | restart of the node in the middle of a mission, writes in another order than the transitions |
| Routes (`route_schema`, `route_repository`) | stored route versions | validate, save, load | pure validation |
| Health monitor (`car_mission`) | when scan, image and odometry were last seen, its own start | a callback per sensor, 5 Hz timer | grace period after a restart; started and stopped with its profile |
| Safety mux (`car_control`) | mode, last command of each source, latched stops, lidar override, person stop | one callback per topic, 20 Hz timer | staleness, latches, release of a person stop |
| Motion controller (`car_control`) | none | clamps and relays what the mux publishes | nothing watches the mux behind it |
| Lidar avoidance, lidar warning (`car_lidar`) | the warning's hysteresis | scan callback | two publishers of one override flag |
| Lidar tracker, keyboard teleop | none | scan callback, terminal | none: each is one source of the mux |
| App bridge (`car_app_bridge`) | clients, control lease, active goals, cached status | TCP commands, ROS callbacks, lease timer | check-then-act between TCP threads and executor, late results, lease expiry |
| Node manager (`car_runtime_manager`) | requested and active profile, child process, generation | `/runtime/set_profile`, initial-profile timer, transition thread, shutdown | a transition racing another request or the shutdown, partial failure of a stop |
| Checkpoint verifier (`car_inspection`) | goal slot, pose, marker frames | action execution, topics | dwell and confirmation counters over a lossy stream |
| Inspection executor (`car_inspection`) | goal slot, image and detection caches | action execution, topics | frames and reports of separate topics, three waits, files that cannot be written, fallback to a VLM |
| Map manager (`car_map_manager`) | map versions on disk | save, list, validate | parsing; the manifest is written last |
| Navigation tools, vision, bring-up CLI, launch files, Android app | — | — | I/O, drivers, image processing |

How they interact: actions (`ExecutePatrol`, `NavigateToPose`, `VerifyCheckpoint`,
`RunInspection`), services (`/mission/control`, `/runtime/set_profile`, map
services), latched or periodic topics (`/control/effective_estop`,
`/lidar/override_active`, `/system/sensor_fault`, `/mode_select`,
`/mission/status`), the TCP protocol of the bridge, and operating system processes.

Files, line by line: the `map` of `PROJECT.json` names, for every definition, the
lines it stands for; `components` says of every part whether it is modelled;
`hazards` lists what is hard to test in the code, each at its line, with the
properties that watch over it.

### What correctness means, part by part

* **Mission manager**: a stop reaches the goal that is being driven; a reported
  PAUSED is a standstill; a mission that waits can be seen to wait and can be
  resumed; every checkpoint counts once per lap; the outcome on the action agrees
  with the stored state; the coroutine comes to rest and a cancel ends it.
* **Safety mux**: a stop condition is in force within one period of the timer; the
  car restarts only after the whole clear delay; only the selected, recent source
  (or the lidar) drives; the override and the slow zone bind every source.
* **Control lease**: two clients never drive at once as long as no thread is held up
  for the time of a lease, nobody loses a live lease to
  another client, and a client the network lost loses it.
* **App bridge**: it knows the goal and the patrol that drive the car, unless a late
  result has cleared them, and admits no request against motion it knows of. That
  goals and patrols exclude each other, and that a takeover finds the car at rest, is
  expected of it and does not hold (section 6).
* **Runtime manager**: two profiles never run side by side and the status names what
  runs, processes that no signal reaches any more apart; every accepted transition ends, with one last report.
* **Checkpoint verifier**: a marker counts only after consecutive frames of its own
  goal, an arrival only after a dwell without a lasting loss, every goal is answered.
* **Inspection executor**: a verdict rests on reports, recent when judged, of images of its own
  goal, asks for a review when anything is missing, and comes in time.
* **Mission repository and reports**: whatever a crash, a failing transaction or a
  late callback leaves, nothing is skipped or forgotten by the recovery, and no
  client is told of an end that is not stored.
* **Health monitor, lidar nodes, mux and motion controller together**: a silent
  sensor stops the wheels in time, and a blocked way holds them.

## 2. Modules

| Module | Models | Checked by | Proved |
| --- | --- | --- | --- |
| `MissionStates` | the transition table of `state_machine.py` | with the three that extend it | |
| `MissionLifecycle` | abstract specification: what a submitter is promised | `mission_control` | yes |
| `GoalServer` | abstract specification: what the manager relies on when it awaits a check-in or an inspection | `verifier_checkin`, `inspection_goals` | yes |
| `MissionManager` | the coroutine of `mission_manager.py` and every callback beside it | three mission runs | yes |
| `MissionPersistence` | `mission_repository.py`, `report_exporter.py` and the order of writes in the manager; crash and recovery | `persistence` | yes |
| `SafetyMux` | `safety_mux.py`, `safety_policy.py` | `mux` | yes |
| `SafetyChain` | `health_monitor.py`, `avoidance.py`, `warning.py`, `motion_controller.py` around the mux | `safety_chain` | yes |
| `ControlLease` | `control_lease.py` and the teleop requests of `app_server.py` | `lease_control` | yes |
| `AppBridge` | navigation, patrol, takeover and profile requests of `app_server.py` | `bridge_clients` | yes |
| `RuntimeManager` | `node_manager.py` | two runtime runs | yes |
| `CheckpointVerifier` | `checkpoint_verifier.py`, `checkin_logic.py` | `verifier_checkin` | yes |
| `InspectionExecutor` | `inspection_executor.py`, `inspection_schema.py`, `image_capture.py`, `evidence_store.py`, `vlm_client.py` | `inspection_goals` | yes |

Compositions. `MissionManager` INSTANCEs `MissionLifecycle` under a refinement
mapping and extends `MissionStates`; `MissionPersistence` extends the same table:
it leaves open which way a checkpoint takes, which is `MissionManager`'s subject,
and models what `MissionManager` leaves out, the database. `SafetyChain` extends
`SafetyMux` and binds three of the mux's inputs (sensor fault, lidar override,
lidar command) and a publisher of the emergency stop to the nodes that send them;
every step of it is a step of the mux or a stutter (`ChainImplementsMux`), so that
everything proved of the mux with free inputs holds in the composition. `AppBridge`
extends `MissionStates` too: its mission manager takes the steps of the table as far as
the bridge can tell them apart (`Seen`), and `TableKept` proves of `MissionManager`
that it takes no others. `CheckpointVerifier` and `InspectionExecutor` INSTANCE
`GoalServer`, which `MissionManager` assumes of them: it leaves a `*_result` place
once per goal, with an answer of any kind.

What could follow: the bridge and the lease in one module, once the exclusions that
section 6 misses are in the code; the route and map repositories, if their files are
ever written by two processes.

## 3. How to read a module

Every module follows the same order: constants and their named assumptions,
variables, helpers, one action per handler or step, `Next`, `Spec`/`FairSpec`,
the properties, and last the inductive invariant used by the proofs. A definition
preceded by "Mutant:" is a plausible bug in the code; replacing the original by it
breaks the property that `PROJECT.json` names beside it. It is how we know that a
property can fail.

### 3.1 MissionManager

The node runs on a `MultiThreadedExecutor` with four threads and a reentrant
callback group. `execute_patrol` is a coroutine: between two `await`s it runs on
one thread, but callbacks run beside it on the others.

| In the model | In the code |
| --- | --- |
| `pc` | the place the coroutine has reached; `idle` is `self._runtime is None` |
| `ret` | where the caller of `_await_resume` continues |
| `mstate` | `runtime.state_machine.state`; `Enter` is `_transition`, which raises on a move the table refuses |
| `goal` | the `ExecutePatrol` goal handle as the action server sees it |
| `index`, `completed`, `failed`, `skipped`, `retry`, `laps` | the counters of `MissionRuntime` |
| `pause`, `cancel`, `estop`, `fault`, `lost`, `blocked`, `overdue` | its flags, and whether `obstacle_since` is older than the limit |
| `resume`, `clear` | the two futures: absent, pending, or with their result |
| `cancelSent` | `cancel_goal_async` was called on the stored handle |
| `tails` | callbacks that set their flag, left the lock, and have the transition still to do |

A `pc` label stands for one stretch of the coroutine between shared reads or
writes. Pause, effective stop and the action's cancel have two steps, because a
lock is released between flag and transition (or, for the cancel, because rclpy
moves the goal to CANCELING after the callback has returned). A coroutine that
asks for a refused transition goes to `raise`, the `except` clause; when FAILED is
refused too, the exception leaves the coroutine and rclpy aborts the goal. A
callback that raises does nothing else: Foxy's multi-threaded executor stores the
exception in the task's future and runs on.

Taken as one step: the 5 Hz monitor, the sensor-fault callback and
`_request_cancel`. Each sets its flag first and reads the stored handles afterwards,
so a step of the coroutine in between either meets the flag or stores a handle that
the second half still finds; a second cancellation of the same goal changes nothing.
What the one step hides is the short time in which a cancelled goal has not been
told yet, which for pause and emergency stop `tails` shows. `StopCancelsGoal` is not claimed for the sensor fault and
for a lost pose: the lock's test (`should_cancel`) leaves these two flags out, so
a goal accepted at that moment is driven to its end.

Data that is left out: poses, messages, events, the database, feedback, and the
verdicts of the three action servers (a Boolean chosen freely). The database is
`MissionPersistence`'s subject; what its failure does to this module's control is not
modelled in either. `_transition` writes the row and the event after it has moved the
state (`mission_manager.py:1117-1118`), and an exception there skips what its caller
does next, for pause and emergency stop the cancellation of the goals (976-978,
1038-1040). Everything said of the mission manager here is said of transactions that
succeed.

`MissionLifecycle` is what a submitter relies on: one patrol at a time, every
checkpoint from the requested one accounted for once per lap and in order,
COMPLETED only at the end of the route, an outcome that stands until the next
patrol. `KeepsPromise` maps `status` to the activity of the coroutine, `position`
to `index` and `accounted` to `completed + skipped`.

### 3.2 SafetyMux

`rclpy.spin` runs one callback at a time, so every callback is one action. `Tick`
passes time: ages, the clear delay and the history variables `standing` (how long a
condition has held) and `since_seen` count in ticks and saturate above every limit
they are compared with. `elapsed` bounds the time between two runs of the timer by
`Period`. The mux starts in any of its modes (`default_mode` is a parameter). A twist
is its forward speed `x`, which overrides and the slow zone
change, and `z`, for the components that pass unchanged.

### 3.3 ControlLease

A thread per client handles its requests in turn; the lease changes under a lock
and what follows from it (zero twist, event, `set_mode`) is published afterwards:
`at[s]` says what is still to be published. A lease holds a countdown `left`;
`quiet` is the age of the last twist on `/cmd_vel_manual`. Time passes at any point
of any thread. `lag[s]` is the time since the thread of `s` checked the lease of a move
(`app_server.py:456`) that it has not published yet (460); nothing in the code limits
it, and `MaxLag` is the assumption one makes of the scheduler: `FreshMoveHasHolder`
speaks of commands younger than the lease time less `MaxLag`, and `OnlyHolderMoves`
(section 6) shows what a longer delay does. A twist is known by its author; a move may
carry zero. A closed session stands for the next connection.

### 3.4 AppBridge

Requests are a check and an act, in two steps, since the thread of a client waits
for an action server or a service between them. The callbacks of the two action
clients and of `/mission/status` are one step each. Nav2 and the mission manager
appear as the bridge can observe them: they accept or refuse, move, and end; a goal
Nav2 accepts ends the one before, and nav_goal may replace a goal at any time, since the
code tests for patrols only. Any number of clients act at once; `Consoles` are patrols
started past the bridge. Three orders are assumed: Nav2's answers are handled in the
order of the goals; an answer to a patrol is handled before its next change of state
(milliseconds against seconds); and a patrol's result after the states published before
it. A result, on the other hand, may be handled after the answer to the next goal or
patrol, which then loses its handle: `overtaken` and `outrun` are the history of that.
The cached states of a patrol
are folded into NAVIGATING (all states the bridge lists as active), BLOCKED (the one
it leaves out), PAUSED and the ends (`Seen`); a patrol moves by any transition of the
table whose fold it is in, and each one is published, also when the fold stays.

### 3.5 RuntimeManager

Three actors: the executor (requests and the one-shot timer), the transition
thread, and the main thread, which runs `shutdown()` when the executor has stopped.
A launch is named by the generation that started it; `leader` is the child that
`Popen` returned, `nodes` the rest of its process group. `victim[t]`/`signal[t]` are
the locals of `_stop_profile_process` in each thread. That method reads the handle
(`Read`), and clears it and signals the group if the leader lives (`Take`), in two
steps: no lock is held around them (`node_manager.py:340`), so that the transition
thread and the main thread may take the same process. The one that comes second may find
its group gone or its log closed, which raises (`StoppedTwice`). A leader ends on a
signal or by itself, its nodes with it, before it (`NodesEnd`) or, with `orphans`, after
it. `Faults` chooses what may go wrong: `crash` (a process dies by itself), `orphans`
(nodes survive their leader), `unkillable` (a group survives SIGKILL for the three
seconds the manager waits), `shutdown`. `LeftOver` are the launches that no step of the
manager reaches any more: those whose leader is gone, and `lost`, those that survived
SIGKILL.

### 3.6 CheckpointVerifier

`rclpy.spin` runs one callback at a time, so an iteration of the polling loop is one
step (`Iteration`, one action per way through it), and a goal that arrives during
another is always refused. `Tick` passes time; `Period` bounds the time between two
polls, the load of the executor included. A pose is reduced to `inside` (distance,
angle and covariance within the goal's limits), a motion message to `still`, both
with their age. Frames are numbered as by `_marker_sequence`; `misses` are those
without the expected marker, and the deque holds the last `FrameCache` of them.
`MarkerConfirmationTracker` is written in closed form: the count at a frame is the
length of the streak that ends there, on top of the former count if the streak
reaches back to it and nothing was dropped. An evidence file that raises (OSError or an
error of OpenCV) aborts the goal. `begun`, `proof`, `lost_for` and `steady`
are history. A stored image is a free choice between success and
EVIDENCE_WRITE_FAILED. Poses may come at any time, although AMCL as configured may
publish none while the car stands; then the goal times out.

### 3.7 MissionPersistence

Two threads write: the coroutine and one callback. A call of `_transition` is not one
step: `calls[t].phase` goes from `move` (the state, under the lock) over `snap` (the
arguments of the row are read) and `write` to `append` (the event); the other thread, a
failing transaction or a crash may come between any two of them. A transition to the
state that is current already writes its row with the lock held. `db` is what the
database holds of each mission, `mem` the `MissionRuntime`, `client` what the client
asked for and was told. Events are kept only where a property speaks of them; the
others are `NOTE`s, whose append changes nothing that is kept. `Crash` takes the memory
and the calls in flight; `Restart` is `recover_incomplete_missions`; `ContinueNext` and
`RetryCurrent` are the two ways `list_recoverable_missions` offers, as the operator
uses them: a new mission with the index it names. `covered` and `base` are history: what
the missions a mission continues had accounted for, or the operator chose to leave.

### 3.8 InspectionExecutor

`rclpy.spin` has one thread. While the coroutine is awake nothing else runs, the
blocking request to the VLM included; it sleeps in its three polling loops only, and
`Period` bounds the time between two polls. Frames are named by their stamp; they
arrive in order and may be lost, and so may the detector's reports, which come on a
topic of their own, later than the frame or not at all. The image cache is the last
`ImageCache` frames received, the detection cache the last `DetectionCache` reports. A
payload keeps what the schema looks at: an error, the list of detections, the models
that were active, and for each hit its model and confidence. The VLM answers any review
the parser admits, or raises; each file may be refused by the store: an image is then
skipped, a refused detection or review file changes nothing but the result's `files`, a
refused result withdraws the verdict. The time of the VLM's request is not counted: it
is bounded by its own timeout only, so `AnsweredInTime` leaves it out, and the age of a
report is that of the judgement, not of the publication.

### 3.9 SafetyChain

The state of the nodes and the messages between them, one queue per topic and
publisher; each node handles its messages in order, and the queues drain in any order.
A sensor publishes at most once in a tick, and a message is handled within the tick it
was sent in (`Delivered` in `Pass`): a hop takes milliseconds, a tick stands for the
period of a timer. The health monitor may be stopped and started at any moment, as the
profiles do; the other nodes stay up. The geometry of a scan is reduced to the nearest
sample in each node's front window, 0 for a window without one. `silent`, `late` and
`blocked` are history: `late` counts how long a fault has been due that the monitor
should report, `blocked` the time since a scan showed the way blocked. `Reaction`, the
monitor's and the mux's periods, is all the time a fault has to reach the wheels.

## 4. The runs

Every run finishes within five minutes; distinct states in brackets.

| Run | Question | Shows |
| --- | --- | --- |
| `mission_control` (5.5 M) | two checkpoints with check-in and inspection, one extra lap, every operator command and emergency stop | `StopCancelsGoal`, `PausedIsStill`, `ParkedIsHeld`, `OutcomeAgrees`, `Accounting`, `TableIsKept`, and the implementation of `MissionLifecycle` (`KeepsPromise`) |
| `mission_sensors` (4.5 M) | obstacles, sensor faults, lost pose, stops, cancel and resume, no pause | `ParkedIsResumable`, `ClearNotLost` |
| `mission_rests` (0.5 M) | a checkpoint with everything that retries, pause, resume, cancel, emergency stop, obstacle and sensor fault, under fairness | `CancelDuringGoalEnds`, `ComesToRest` |
| `persistence` (9.6 M) | two missions over two checkpoints, the second continuing the first after a crash at any step, one callback or failing transaction anywhere | `RowIsBacked`, `ToldIsStored`, `ChainIsCovered`, `NothingIsForgotten`, `CompletionIsEvidenced` |
| `mux` (2.6 M) | two driving sources and the lidar, mode changes, operator stop, sensor fault, person stop, slow zone, override | `SelectedDrives`, `PersonSlows`, `NoEarlyRestart`, `StopEnds` |
| `safety_chain` (6.3 M) | two sensors, five zones in front of the car, both lidar nodes in control, the monitor coming and going | `SilenceStops`, `BlockedWayHolds` |
| `lease_control` (12 k) | two clients around the expiry timer, threads held up between check and twist | `FreshMoveHasHolder`, `HolderKeeps`, `SilentLosesLease` |
| `bridge_clients` (1.5 M) | two clients and the console, two goals, three patrols, one of them the console's; goals replaced at any time | `GoalIsKnown`, `PatrolIsKnown`, `ChecksSeeMotion` |
| `runtime_switch` (419 k) | four switches, launches that crash, fail, leave orphans or survive every signal | `ExclusiveProfiles`, `RestIsTold`, `EndIsFinal`, `TransitionEnds` |
| `runtime_faults` (1.6 M) | all faults, an initial profile, a shutdown at any moment | `ShutdownEnds` |
| `verifier_checkin` (7.8 M) | a goal of each method, fresh and stale poses, four frames and a cache of two | `ProofIsConsecutive`, `LossRestartsDwell`, and the implementation of `GoalServer` (`ServesGoals`) |
| `inspection_goals` (12.6 M) | two kinds of goal, one with a threshold of zero, three frames, four kinds of report, caches of one and two | `EvidenceIsOwn`, `TrustedIsStored`, `VerdictRests`, and the implementation of `GoalServer` (`ServesGoals`) |

Type correctness, the inductive invariants and a few weaker properties (`StopIsPrompt`,
`ObstacleHolds`, `CancelNeverDecides`, and `AnsweredInTime`, which
`ServesGoals` contains) are proved and not repeated in a run: the proofs cover every
instance.

### Bounds, and why they are enough

* **Two checkpoints** (`PatientRoute`): one with every policy that waits for the
  operator, one that skips, alerts and continues, with an optional and a required
  task. Code treats a checkpoint by its own policy and `index` alone, so a second
  one of another kind shows what is carried over (`retry`, `task`, flags). The
  aborting policies end the patrol and are left to the proofs. `MaxLaps = 1`
  makes a lap start over once. `RetryCap` saturates above every limit, `FailCap`
  because `failed` only accumulates. The sensors are in a run of their own to
  keep both runs small; the theorems cover all of them together.
* **Mux**: timeouts of one tick and a period of one, so that a command grows stale
  between two runs of the timer; a clear delay of one, within which a person may come
  back or a stop arrive. Speeds on both sides of the slow limit, forward and backward.
  Longer delays and timeouts are covered by the proofs.
* **Chain**: the mux's period of one and the monitor's of two let the timers drift
  apart; one sensor times out at once and one a tick later; a scan shows nothing, the
  stop zone, the slow zone on both sides of the warning's hysteresis, and a free way.
  `EnableControl` and `PublishEstop` are on, which adds a second publisher to two
  topics. The other settings of the parameters are left to the proofs.
* **Persistence**: a mission can be continued once, so that the index written by one
  mission is where the next begins; with two checkpoints there is one before and one
  after it. One disturbance at a time (a callback or a failing transaction); any number,
  longer chains, later starts and looping routes are covered by the proofs only.
* **Inspection**: three frames, so that frames go unread, are pushed out of a cache of
  one, or are reported on late; limits of one or two polls (a settling time of two) on both sides of every test.
* **Lease**: a lease of four ticks, a timer of two and delays of up to two: a lease may
  lapse before, at and after a run of the timer, as with 1 s and 0.1 s, and a move be
  published when half of its lease is gone.
* **Bridge**: two clients, which are alike (symmetry), so that one can act between the
  other's check and act; two goals, so that the second is sent before, between and after
  Nav2's answer to and the result of the first; two patrols of the clients' beside one of
  the console's, so that a request is refused, or sent, while another patrol is under
  way, and a late result meets the next patrol. One published state is under way at a
  time. More of each is left to the proofs, which hold for any number.
* **Runtime**: four generations let a failed transition be followed by a successful
  one and another stop; the executor accepts one at a time, so nothing reaches back
  further than the process held before.
* **Verifier**: a proof of three frames and a cache of two, so that frames are lost
  between two polls and a proof must span several; four frames allow a first
  attempt to fail; time limits of one or two periods on both sides of every test.

* **Mission under fairness**: obstacle and sensor fault come and go at any moment and in
  the end stay as they are (`Steady`); the pose is not required, so it plays no part.

`CHECK_DEADLOCK FALSE` is said only where the numbered supply runs out: goals and
patrols in the bridge, generations in the runtime manager.

### Fairness, and why the code justifies it

* Mission: weak fairness of the coroutine and of the callbacks between flag and
  transition. The executor keeps a ready coroutine and a running callback going, and
  every action server has a timeout or answers its goals. No operator or sensor is
  fair: a mission may wait for ever, and `ComesToRest` says that it then waits
  visibly, for the operator or for an obstacle that is still there. It assumes
  `Steady`: with an obstacle or a fault that flaps for ever the coroutine may go round
  for ever, since a disturbed check-in and an obstacle that goes in time count no retry.
* Mux: time passes, and the timer runs. Nothing is assumed of any publisher.
* Lease: time passes, the timer runs, and a thread finishes what it does. No
  client is fair.
* Runtime: both threads go on; the bounded `wait`s time out (`Escalate`); a leader
  that was sent SIGKILL ends, except where `unkillable` allows the wait to be given up.

## 5. What is proved

TLAPS checks the proofs for every value of the constants that satisfies the named
assumptions, which are the ranges of the parameters.

| Module | Theorems | Argument |
| --- | --- | --- |
| `MissionManagerProofs` | `Inductive`, `TypeCorrect`, `StopReachesGoal`, `PauseIsStill`, `WaitIsHeld`, `WaitIsResumable`, `ClearIsSeen`, `CheckpointsAccounted`, `OutcomeIsTrue`, `TableKept`, `KeepsLifecycle` | one inductive invariant, below |
| `SafetyProofs` | of the mux: `MuxInductive`, `StopsPromptly`, `RestartsLate`, `DrivenBySelected`, `HeldByObstacle`, `SlowedByPerson` | what stood at the last run of the timer shows in what it published, and `elapsed` never exceeds the period |
| | of the chain: `ChainImplementsMux`, `ChainInvariant`, `SilenceStopsCar`, `BlockedWayHoldsCar` | a fault and an override are followed through the queues, on top of the mux's invariant |
| `MissionPersistenceProofs` | `PersistenceInvariant`, `PersistenceTypes`, `RecoveryIsBacked`, `AnswersAreStored`, `RouteIsCovered`, `CutOffIsOffered`, `RecordFollowsEvidence` | everything an index is copied from is backed by events |
| `InspectionExecutorProofs` | `ExecutorInvariant`, `EvidenceOfGoal`, `AnswerInTime`, `ExecutorServes`, `NoVerdictAfterCancel`, `VerdictInvariant`, `TrustIsStored`, `VerdictIsReported` | the times of the loops add up; what a verdict rests on stands until it is published |
| `ControlLeaseProofs` | `LeaseInvariant`, `FreshMoveIsHolders`, `LeaseIsKept` | two clocks run against each other: the rest of a lease, the age of the last move it allowed and the delay of that move add up to the lease time |
| `CheckpointVerifierProofs` | `VerifierInvariant`, `MarkerIsProved`, `GoalIsAnswered`, `VerifierServes`, `DwellIsWhole` | the count stands for the last frames read, the dwell for time without an unnoticed loss |
| `RuntimeManagerProofs` | `ManagerInvariant`, `ManagerTypes`, `ProfilesExclude`, `StatusTellsRest`, `ReportedEndIsFinal` | whatever lives is held, being waited for or given up; a report of the end is the last step of its thread |
| `AppBridgeProofs` | `BridgeTypes`, `GoalInvariant`, `CancelReachesGoal`, `ManagerInvariant`, `PatrolStaysKnown`, `ChecksHold`, `PatrolInvariant`, `PatrolHandleIsKnown` | a handle is lost only where an earlier result follows a later answer; a state the checks pass is never the last word on a patrol that moves |

**Mission.** `IInv` is the conjunction of eight parts. The safety properties are
not inductive by themselves: that a stop reaches the goal depends on the transition
of the emergency stop never being refused while a goal is out, since a refused one
raises before it cancels. `StateFollowsPlace` supplies that: from the first
transition to the last the state is an active one, and every active state admits
ESTOPPED. For a pause the strengthening is that a pause still to be carried out is
not waiting behind ESTOPPED. `WithinRoute` is needed because `Route[index]` is read;
`FuturesFollowPlace` because a resume must find its future in one place only.
`WaitIsResumable` assumes that no pause command arrives, which is exactly the
condition that section 6 shows to be needed. `KeepsLifecycle` maps
each step to `Account`, `Lap`, `Begin`, `End` or a stutter, using `IInv` for the
accounting and the final states.

**Mux.** `StandingShows` relates the published command to how long a condition has
stood compared with `elapsed`; `DelayIsWhole` says that the clear delay never runs
ahead of the absence of the person. Together with `TypeOK` they are inductive.

**Lease.** `LeaseCoversMoves`: while a validated move waits for less than the lease
time, its session holds the lease, of which `left + lag >= Timeout` remains; once it is
published, `left + quiet + MaxLag >= Timeout` as long as it counts as fresh.

**Runtime.** `NothingForgotten` says that until a shutdown every living leader is the
one the manager holds, the one its transition waits for, or one it has given up, and
that it holds none when it launches. `ProfilesExclude` assumes nothing of faults: what it
excuses are the launches in `LeftOver`, by definition out of the manager's reach (and
`NeverSideBySide`, which excuses none, is among section 6's rows). `StatusTellsRest` and
`ReportedEndIsFinal` assume `InitialProfile = "idle"` and nothing else: with an initial
profile the timer's own request breaks both (section 6). For the second, `NotYetOver`
says that no generation of a transition that is still to report its end has one reported.

**Verifier.** `CountIsRun` says that the count stands for as many frames up to the
last one read, all shown and all of the goal; the lemma `CountIsRunAt` carries it
through an iteration, whatever was dropped. `DwellIsSteady` relates the dwell to
the time since a loss that lasted longer than a period, and `PolledInTime` the
time of the goal to that of its last poll.

**Goal servers.** `VerifierServes` and `ExecutorServes` map the goal's state and
outcome as they are, and the time left to the rest of its limit. An answer within time
is then a property of the abstract time: `Pass` leaves one unit at least, so a step of
`Tick` refines it only while the bounds above hold after the step as well, and the step
lemma uses `AnsweredInTime` on both sides. Of the executor's ways on, those with
CANCELED are taken only by a goal that is canceling, and every other end is awake,
hence of a goal that exists (`PlaceAgrees`).

**App bridge.** For any number of clients, goals, patrols and consoles. `GoalIsKnown` is
not inductive: that the handle is the driven goal's rests on the order in which Nav2
decides and answers (`InOrder`), and on results following responses (`Told`). The one way
to lose a goal, a result handled after the next goal's answer, is in the statement
(`overtaken`), because the code has it; that a refusal, a second client's request, a
cancellation or a console's patrol is no other way is what the theorems add. For patrols
the strengthening is `PatrolsInTurn`: the manager drives one at a time, and the last word
published is never PAUSED while one moves, which is what a takeover relies on.
`ChecksHold` is about the checks alone. What is done after them, by another thread or
later, is not excluded by the code: `NavigationExcludesPatrol` and `ActsOnStandingCar`
are rows of section 6 and theorems of nothing. `PatrolInvariant` and
`PatrolHandleIsKnown` are the special case of one client and no console, whose own
requests do wait for each other: there no patrol is lost at all, `PatrolIsSeen` saying
that until its answer is in, only the patrol's own first state can overwrite
`goal_requested`. With two clients `PatrolIsStored` is violated (section 6).

**Chain.** `FaultIsSent` says that a fault due since before the monitor's last run has
been reported, on its way or taken; it needs `HeardIsTrue` (the monitor believes a
sensor healthy only if it is) and `OneAtATime` (what is under way was sent in this
tick). `FaultStands` carries it through the mux: the stop has stood at least as long as
the fault has been due, less the monitor's period, and `StandingShows` of the mux's
invariant does the rest. For the lidar, `NothingLifts` says that while the way is blocked
no message under way lifts the override, `OverrideComes` that what raises it is under
way in the tick of the scan, and `OverrideStands` that it stands from then on.

**Persistence.** An index is copied from memory into a row some steps later, by either
thread. `IndexIsBacked` therefore speaks of the memory, of every row in flight and of the
stored ones alike: each checkpoint before the index has its event. `OutcomeIsStored`
and `WholeRoute` follow the end of a patrol up to the client, `CheckpointIsEvidenced` the
records of the checkpoint the coroutine works on, and `OneCoroutine`, `PatrolCall`
and `CallbackCall` say what the two calls in flight may be at each place.

**Inspection.** `TimesAddUp` bounds the time of the goal by that of the loop it is in
and the limits of the loops before. `VerdictHolds` says of a verdict that is about to be
published that it may be; between judging and publishing the coroutine holds the thread,
so that no report is pushed out in between (ages are those of the judgement, see 3.8).
No threshold is excluded: at zero a report passes without a detection, which `Passes`
spells out and `PresentIsSeen` (section 6) shows to be a disagreement.

Only model-checked: everything under fairness (`ComesToRest`, `CancelDuringGoalEnds`,
`StopEnds`, `SilentLosesLease`, `TransitionEnds`, `ShutdownEnds`), which is out of the
prover's reach. Every other property of a run is stated by a theorem.

## 6. Where the code and its documents disagree

The modules state these under "What comments and documents say, and the code does
not do" (or among the properties). No run checks them; each is reproduced by
checking the formula with the constants given. The small mission instances have
N = 1, MaxNavRetries = MaxBlockedRetries = 1, RequireLocalization = FALSE,
Loops = {FALSE}, RetryCap = 2, FailCap = MaxLaps = 0.

| Formula | Constants | What happens |
| --- | --- | --- |
| `MissionManager!ResumeKeepsMission` | `PlainRoute`, Controls resume; Signals sensor_fault | `mission_manager.py:370`: _navigate_checkpoint returns the 'retry' of _wait_for_operator to _execute_patrol, which knows only 'cancelled', 'failed' and 'skipped' and takes it for an arrival: WAITING_OPERATOR does not admit ARRIVAL_CONFIRMING, and the exception ends the mission as FAILED. mission_manager.py:1007 tells the operator 'Resume accepted; navigation will restart at the current checkpoint'. |
| `MissionManager!ParkedIsResumable` | `PlainRoute`, Controls pause, resume; no Signals | `mission_manager.py:973`: A pause is accepted in WAITING_OPERATOR and moves the state to PAUSING while the coroutine sleeps on resume_future; resume is refused in PAUSING (line 990), so the mission can only be cancelled. docs/复杂巡检场景详细实施方案.md:1093 says of pause '/ 暂停 / 暂时停止任务 / 保留上下文 / 显式继续 /'. |
| `MissionManager!PauseKeepsMission` | `PlainRoute`, Controls pause, resume; no Signals | `mission_manager.py:975`: The pause callback enters PAUSING from any state that admits it, while the coroutine may be about to enter NAVIGATING, CHECKING_IN, CAPTURING or RECORDING, which PAUSING does not admit: the refused transition fails the mission. docs/复杂巡检场景详细实施方案.md:1093 says '/ 暂停 / 暂时停止任务 / 保留上下文 / 显式继续 /'. |
| `MissionManager!EstopNeedsResume` | `PlainRoute`, Controls resume; Signals estop | `mission_manager.py:383`: The stop is tested by _wait_if_stopped before _blocked_outcome; an emergency stop after that test sets ESTOPPED, which admits NAVIGATING, so the coroutine announces NAVIGATING and sends the goal with estop_active still set and nobody having resumed (the goal is then cancelled through should_cancel). mission_manager.py:920 says 'Safety stop is active; explicit resume is required after release'. |
| `MissionManager!ObstacleNeverFails` | `PatientRoute`, N = 2, Controls resume; Signals obstacle | `mission_manager.py:885`: _blocked_outcome enters BLOCKED from whatever state the loop was re-entered in; RECORDING, LOCALIZING, PAUSED, WAITING_OPERATOR and ESTOPPED do not admit BLOCKED, and the refused transition ends the mission as FAILED. docs/复杂巡检场景详细实施方案.md:984 says '5. 超过最大重试次数后进入 `WAITING_OPERATOR`。' (a blocked mission ends up waiting for the operator). |
| `MissionManager!CancelNotLost` | `PlainRoute`, Controls pause, cancel; no Signals | `mission_manager.py:1207`: _request_cancel completes resume_future only when it already exists; a cancel that arrives between the transition to a waiting state and the creation of the future in _await_resume (line 933) is not tested again before the await, so the mission goes on waiting. docs/复杂巡检场景详细实施方案.md:1095 says of cancel '/ 取消 / 结束本次任务 / `CANCELLED` / 重新创建任务 /' (ends this mission). |
| `MissionManager!CancelledReported` | `PlainRoute`, Controls cancel; no Signals | `mission_manager.py:1291`: After a cancel through /mission/control the goal handle is still executing, goal_handle.canceled() raises, the except clause calls _finalize_failed, whose CANCELLED -> FAILED is refused in turn, and rclpy aborts the goal: the client is told ABORTED for a mission stored as CANCELLED. docs/复杂巡检场景详细实施方案.md:1456 lists for acceptance '取消后 Action 返回 `CANCELLED`' (after a cancel the action returns CANCELLED). |
| `MissionManager!CancelEndsBlocked` | as `mission_rests` | `mission_manager.py:889`: a mission that waits in BLOCKED sleeps on obstacle_clear_future, which _request_cancel does not complete (1203-1208 know resume_future only) and the wait has no time limit; a cancelled mission goes on waiting until the obstacle goes. docs/复杂巡检场景详细实施方案.md:1095 says of cancel '/ 取消 / 结束本次任务 / `CANCELLED` / 重新创建任务 /' (ends this mission). |
| `ControlLease!ZeroAfterLease` | as `lease_control` | `control_lease.py:59`: Every method of ControlLeaseManager first drops a lapsed lease (expire at 29, 49, 66, 76), and app_server calls one for each status snapshot and each refused request; only _expire_control_lease (app_server.py:658) publishes the zero twist and the control_lease event, and only if its own expire() is the one that drops the lease. A lease first noticed by anything else ends with neither. docs/APP桥接协议.md:207 says "4. 客户端断线、主动释放或超时后，车端立即向 `/cmd_vel_manual` 发布零速度，并广播 `control_lease` 事件。" |
| `ControlLease!OnlyHolderMoves` | as `lease_control` with Timeout 2 | `app_server.py:456`: the lease of a move is checked under the lock and the twist published at 460 after it, without a second look. A thread that is held up in between for longer than the lease lasts moves the car after another client has acquired it. docs/APP桥接协议.md:197 says of the lease "这样可以防止两个 APP/控制台同时向小车发速度命令。" (so that two clients never send velocities at once). |
| `AppBridge!GoalIsStored` | as `bridge_clients`; one client and one patrol are enough | `app_server.py:1003`: nav_goal is accepted while another goal is under way (832 tests the mission only). Nav2 ends the first goal when it accepts the second; if the first one's result callback runs after the second one's response callback, _on_nav_result clears the handle of the second goal and records 'finished'. The car drives on, nav_cancel is refused, and takeover, patrols and profile switches are allowed. docs/APP桥接协议.md:343 says "/ `nav_cancel` / 无 / 取消由此桥接提交的已接受单点导航目标 /". |
| `AppBridge!PatrolIsStored` | as `bridge_clients`; with `Consoles = {}` and two patrols as well | `app_server.py:1050`: two clients may both pass mission_start's check, and a patrol may end and its successor be accepted before the first result is handled: _on_mission_result then clears the handle of the second, and mission states that are not listed as active ('blocked', line 880) let a navigation goal or a takeover through. docs/复杂巡检场景详细实施方案.md:1185 says "/ `nav_goal` / `nav_cancel` / 位姿 / 无 / 单点导航；与巡检任务互斥 /". |
| `AppBridge!NavigationExcludesPatrol` | as `bridge_clients` with `Consoles = {}`, one goal, one patrol | `app_server.py:832`: _set_navigation_goal tests _mission_is_active, then waits for Nav2's action server for up to service_call_timeout_sec (10 s) and sends the goal without testing again; _start_mission from another client's thread finds neither a goal nor a navigation state in between. docs/复杂巡检场景详细实施方案.md:1490 says "5. 直接 Nav2 单点目标与巡检任务在车端互斥，避免两个客户端同时提交导航目标。" A single client that replaces a goal brings the same about: the late result of the first clears the second's handle, and mission_start is admitted while the car drives (one client, two goals, one patrol). |
| `AppBridge!NavigationExcludesPatrol` | as `bridge_clients` with one client, one goal, one patrol, the console's | `app_server.py:880`: The list of active mission states leaves out 'blocked'. A patrol whose goal handle the bridge does not hold (started from the operator console, or before the bridge was restarted) counts as over while it is BLOCKED, and nav_goal is accepted. docs/复杂巡检场景详细实施方案.md:1185 says "/ `nav_goal` / `nav_cancel` / 位姿 / 无 / 单点导航；与巡检任务互斥 /". |
| `AppBridge!ActsOnStandingCar` | as `bridge_clients` with `Consoles = {}`, one goal, one patrol; or one client and two goals | `app_server.py:597`: _acquire_control_lease tests _navigation_is_active and grants the lease some steps later, while another client's thread may have passed nav_goal's check in the meantime, which asks for neither lease nor profile; runtime_switch waits for a service between check and effect. docs/APP桥接协议.md:211 says of a takeover "（直接导航则先 `nav_cancel`）；此后 `teleop_acquire` 才会成功" (only then does it succeed). |
| `AppBridge!CancellationEnds` | as `bridge_clients`; one client, one goal and one patrol are enough | `app_server.py:870`: The thread of nav_cancel writes 'cancel_requested' after it has asked for the cancellation; if the result callback runs in between, nothing ever replaces that state, and _navigation_is_active stays true without a goal: takeover, patrols and profile switches are refused until another goal is sent or the bridge restarts. docs/APP桥接协议.md:179 tells the client "如果存在活跃的直接导航目标，调用 `nav_cancel` 并等待其结束", an end that never comes. |
| `AppBridge!SentGoalIsAnswered` | as `bridge_clients`; one client, one goal and one patrol are enough | `app_server.py:862`: _set_navigation_goal writes 'goal_sent' after send_goal_async; the response callback runs on the executor's thread and may already have written 'rejected' (or, with the result, 'finished'). The goal then counts as active for ever, although docs/APP桥接协议.md:179 "如果存在活跃的直接导航目标，调用 `nav_cancel` 并等待其结束" applies only to an active goal, and nav_cancel is refused for want of a handle. |
| `CheckpointVerifier!NoMovingProof` | as `verifier_checkin` with one visual goal of dwell 0 and two frames | `checkpoint_verifier.py:259`: The frames read after the dwell include those received before it, as far as they are not older than `image_max_age_sec` (1 s); a dwell shorter than that lets frames taken while the car still moved confirm the marker, and a count from before a loss of the fence goes on after it. docs/APP桥接协议.md:289 says that "移动中检测" (a detection while moving) fails. |
| `RuntimeManager!NeverSideBySide` | as `runtime_switch` | `node_manager.py:344`: _stop_profile_process signals the process group only if its leader still lives (process.poll() is None). When ros2 launch has died by itself (out of memory, a killed leader), nodes of its group that survived it are never signalled: the next profile is launched beside them. A group that survives SIGKILL for three seconds (356) is forgotten as well, since the handle was cleared before. docs/APP桥接协议.md:99 says "`mapping`、`navigation`、`mission` 三个任务配置互斥". |
| `RuntimeManager!ReadyIsUsable` | as `runtime_switch` | `node_manager.py:187`: Nothing looks at the process after _wait_for_profile_ready has returned. A profile that dies later stays READY with ready = true, and _queue_transition refuses a request for the same profile as already active (187), so it can only be restarted by way of another one. docs/APP桥接协议.md:110 says "/ `ready` / boolean / 当前运行态是否已就绪可用 /". |
| `RuntimeManager!ActiveIsInEffect` | as `runtime_switch` | `node_manager.py:219`: _active_profile is not changed when the old profile has been stopped: the STARTING status (and the whole wait for readiness, up to 45 s) names the stopped profile as the active one. docs/APP桥接协议.md:106 says "/ `active_profile` / string / 当前生效的运行态". |
| `RuntimeManager!FailureIsReported` | as `runtime_switch` | `node_manager.py:356`: process.wait(timeout=3.0) after SIGKILL may raise TimeoutExpired (a process in an uninterruptible wait, as with a hanging device). Raised from line 231, inside the except clause, it ends the thread: lines 232-236 do not run, the status stays STARTING or STOPPING for ever, no zero velocity is published. car_runtime_manager/node_manager.py:34-36 says "Every transition selects manual control and publishes zero velocity before the previous profile is stopped, and does the same on every failure path." |
| `RuntimeManager!NothingLeftBehind` | as `runtime_switch` with all faults | `node_manager.py:255`: _run_transition tests _shutdown_event only between two polls of the readiness. If shutdown() takes the handle (None) while the thread is at lines 218-255, the launch is started afterwards in a session of its own; the daemon thread then dies with the interpreter and the profile drives on without a manager. car_runtime_manager/node_manager.py:229 says of a transition that goes wrong "Keep a failed profile from remaining partly active." |
| `RuntimeManager!EndIsFinal`, `RestIsTold` | as `runtime_switch` with InitialProfile = "navigation" | `node_manager.py:139`: If a client's request is accepted before the one-shot timer fires, _start_initial_profile's own request is refused and line 139 publishes FAILED, active profile idle, with the generation of the client's transition, which goes on and reports READY later. docs/APP桥接协议.md:173 says "APP 应继续等待当前 generation 的终态，而不是重复提交": the APP sees an end that is none. |
| `InspectionExecutor!RecordIsKept` | as `inspection_goals` | `evidence_store.py:66`: a result is stored with the extension json, so that its sidecar `<name>.json` has the file's own name and overwrites it; the published path holds the digest of a content that is gone. docs/复杂巡检场景详细实施方案.md:1590 says "每次任务保存抓拍图、原始本地检测 JSON、可选 VLM 原始响应和最终结果 JSON，并由 `EvidenceStore` 写入 SHA-256 sidecar". |
| `InspectionExecutor!PresentIsSeen` | as `inspection_goals` | `inspection_schema.py:124`: the best confidence begins at 0.0 and is compared with `>=`, so that a report without any detection of the target is PRESENT. docs/复杂巡检场景详细实施方案.md:1594 says "低于阈值或未检测到目标也仍为 `UNKNOWN`". |

Further disagreements, seen while the code was translated:

* **Inspection.** With `inspection_allow_local_absent`, a target reported on one published
  image is concluded ABSENT when that report is too old by the time of the verdict, or
  pushed out of its cache, and another image's report does not show it
  (`AbsentIsHonest` states the expectation). A detection or review file that the store
  refuses is noted in the result's details, and the verdict is still given without a
  review (`inspection_executor.py:247`, 260; `EvidenceIsKept`). A cancel accepted after the last poll of
  a capture that got no image is answered with a result (`CancelIsAnswered`). A full disk raises OSError, which
  only `EvidenceStoreError` is caught for: the goal is aborted.
* **Mission manager.** A status write that fails inside the transition of a pause or an
  emergency stop (`mission_manager.py:1117`) raises before the goals are cancelled
  (976-978, 1038-1040): the state says PAUSING or ESTOPPED, and the goal is driven on
  until the mux stops the car (for the emergency stop) or the goal ends. No module here
  has both the database and the goals.
* **Persistence.** A callback that has moved the state to ESTOPPED or PAUSING and is
  late with its row overwrites the row of a patrol that has ended meanwhile; after
  the next restart that mission is offered for recovery. A crash between the row and
  the event of one transition leaves the one without the other, and one failing
  transaction in the finalizer lets a client be told FAILED with no MISSION_FAILED
  event. `continue_next_checkpoint_index` may equal the number of checkpoints
  (`tests/test_mission_core.py:284` expects it), and so may the retry index; the
  manager refuses such a start. A recovered mission stays recoverable after it has
  been continued, and the route may have been replaced at the restart
  (`mission_manager.py:178`).
* **Safety chain.** A fault flag outlives the monitor that set it: stopped with its
  profile while a sensor is silent, it leaves the mux stopped until it runs again. A
  restarted monitor withdraws the fault for its grace although the sensor is still
  silent, which is why `SilenceStops` counts from the end of the grace. With
  `enable_control` the warning withdraws the override the avoidance has raised in the
  slow zone, and `BlockedWayHolds` can only speak of a way that both find blocked. A
  `clear_distance` below `warning_distance` is accepted. The motion controller has no
  timeout: when the mux ends, its last command stays.

The missing zero twist of a lapsed lease (`ZeroAfterLease`) does not move the car by
itself: `FreshMoveHasHolder` shows that the command left behind is as old as the lease
time of 1 s, less the time its thread was held up for between check and twist, and the
mux drops a manual command after 0.6 s. A delay above 0.4 s is what it would take.

## 7. What is not modelled

* Of the mission manager: parameters and set-up, and the goals refused before a
  runtime exists. The verdicts of Nav2, the check-in and the inspection are free choices
  in `MissionManager`; the modules of these nodes say what the verdicts rest on.
* The text of reports, event details and reasons, and the paging of listings.
* Routes: validation of a document and versioned files, sequential. Maps: one directory
  per version, its manifest written last; a version without a readable manifest is not
  listed. What is left is parsing and arithmetic on the grid.
* App bridge: queries, routes, maps, person following, telemetry and the framing of its
  protocol; a client that does not read delays the broadcasting thread by wall-clock
  time no model here counts.
* Lidar tracker, keyboard teleop, vision, camera drivers: sources of the mux, free there
  (any command or flag at any moment).
* Nav2, launch files, the operator console, the Android app and the scripts: external
  code, configuration, terminal I/O.
* Real time beyond the counted ticks, and ROS message loss between nodes on one machine
  (the topics that matter are reliable); sensor messages may be lost everywhere.
