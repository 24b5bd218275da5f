----------------------------- MODULE SafetyChain -----------------------------
(***************************************************************************)
(* The nodes around the safety mux: car_mission/health_monitor.py,         *)
(* car_lidar/avoidance.py and warning.py feed it, and                      *)
(* car_control/motion_controller.py passes its command on to the base.     *)
(* SafetyMux's callbacks for the sensor fault, the lidar's override and    *)
(* the lidar's command happen here on a message one of the nodes has sent; *)
(* all its other inputs stay free.                                         *)
(*                                                                         *)
(* Bounds: a sensor publishes at most once in a tick, and a message is     *)
(* handled within the tick it was sent in, in any order with the messages  *)
(* of other topics and other publishers.  The health monitor               *)
(* belongs to the mission profile and may be stopped and started at any    *)
(* moment; the other nodes stay up.                                        *)
(***************************************************************************)
EXTENDS SafetyMux, Sequences

CONSTANTS
  Sensors,       \* the sensors the monitor listens to, with "scan"
  Limit,         \* [Sensors -> ticks]: scan_, image_, odometry_timeout_sec
  Grace,         \* startup_grace_sec
  CheckPeriod,   \* longest time between two runs of the monitor's timer
  Views,         \* scans: the nearest sample in the front window of each node
  FrontDistance, SlowDistance,     \* thresholds of the avoidance
  WarningDistance, ClearDistance,  \* thresholds of the warning
  AllowForward, TurnInSlow, PublishEstop, EnableControl,  \* parameters
  LinearSpeed, TurnSpeed, \* linear_speed, and how fast either lidar node turns
  MaxLinear, MaxAngular            \* max_linear_speed, max_angular_speed

LidarNodes == {"avoidance", "warning"}
NoSample == 0    \* no valid sample in the window

ASSUME MonitorAssumption ==
  /\ "scan" \in Sensors /\ Limit \in [Sensors -> Nat]
  /\ Grace \in Nat /\ CheckPeriod \in Nat \ {0}
ASSUME LidarAssumption ==
  /\ Views \subseteq [LidarNodes -> Nat]
  /\ FrontDistance \in Nat /\ SlowDistance \in Nat
  /\ WarningDistance \in Nat /\ ClearDistance \in Nat
  /\ {AllowForward, TurnInSlow, PublishEstop, EnableControl} \subseteq BOOLEAN
  /\ {LinearSpeed, TurnSpeed, MaxLinear, MaxAngular} \subseteq Nat
ASSUME LidarTwistAssumption ==
  Twists["lidar"] = [x: IF AllowForward THEN {0, LinearSpeed} ELSE {0},
                     z: {-TurnSpeed, 0, TurnSpeed}]

VARIABLES
  running,        \* the health monitor is up
  uptime,         \* time since started_at
  heard,          \* time since last_seen; a sensor never heard is too old
  unchecked,      \* time since _publish_health ran
  sent_fault,     \* messages under way on /system/sensor_fault
  scans,          \* scans each lidar node has not handled yet
  sent_twists, sent_overrides, \* what each has under way to the mux
  sent_stops,     \* messages of the avoidance under way on /emergency_stop
  warning_active, \* self.warning_active
  wheels,         \* the command last published on /cmd_vel
  silent,         \* history: time since a sensor last spoke
  late,           \* history: for how long a fault has been due
  blocked         \* history: 0, or 1 + the ticks since a scan showed the way blocked

monitor == <<running, uptime, heard, unchecked, sent_fault>>
lidar == <<scans, sent_twists, sent_overrides, sent_stops, warning_active>>
history == <<silent, late, blocked>>
chain_vars == <<vars, monitor, lidar, wheels, history>>

-----------------------------------------------------------------------------
(* Time within which a fault reaches the wheels: the hops between the nodes *)
(* take part of a tick.                                                    *)

Reaction == CheckPeriod + Period

\* Everything sent has been handled.
Delivered ==
  /\ sent_fault = <<>> /\ sent_stops = <<>>
  /\ \A n \in LidarNodes :
       scans[n] = <<>> /\ sent_twists[n] = <<>> /\ sent_overrides[n] = <<>>
-----------------------------------------------------------------------------
(* The sensors.                                                            *)

\* A scan for which the avoidance publishes the override, and the warning does
\* not withdraw it.
Blocks(v) ==
  /\ v["avoidance"] # NoSample
  /\ v["avoidance"] < SlowDistance
  /\ EnableControl =>
       v["warning"] <= WarningDistance /\ v["warning"] <= ClearDistance

\* A scan neither publishes the override for.
Unseen(v) ==
  v["avoidance"] = NoSample /\ (EnableControl => v["warning"] = NoSample)

Watch(v) ==
  IF Unseen(v) THEN blocked
  ELSE IF ~Blocks(v) THEN 0 ELSE IF blocked = 0 THEN 1 ELSE blocked

\* The monitor is up, its start-up grace is over and a sensor is silent.
Due == running /\ uptime >= Grace /\ \E s \in Sensors : silent[s] > Limit[s]

\* A sensor publishes, at most once in a tick; _seen notes it while the monitor is up.
Speak(s) ==
  /\ silent[s] > 0 /\ silent' = [silent EXCEPT ![s] = 0]
  /\ heard' = IF running THEN [heard EXCEPT ![s] = 0] ELSE heard
  /\ UNCHANGED <<vars, running, uptime, unchecked, sent_fault, sent_twists,
                 sent_overrides, sent_stops, warning_active, wheels>>
  /\ late' = IF Due' THEN late ELSE 0
  /\ IF s # "scan" THEN UNCHANGED <<scans, blocked>>
     ELSE \E v \in Views :
            /\ scans' = [n \in LidarNodes |-> Append(scans[n], v[n])]
            /\ blocked' = Watch(v)
-----------------------------------------------------------------------------
(* The health monitor.                                                     *)

\* The mission profile starts, and with it HealthMonitor.__init__.
StartMonitor ==
  /\ ~running
  /\ running' = TRUE /\ uptime' = 0 /\ unchecked' = 0
  /\ heard' = [s \in Sensors |-> Limit[s] + 1]
  /\ UNCHANGED <<vars, sent_fault, lidar, wheels, history>>

\* The profile is stopped; what has been published is delivered.
StopMonitor ==
  /\ running /\ running' = FALSE
  /\ late' = 0
  /\ UNCHANGED <<vars, uptime, heard, unchecked, sent_fault, lidar, wheels,
                 silent, blocked>>

in_grace == uptime < Grace

healthy(s) == heard[s] <= Limit[s]

\* Mutant: one sensor that is heard is enough.
any_healthy == ~(\E s \in Sensors : healthy(s)) /\ ~in_grace

fault == ~(\A s \in Sensors : healthy(s)) /\ ~in_grace

publish_health ==
  /\ running /\ unchecked > 0
  /\ unchecked' = 0
  /\ sent_fault' = Append(sent_fault, fault)
  /\ UNCHANGED <<vars, running, uptime, heard, lidar, wheels, history>>
-----------------------------------------------------------------------------
(* The lidar nodes.                                                        *)

Stop == [x |-> 0, z |-> 0]

override_active(front) == front < FrontDistance \/ front < SlowDistance

\* The avoidance's command: nothing in front of it, or the slow zone's.
Avoid(front) ==
  [x: {IF front >= FrontDistance /\ AllowForward THEN LinearSpeed ELSE 0},
   z: IF front >= FrontDistance /\ TurnInSlow THEN {-TurnSpeed, TurnSpeed} ELSE {0}]

\* AvoidanceNode._on_scan: a window without a sample leaves all as it is.
avoidance_on_scan ==
  LET queue == scans["avoidance"]
      front == Head(queue)
      sees == front # NoSample
      near == sees /\ override_active(front) IN
  /\ queue # <<>>
  /\ scans' = [scans EXCEPT !["avoidance"] = Tail(queue)]
  /\ sent_overrides' = IF ~sees THEN sent_overrides
       ELSE [sent_overrides EXCEPT !["avoidance"] = Append(@, near)]
  /\ IF ~near THEN UNCHANGED sent_twists
     ELSE \E t \in Avoid(front) :
            sent_twists' = [sent_twists EXCEPT !["avoidance"] = Append(@, t)]
  /\ sent_stops' = IF PublishEstop /\ sees /\ front < FrontDistance
                   THEN Append(sent_stops, TRUE) ELSE sent_stops
  /\ UNCHANGED <<vars, monitor, warning_active, wheels, history>>

\* Mutant: the warning's own distance is clear.
StrictWarning(front) ==
  front < (IF warning_active THEN ClearDistance ELSE WarningDistance)

warns(front) ==
  front <= (IF warning_active THEN ClearDistance ELSE WarningDistance)

\* WarningNode._on_scan.
warning_on_scan ==
  LET queue == scans["warning"]
      front == Head(queue)
      sees == front # NoSample
      warn == warns(front) IN
  /\ queue # <<>>
  /\ scans' = [scans EXCEPT !["warning"] = Tail(queue)]
  /\ warning_active' = IF sees THEN warn ELSE warning_active
  /\ IF ~(sees /\ EnableControl) THEN UNCHANGED <<sent_twists, sent_overrides>>
     ELSE /\ \E z \in IF warn THEN {-TurnSpeed, TurnSpeed} ELSE {0} :
               sent_twists' = [sent_twists EXCEPT !["warning"] =
                                 Append(@, [x |-> 0, z |-> z])]
          /\ sent_overrides' = [sent_overrides EXCEPT !["warning"] = Append(@, warn)]
  /\ UNCHANGED <<vars, monitor, sent_stops, wheels, history>>
-----------------------------------------------------------------------------
(* The mux takes a message, or one of its free inputs.                     *)

take_fault ==
  /\ sent_fault # <<>> /\ on_sensor_fault
  /\ sensor_fault_active' = Head(sent_fault)
  /\ sent_fault' = Tail(sent_fault)
  /\ UNCHANGED <<running, uptime, heard, unchecked, lidar, wheels, history>>

take_override(n) ==
  /\ sent_overrides[n] # <<>> /\ on_lidar_override
  /\ lidar_override_active' = Head(sent_overrides[n])
  /\ sent_overrides' = [sent_overrides EXCEPT ![n] = Tail(@)]
  /\ UNCHANGED <<monitor, scans, sent_twists, sent_stops, warning_active,
                 wheels, history>>

take_twist(n) ==
  /\ sent_twists[n] # <<>> /\ on_twist("lidar")
  /\ command'["lidar"] = Head(sent_twists[n])
  /\ sent_twists' = [sent_twists EXCEPT ![n] = Tail(@)]
  /\ UNCHANGED <<monitor, scans, sent_overrides, sent_stops, warning_active,
                 wheels, history>>

take_stop ==
  /\ sent_stops # <<>> /\ on_estop
  /\ operator_estop_latched' = Head(sent_stops)
  /\ sent_stops' = Tail(sent_stops)
  /\ UNCHANGED <<monitor, scans, sent_twists, sent_overrides, warning_active,
                 wheels, history>>

\* Operators, navigation and perception.
free_input ==
  /\ \/ \E s \in VALID_MODES : on_twist(s)
     \/ on_mode \/ on_estop \/ on_person_slow
     \/ \E b \in BOOLEAN : on_person_estop(b)
  /\ UNCHANGED <<monitor, lidar, wheels, history>>
-----------------------------------------------------------------------------
(* The motion controller and time.                                         *)

_clamp(v, limit) == IF v > limit THEN limit ELSE IF v < -limit THEN -limit ELSE v

Clamped(t) == [x |-> _clamp(t.x, MaxLinear), z |-> _clamp(t.z, MaxAngular)]

publish == publish_selected_twist /\ UNCHANGED <<monitor, lidar, wheels, history>>

\* MotionController._on_twist; of the commands under way only the last counts.
relay ==
  /\ wheels # Clamped(out) /\ wheels' = Clamped(out)
  /\ UNCHANGED <<vars, monitor, lidar, history>>

Pass ==
  /\ Delivered /\ wheels = Clamped(out)
  /\ running => unchecked < CheckPeriod
  /\ Tick
  /\ uptime' = IF running THEN Older(uptime, Grace) ELSE uptime
  /\ unchecked' = IF running THEN unchecked + 1 ELSE unchecked
  /\ heard' = [s \in Sensors |-> Older(heard[s], Limit[s] + 1)]
  /\ silent' = [s \in Sensors |-> Older(silent[s], Limit[s] + 1)]
  /\ late' = IF Due THEN Older(late, Reaction + 1) ELSE 0
  /\ blocked' = IF blocked = 0 THEN 0 ELSE Older(blocked, Period + 2)
  /\ UNCHANGED <<running, sent_fault, lidar, wheels>>

ChainInit ==
  /\ Init
  /\ running = FALSE /\ uptime = 0 /\ unchecked = 0
  /\ heard = [s \in Sensors |-> Limit[s] + 1] /\ sent_fault = <<>>
  /\ scans = [n \in LidarNodes |-> <<>>]
  /\ sent_twists = [n \in LidarNodes |-> <<>>]
  /\ sent_overrides = [n \in LidarNodes |-> <<>>] /\ sent_stops = <<>>
  /\ warning_active = FALSE /\ wheels = Stop
  /\ silent = [s \in Sensors |-> Limit[s] + 1] /\ late = 0 /\ blocked = 0

ChainNext ==
  \/ \E s \in Sensors : Speak(s)
  \/ StartMonitor \/ StopMonitor \/ publish_health
  \/ avoidance_on_scan \/ warning_on_scan
  \/ take_fault \/ take_stop
  \/ \E n \in LidarNodes : take_override(n) \/ take_twist(n)
  \/ free_input \/ publish \/ relay \/ Pass

Chain == ChainInit /\ [][ChainNext]_chain_vars
-----------------------------------------------------------------------------
(* Properties.                                                             *)

\* While the health monitor is up and its start-up grace is over, the stop is
\* in force and the wheels stand within both timers' periods after some
\* sensor has exceeded its timeout, whatever else the mux hears, and as long
\* as any sensor is silent: the monitor's timer, the mux's timer and the relay
\* add up, and no message of another publisher withdraws the stop.
SilenceStops == late > Reaction => effective /\ wheels = Stop

\* More than a period after a scan showed the way blocked the wheels do not
\* drive forward, in any mode and for any source, until a scan with a
\* sample in the window shows the way free.  With EnableControl two nodes
\* publish the override with thresholds of their own, and the way counts as
\* blocked where both say so.
BlockedWayHolds ==
  ~AllowForward => (blocked > Period + 1 => wheels.x <= 0)
-----------------------------------------------------------------------------
(* The inductive invariant of the proofs.                                  *)

\* At most one message under way.
Single(q, S) == q = <<>> \/ (q = <<Head(q)>> /\ Head(q) \in S)

\* Every variable of the nodes keeps to its range.
ChainTypeOK ==
  /\ running \in BOOLEAN /\ uptime \in Nat /\ unchecked \in 0..CheckPeriod
  /\ heard \in [Sensors -> Nat] /\ silent \in [Sensors -> Nat]
  /\ Single(sent_fault, BOOLEAN)
  /\ DOMAIN scans = LidarNodes /\ DOMAIN sent_overrides = LidarNodes
  /\ \A n \in LidarNodes :
       Single(scans[n], Nat) /\ Single(sent_overrides[n], BOOLEAN)
  /\ wheels \in Twist
  /\ late \in 0..(Reaction + 1) /\ blocked \in 0..(Period + 2)

\* What is under way was sent in this tick.
OneAtATime ==
  /\ sent_fault # <<>> => unchecked = 0
  /\ \A n \in LidarNodes :
       /\ scans[n] # <<>> \/ sent_overrides[n] # <<>> => silent["scan"] = 0
       /\ scans[n] = <<>> \/ sent_overrides[n] = <<>>

\* The monitor believes a sensor healthy only if it is.
HeardIsTrue ==
  running => \A s \in Sensors : heard[s] <= Limit[s] => silent[s] <= heard[s]

LateIsDue == late > 0 => Due

\* A fault due at the monitor's last run has been reported,
FaultIsSent ==
  late > unchecked =>
    (sent_fault = <<>> /\ sensor_fault_active) \/ sent_fault = <<TRUE>>

\* and has stood since it must have arrived.
FaultStands ==
  /\ late > CheckPeriod =>
       sensor_fault_active /\ standing["unsafe"] >= late - CheckPeriod
  /\ late > Reaction => wheels = Stop

\* While the way is blocked nothing under way lifts the override,
NothingLifts ==
  blocked > 0 =>
    /\ \A n \in LidarNodes : sent_overrides[n] \in {<<>>, <<TRUE>>}
    /\ scans["avoidance"] # <<>> =>
         LET front == Head(scans["avoidance"]) IN
         front = NoSample \/ front < SlowDistance
    /\ EnableControl /\ scans["warning"] # <<>> =>
         LET front == Head(scans["warning"]) IN
         front <= WarningDistance /\ front <= ClearDistance

\* what raises it is under way in the tick of the scan,
OverrideComes ==
  blocked = 1 =>
    /\ silent["scan"] = 0
    /\ \/ lidar_override_active
       \/ sent_overrides["avoidance"] # <<>>
       \/ scans["avoidance"] # <<>> /\ Head(scans["avoidance"]) # NoSample

\* and it stands from then on.
OverrideStands ==
  /\ blocked > 1 =>
       lidar_override_active /\ standing["override"] >= blocked - 1
  /\ ~AllowForward => (blocked > Period + 1 => wheels.x <= 0)

CInv ==
  /\ IInv /\ ChainTypeOK /\ OneAtATime /\ HeardIsTrue /\ LateIsDue
  /\ FaultIsSent /\ FaultStands /\ NothingLifts /\ OverrideComes
  /\ OverrideStands
=============================================================================
