------------------------------ MODULE SafetyMux ------------------------------
(***************************************************************************)
(* car_control/safety_mux.py with safety_policy.py: the only node that     *)
(* publishes motion.  Callbacks store the last command of every source,    *)
(* the mode and the stop conditions; a periodic timer publishes the one    *)
(* selected command, or zero.  rclpy.spin runs one callback at a time.     *)
(*                                                                         *)
(* Time passes in Tick.  Durations are counted in ticks and saturate above *)
(* every limit they are compared with.  A twist is its forward speed x     *)
(* and its turn z, which stands for the components that pass unchanged.    *)
(***************************************************************************)
EXTENDS Integers

VALID_MODES == {"manual", "nav", "vision", "follow"}
Sources == VALID_MODES \cup {"lidar"}

CONSTANTS
  Timeout,            \* [Sources -> ticks]: manual_timeout_sec, auto_timeout_sec
  Period,             \* longest time between two runs of the timer
  ClearDelay,         \* person_clear_delay_sec
  SlowSpeed,          \* person_slow_max_linear_speed
  AllowManualEscape,  \* allow_manual_escape_when_lidar_override
  Twists,             \* [Sources -> commands the source may send]
  Modes,              \* modes that may be selected, at the start or later
  Topics              \* safety topics that may publish

Twist == [x: Int, z: Int]
Zero == [x |-> 0, z |-> 0]

ASSUME DurationAssumption ==
  /\ Timeout \in [Sources -> Nat] /\ Period \in Nat \ {0} /\ ClearDelay \in Nat
ASSUME SpeedAssumption ==
  /\ SlowSpeed \in Nat /\ AllowManualEscape \in BOOLEAN
  /\ Twists \in [Sources -> SUBSET Twist]
ASSUME SelectionAssumption ==
  /\ Modes \subseteq VALID_MODES
  /\ Topics \subseteq {"estop", "sensor_fault", "person_estop", "person_slow",
                       "override"}

VARIABLES
  mode,        \* self.mode
  command,     \* last command of every source
  age,         \* time since it arrived; a source never heard is too old
  operator_estop_latched, sensor_fault_active, person_estop_active,
  lidar_override_active, person_slow_active,
  since_clear, \* time since person_clear_since; ClearDelay stands for None
  effective,   \* last Bool published on /control/effective_estop
  out,         \* last Twist published on /control/cmd_vel
  elapsed,     \* time since the timer ran
  standing,    \* history: how long each condition has stood
  since_seen   \* history: time since perception last reported a person

conditions == <<operator_estop_latched, sensor_fault_active,
                person_estop_active, lidar_override_active, person_slow_active>>
published == <<effective, out, elapsed>>
vars == <<mode, command, age, conditions, since_clear, published, standing,
          since_seen>>

Oldest(s) == Timeout[s] + Period + 1

Older(t, cap) == IF t < cap THEN t + 1 ELSE t

-----------------------------------------------------------------------------
(* Conditions whose duration the properties speak of.                      *)

Unsafe == operator_estop_latched \/ sensor_fault_active \/ person_estop_active

Condition == {"unsafe", "override", "slow", "mode"}

Stands(c) ==
  \/ c = "unsafe" /\ Unsafe
  \/ c = "override" /\ lidar_override_active
  \/ c = "slow" /\ person_slow_active
  \/ c = "mode"

\* After a callback: condition c stands on, or is over.
Observe(c, stands) ==
  standing' = IF stands THEN standing ELSE [standing EXCEPT ![c] = 0]

-----------------------------------------------------------------------------
(* Callbacks.                                                              *)

Init ==
  /\ mode \in Modes  \* default_mode
  /\ command = [s \in Sources |-> Zero] /\ age = [s \in Sources |-> Oldest(s)]
  /\ operator_estop_latched = FALSE /\ sensor_fault_active = FALSE
  /\ person_estop_active = FALSE
  /\ lidar_override_active = FALSE /\ person_slow_active = FALSE
  /\ since_clear = ClearDelay
  /\ effective = FALSE /\ out = Zero /\ elapsed = 0
  /\ standing = [c \in Condition |-> 0] /\ since_seen = ClearDelay

\* on_manual, on_nav, on_vision, on_lidar, on_follow.
on_twist(s) ==
  /\ \E t \in Twists[s] : command' = [command EXCEPT ![s] = t]
  /\ age' = [age EXCEPT ![s] = 0]
  /\ UNCHANGED <<mode, conditions, since_clear, published, standing, since_seen>>

on_mode ==
  /\ mode' \in Modes
  /\ Observe("mode", mode' = mode)
  /\ UNCHANGED <<command, age, conditions, since_clear, published, since_seen>>

on_estop ==
  /\ "estop" \in Topics /\ operator_estop_latched' \in BOOLEAN
  /\ UNCHANGED <<mode, command, age, sensor_fault_active, person_estop_active,
                 lidar_override_active, person_slow_active, since_clear,
                 published, since_seen>>
  /\ Observe("unsafe", Unsafe')

on_sensor_fault ==
  /\ "sensor_fault" \in Topics /\ sensor_fault_active' \in BOOLEAN
  /\ UNCHANGED <<mode, command, age, operator_estop_latched,
                 person_estop_active, lidar_override_active,
                 person_slow_active, since_clear, published, since_seen>>
  /\ Observe("unsafe", Unsafe')

on_lidar_override ==
  /\ "override" \in Topics /\ lidar_override_active' \in BOOLEAN
  /\ UNCHANGED <<mode, command, age, operator_estop_latched,
                 sensor_fault_active, person_estop_active, person_slow_active,
                 since_clear, published, since_seen>>
  /\ Observe("override", lidar_override_active')

on_person_slow ==
  /\ "person_slow" \in Topics /\ person_slow_active' \in BOOLEAN
  /\ UNCHANGED <<mode, command, age, operator_estop_latched,
                 sensor_fault_active, person_estop_active,
                 lidar_override_active, since_clear, published, since_seen>>
  /\ Observe("slow", person_slow_active')

\* Mutant: every clear frame starts the delay anew.
StartDelay(present) == IF present THEN ClearDelay ELSE 0

\* The clear delay starts on the change to clear, not on every clear frame;
\* a person clears person_clear_since.
ClearSince(present) ==
  IF present THEN ClearDelay
  ELSE IF person_estop_active THEN 0 ELSE since_clear

on_person_estop(present) ==
  /\ "person_estop" \in Topics /\ person_estop_active' = present
  /\ since_clear' = ClearSince(present)
  /\ since_seen' = IF present THEN 0 ELSE since_seen
  /\ UNCHANGED <<mode, command, age, operator_estop_latched,
                 sensor_fault_active, lidar_override_active,
                 person_slow_active, published>>
  /\ Observe("unsafe", Unsafe')

-----------------------------------------------------------------------------
(* The timer.                                                              *)

\* Mutant: the delay is left out.
person_now == person_estop_active

person_effective == person_estop_active \/ since_clear < ClearDelay

effective_estop ==
  operator_estop_latched \/ person_effective \/ sensor_fault_active

\* Mutant: a command counts as fresh for as long as it is the last one.
HeardOnce(s) == age[s] < Oldest(s)

Fresh(s) == age[s] <= Timeout[s]

\* _fresh_message, with zero for None.
Latest(s) == IF Fresh(s) THEN command[s] ELSE Zero

block_forward_motion(t) == [t EXCEPT !.x = IF t.x > 0 THEN 0 ELSE t.x]

\* Mutant: only forward motion is limited.
SlowForward(t) ==
  IF person_slow_active /\ t.x > SlowSpeed THEN [t EXCEPT !.x = SlowSpeed] ELSE t

apply_person_slow(t) ==
  IF ~person_slow_active THEN t
  ELSE [t EXCEPT !.x = IF t.x > SlowSpeed THEN SlowSpeed
                       ELSE IF t.x < -SlowSpeed THEN -SlowSpeed ELSE t.x]

Selected ==
  IF lidar_override_active
  THEN apply_person_slow(
         IF AllowManualEscape /\ mode = "manual" /\ Fresh("manual")
         THEN block_forward_motion(command["manual"]) ELSE Latest("lidar"))
  ELSE apply_person_slow(Latest(mode))

publish_selected_twist ==
  /\ elapsed > 0
  /\ elapsed' = 0
  /\ effective' = effective_estop
  /\ out' = IF effective_estop THEN Zero ELSE Selected
  /\ UNCHANGED <<mode, command, age, conditions, since_clear, standing,
                 since_seen>>

Tick ==
  /\ elapsed < Period
  /\ elapsed' = elapsed + 1
  /\ age' = [s \in Sources |-> Older(age[s], Oldest(s))]
  /\ since_clear' = Older(since_clear, ClearDelay)
  /\ since_seen' = Older(since_seen, ClearDelay)
  /\ standing' = [c \in Condition |->
                    IF Stands(c) THEN Older(standing[c], Period + 1) ELSE 0]
  /\ UNCHANGED <<mode, command, conditions, effective, out>>

Next ==
  \/ \E s \in Sources : on_twist(s)
  \/ on_mode \/ on_estop \/ on_sensor_fault \/ on_lidar_override
  \/ on_person_slow \/ \E b \in BOOLEAN : on_person_estop(b)
  \/ publish_selected_twist \/ Tick

Spec == Init /\ [][Next]_vars

\* Time passes and the timer runs.
FairSpec == Spec /\ WF_vars(Tick) /\ WF_vars(publish_selected_twist)
-----------------------------------------------------------------------------
(* Properties.                                                             *)

\* Every variable keeps to its range; commands and output are twists.
TypeOK ==
  /\ mode \in VALID_MODES
  /\ command \in [Sources -> Twist] /\ out \in Twist
  /\ age \in [Sources -> Nat]
  /\ operator_estop_latched \in BOOLEAN /\ sensor_fault_active \in BOOLEAN
  /\ person_estop_active \in BOOLEAN
  /\ lidar_override_active \in BOOLEAN /\ person_slow_active \in BOOLEAN
  /\ since_clear \in 0..ClearDelay /\ since_seen \in 0..ClearDelay
  /\ effective \in BOOLEAN /\ elapsed \in 0..Period
  /\ standing \in [Condition -> 0..(Period + 1)]

\* A stop condition that has stood for more than a period of the timer is
\* published and the car is told to stand still, whatever commands, modes and
\* other messages arrive.
StopIsPrompt == standing["unsafe"] > Period => out = Zero /\ effective

\* The car is not set moving, nor its motion changed, before the person who
\* was last seen too close has been out of sight for the whole clear delay.
NoEarlyRestart ==
  [][out' # out /\ out' # Zero => since_seen >= ClearDelay]_vars

\* The car moves only on a recent command of the selected source, or of the
\* lidar; after a change of mode the old source has lost the wheel within a
\* period, and a source that falls silent loses it within its timeout and a
\* period.
SelectedDrives ==
  out # Zero /\ standing["mode"] > Period =>
    \/ age[mode] <= Timeout[mode] + Period
    \/ age["lidar"] <= Timeout["lidar"] + Period

\* Within a period of the lidar's override nobody drives forward, not even an
\* operator who escapes in manual mode, unless the lidar itself does.
ObstacleHolds ==
  (\A t \in Twists["lidar"] : t.x <= 0) =>
    (standing["override"] > Period => out.x <= 0)

\* Within a period of a person coming near, no source exceeds the slow speed
\* in either direction, the lidar's own command and a manual escape included.
PersonSlows ==
  standing["slow"] > Period => out.x \in (-SlowSpeed)..SlowSpeed

\* Once no stop condition comes any more the stop is reported as released,
\* although clear frames of the perception keep arriving.
StopEnds == <>[](~Unsafe) => <>[](~effective)
-----------------------------------------------------------------------------
(* The inductive invariant of the proofs.                                  *)

\* Only what stands has a duration.
StandingIsTrue == \A c \in Condition : standing[c] > 0 => Stands(c)

\* What stood at the last run of the timer shows in what it published.
StandingShows ==
  /\ standing["unsafe"] > elapsed => out = Zero /\ effective
  /\ (\A t \in Twists["lidar"] : t.x <= 0) =>
       (standing["override"] > elapsed => out.x <= 0)
  /\ standing["slow"] > elapsed => out.x \in (-SlowSpeed)..SlowSpeed
  /\ out # Zero /\ standing["mode"] > elapsed =>
       \/ age[mode] <= Timeout[mode] + elapsed
       \/ age["lidar"] <= Timeout["lidar"] + elapsed

\* The delay never runs ahead of the person's absence.
DelayIsWhole == ~person_estop_active => since_clear <= since_seen

CommandsAsSent ==
  \A s \in Sources : command[s] \in Twists[s] \cup {Zero}

IInv ==
  /\ TypeOK /\ StandingIsTrue /\ StandingShows /\ DelayIsWhole /\ CommandsAsSent
=============================================================================
