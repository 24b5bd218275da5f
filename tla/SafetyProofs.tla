---------------------------- MODULE SafetyProofs ----------------------------
(***************************************************************************)
(* Proofs about the mux alone, and about the mux with the nodes around it. *)
(*                                                                         *)
(* SafetyMux, for every timeout, period, delay, speed limit and set of     *)
(* commands: what a condition forces at a run of the timer is carried to   *)
(* the next run by comparing how long it stood with the time since the     *)
(* timer ran (StandingShows).                                              *)
(*                                                                         *)
(* SafetyChain, for every timeout, period, threshold and parameter of the  *)
(* nodes: every step of the chain is a step of SafetyMux or leaves it      *)
(* alone, so that the mux's theorems hold in the chain; its invariant,     *)
(* with the time a fault has been due and the time a way has been blocked, *)
(* carries what the sensors say to the wheels.                             *)
(***************************************************************************)
EXTENDS SafetyChain, TLAPS

USE DurationAssumption, SpeedAssumption, SelectionAssumption

\* The initial state satisfies the invariant.
LEMMA InitIInv == Init => IInv
<1> SUFFICES ASSUME Init PROVE IInv
  OBVIOUS
<1> USE DEF Init
<1>1. TypeOK
  <2>1. Zero \in Twist /\ "manual" \in VALID_MODES
    BY DEF Zero, Twist, VALID_MODES
  <2>2. \A s \in Sources : Oldest(s) \in Nat
    BY DEF Oldest
  <2>3. /\ [s \in Sources |-> Zero] \in [Sources -> Twist]
        /\ [s \in Sources |-> Oldest(s)] \in [Sources -> Nat]
    BY <2>1, <2>2, Zenon
  <2>4. [c \in Condition |-> 0] \in [Condition -> 0..(Period + 1)]
    OBVIOUS
  <2>5. command \in [Sources -> Twist] /\ age \in [Sources -> Nat]
    BY <2>3, Zenon
  <2>6. standing \in [Condition -> 0..(Period + 1)]
    BY <2>4, Zenon
  <2>7. elapsed \in 0..Period /\ since_clear \in 0..ClearDelay
        /\ since_seen \in 0..ClearDelay
    OBVIOUS
  <2>8. /\ operator_estop_latched \in BOOLEAN /\ sensor_fault_active \in BOOLEAN
        /\ person_estop_active \in BOOLEAN /\ lidar_override_active \in BOOLEAN
        /\ person_slow_active \in BOOLEAN /\ effective \in BOOLEAN
    BY Zenon
  <2> QED BY <2>1, <2>5, <2>6, <2>7, <2>8, Zenon DEF TypeOK
<1>2. StandingIsTrue /\ StandingShows
  BY DEF StandingIsTrue, StandingShows, Condition, Zero
<1>3. DelayIsWhole /\ CommandsAsSent
  BY DEF DelayIsWhole, CommandsAsSent
<1> QED BY <1>1, <1>2, <1>3 DEF IInv

\* A command under the slow limit has its forward speed within it, is not made
\* to drive forward by it, and keeps its shape.
LEMMA SlowIsBounded ==
  ASSUME TypeOK, NEW t \in Twist
  PROVE  /\ apply_person_slow(t) \in Twist
         /\ person_slow_active => apply_person_slow(t).x \in (-SlowSpeed)..SlowSpeed
         /\ t.x <= 0 => apply_person_slow(t).x <= 0
  BY DEF TypeOK, Twist, apply_person_slow

\* The selected command is a twist that respects the slow zone and the
\* override, and zero unless the selected source or the lidar is fresh.
LEMMA SelectedIsSafe ==
  ASSUME TypeOK, CommandsAsSent
  PROVE  /\ Selected \in Twist
         /\ person_slow_active => Selected.x \in (-SlowSpeed)..SlowSpeed
         /\ /\ \A t \in Twists["lidar"] : t.x <= 0
            /\ lidar_override_active
            => Selected.x <= 0
         /\ Selected # Zero => Fresh(mode) \/ Fresh("lidar")
<1> DEFINE chosen == IF lidar_override_active
                     THEN IF AllowManualEscape /\ mode = "manual" /\ Fresh("manual")
                          THEN block_forward_motion(command["manual"])
                          ELSE Latest("lidar")
                     ELSE Latest(mode)
<1>1. Selected = apply_person_slow(chosen)
  BY DEF Selected
<1>2. mode \in Sources /\ "lidar" \in Sources /\ "manual" \in Sources
  BY DEF TypeOK, Sources, VALID_MODES
<1>3. \A s \in Sources : Latest(s) \in Twist
  BY DEF TypeOK, Latest, Twist, Zero
<1>4. block_forward_motion(command["manual"]) \in Twist
      /\ block_forward_motion(command["manual"]).x <= 0
  BY <1>2 DEF TypeOK, block_forward_motion, Twist
<1>5. chosen \in Twist
  BY <1>2, <1>3, <1>4
<1>6. ASSUME \A t \in Twists["lidar"] : t.x <= 0, lidar_override_active
      PROVE  chosen.x <= 0
  <2>1. Latest("lidar").x <= 0
    BY <1>2, <1>6 DEF CommandsAsSent, Latest, Zero
  <2> QED BY <2>1, <1>4, <1>6
<1>7. ASSUME ~Fresh(mode), ~Fresh("lidar") PROVE apply_person_slow(chosen) = Zero
  <2>1. chosen = Zero
    BY <1>7 DEF Latest
  <2> QED BY <2>1 DEF apply_person_slow, Zero
<1> QED BY <1>1, <1>5, <1>6, <1>7, SlowIsBounded

\* Every step keeps every variable in its range.
LEMMA TypeStep == TypeOK /\ CommandsAsSent /\ [Next]_vars => TypeOK'
<1> SUFFICES ASSUME TypeOK, CommandsAsSent, [Next]_vars PROVE TypeOK'
  OBVIOUS
<1> USE DEF TypeOK, conditions, published
<1>1. ASSUME NEW s \in Sources, on_twist(s) PROVE TypeOK'
  BY <1>1 DEF on_twist
<1>2. CASE on_mode
  BY <1>2 DEF on_mode, Observe, Condition
<1>3. CASE on_estop
  BY <1>3 DEF on_estop, Observe, Condition
<1>4. CASE on_sensor_fault
  BY <1>4 DEF on_sensor_fault, Observe, Condition
<1>5. CASE on_lidar_override
  BY <1>5 DEF on_lidar_override, Observe, Condition
<1>6. CASE on_person_slow
  BY <1>6 DEF on_person_slow, Observe, Condition
<1>7. ASSUME NEW b \in BOOLEAN, on_person_estop(b) PROVE TypeOK'
  BY <1>7 DEF on_person_estop, Observe, Condition, ClearSince
<1>8. CASE publish_selected_twist
  <2>1. Zero \in Twist
    BY DEF Zero, Twist
  <2> QED BY <1>8, <2>1, SelectedIsSafe DEF publish_selected_twist,
             effective_estop, person_effective
<1>9. CASE Tick
  BY <1>9 DEF Tick, Older, Oldest
<1>10. CASE UNCHANGED vars
  BY <1>10 DEF vars
<1> QED BY <1>1, <1>2, <1>3, <1>4, <1>5, <1>6, <1>7, <1>8, <1>9, <1>10 DEF Next

\* Sources send only their own commands.
LEMMA CommandStep == TypeOK /\ CommandsAsSent /\ [Next]_vars => CommandsAsSent'
<1> SUFFICES ASSUME TypeOK, CommandsAsSent, [Next]_vars PROVE CommandsAsSent'
  OBVIOUS
<1>1. ASSUME NEW s \in Sources, on_twist(s) PROVE CommandsAsSent'
  BY <1>1 DEF on_twist, CommandsAsSent, TypeOK
<1>2. ASSUME command' = command PROVE CommandsAsSent'
  BY <1>2 DEF CommandsAsSent
<1> QED BY <1>1, <1>2 DEF Next, vars, on_mode, on_estop, on_sensor_fault,
           on_lidar_override, on_person_slow, on_person_estop,
           publish_selected_twist, Tick

\* The clear delay never runs ahead of the person's absence.
LEMMA DelayStep == TypeOK /\ DelayIsWhole /\ [Next]_vars => DelayIsWhole'
<1> SUFFICES ASSUME TypeOK, DelayIsWhole, [Next]_vars PROVE DelayIsWhole'
  OBVIOUS
<1> USE DEF DelayIsWhole, TypeOK
<1>1. ASSUME NEW b \in BOOLEAN, on_person_estop(b) PROVE DelayIsWhole'
  BY <1>1 DEF on_person_estop, ClearSince
<1>2. CASE Tick
  BY <1>2 DEF Tick, Older, conditions
<1>3. ASSUME UNCHANGED <<person_estop_active, since_clear, since_seen>>
      PROVE  DelayIsWhole'
  BY <1>3
<1> QED BY <1>1, <1>2, <1>3 DEF Next, vars, conditions, on_twist, on_mode,
           on_estop, on_sensor_fault, on_lidar_override, on_person_slow,
           publish_selected_twist

\* A callback other than the timer ends a condition or leaves its duration.
LEMMA ObserveKeeps ==
  ASSUME TypeOK, NEW c \in Condition, NEW stands \in BOOLEAN, Observe(c, stands)
  PROVE  \A d \in Condition :
           standing'[d] = standing[d] \/ (standing'[d] = 0)
  BY DEF TypeOK, Observe

\* Only what stands has a duration.
LEMMA ConditionStep == TypeOK /\ StandingIsTrue /\ [Next]_vars => StandingIsTrue'
<1> SUFFICES ASSUME TypeOK, StandingIsTrue, [Next]_vars PROVE StandingIsTrue'
  OBVIOUS
<1> USE DEF TypeOK, StandingIsTrue, Condition, Stands, Unsafe, conditions
<1>1. ASSUME NEW s \in Sources, on_twist(s) PROVE StandingIsTrue'
  BY <1>1 DEF on_twist
<1>2. CASE on_mode
  BY <1>2 DEF on_mode, Observe
<1>3. CASE on_estop
  BY <1>3 DEF on_estop, Observe
<1>4. CASE on_sensor_fault
  BY <1>4 DEF on_sensor_fault, Observe
<1>5. CASE on_lidar_override
  BY <1>5 DEF on_lidar_override, Observe
<1>6. CASE on_person_slow
  BY <1>6 DEF on_person_slow, Observe
<1>7. ASSUME NEW b \in BOOLEAN, on_person_estop(b) PROVE StandingIsTrue'
  BY <1>7 DEF on_person_estop, Observe
<1>8. CASE publish_selected_twist
  BY <1>8 DEF publish_selected_twist
<1>9. CASE Tick
  BY <1>9 DEF Tick
<1>10. CASE UNCHANGED vars
  BY <1>10 DEF vars
<1> QED BY <1>1, <1>2, <1>3, <1>4, <1>5, <1>6, <1>7, <1>8, <1>9, <1>10 DEF Next

\* The published command shows what stood at the last run of the timer.
LEMMA StandingStep ==
  TypeOK /\ CommandsAsSent /\ StandingIsTrue /\ StandingShows /\ [Next]_vars
    => StandingShows'
<1> SUFFICES ASSUME TypeOK, CommandsAsSent, StandingIsTrue, StandingShows,
                    [Next]_vars
             PROVE  StandingShows'
  OBVIOUS
<1> USE DEF TypeOK
<1>1. mode \in Sources /\ "lidar" \in Sources
  BY DEF Sources, VALID_MODES
<1>2. ASSUME UNCHANGED published, UNCHANGED mode, UNCHANGED age,
             \A d \in Condition : standing'[d] = standing[d] \/ standing'[d] = 0
      PROVE  StandingShows'
  BY <1>2 DEF StandingShows, published, Condition
<1>3. ASSUME NEW s \in Sources, on_twist(s) PROVE StandingShows'
  <2>1. \A r \in Sources : age'[r] = age[r] \/ age'[r] = 0
    BY <1>3 DEF on_twist
  <2> QED BY <1>1, <1>3, <2>1 DEF on_twist, StandingShows, published
<1>4. CASE on_mode
  <2>1. CASE mode' = mode
    BY <1>2, <1>4, <2>1 DEF on_mode, Observe
  <2>2. CASE mode' # mode
    <3>1. standing'["mode"] = 0 /\ \A d \in Condition \ {"mode"} :
                                     standing'[d] = standing[d]
      BY <1>4, <2>2 DEF on_mode, Observe, Condition
    <3> QED BY <1>4, <3>1 DEF on_mode, StandingShows, published, Condition
  <2> QED BY <2>1, <2>2
<1>5. CASE on_estop
  BY <1>2, <1>5, ObserveKeeps DEF on_estop, Condition, Observe
<1>6. CASE on_sensor_fault
  BY <1>2, <1>6, ObserveKeeps DEF on_sensor_fault, Condition, Observe
<1>7. CASE on_lidar_override
  BY <1>2, <1>7, ObserveKeeps DEF on_lidar_override, Condition, Observe
<1>8. CASE on_person_slow
  BY <1>2, <1>8, ObserveKeeps DEF on_person_slow, Condition, Observe
<1>9. ASSUME NEW b \in BOOLEAN, on_person_estop(b) PROVE StandingShows'
  BY <1>2, <1>9, ObserveKeeps DEF on_person_estop, Condition, Observe
<1>10. CASE publish_selected_twist
  <2>1. elapsed' = 0 /\ standing' = standing /\ mode' = mode /\ age' = age
        /\ effective' = effective_estop
        /\ out' = IF effective_estop THEN Zero ELSE Selected
    BY <1>10 DEF publish_selected_twist
  <2>2. standing["unsafe"] > 0 => out' = Zero /\ effective'
    BY <2>1 DEF StandingIsTrue, Stands, Condition, Unsafe, effective_estop,
                person_effective
  <2>3. (\A t \in Twists["lidar"] : t.x <= 0) =>
          (standing["override"] > 0 => out'.x <= 0)
    BY <2>1, SelectedIsSafe DEF StandingIsTrue, Stands, Condition, Zero
  <2>4. standing["slow"] > 0 => out'.x \in (-SlowSpeed)..SlowSpeed
    BY <2>1, SelectedIsSafe DEF StandingIsTrue, Stands, Condition, Zero
  <2>5. out' # Zero => Fresh(mode) \/ Fresh("lidar")
    BY <2>1, SelectedIsSafe
  <2> QED BY <1>1, <2>1, <2>2, <2>3, <2>4, <2>5 DEF StandingShows, Fresh
<1>11. CASE Tick
  <2>1. elapsed' = elapsed + 1 /\ elapsed < Period
        /\ UNCHANGED <<mode, effective, out>>
    BY <1>11 DEF Tick
  <2>2. \A d \in Condition : standing'[d] > elapsed' => standing[d] > elapsed
    BY <1>11, <2>1 DEF Tick, Older
  <2>3. \A s \in Sources : age[s] <= Timeout[s] + elapsed
                            => age'[s] <= Timeout[s] + elapsed'
    BY <1>11, <2>1 DEF Tick, Older, Oldest
  <2> QED BY <1>1, <2>1, <2>2, <2>3 DEF StandingShows, Condition
<1>12. CASE UNCHANGED vars
  BY <1>2, <1>12 DEF vars
<1> QED BY <1>3, <1>4, <1>5, <1>6, <1>7, <1>8, <1>9, <1>10, <1>11, <1>12
        DEF Next

\* The invariant holds in every reachable state of the mux.
THEOREM MuxInductive == Spec => []IInv
<1>1. Init => IInv
  BY InitIInv
<1>2. IInv /\ [Next]_vars => IInv'
  BY TypeStep, CommandStep, DelayStep, ConditionStep, StandingStep DEF IInv
<1> QED BY <1>1, <1>2, PTL DEF Spec

\* A stop condition that stands for more than a period stops the car.
THEOREM StopsPromptly == Spec => []StopIsPrompt
<1>1. IInv => StopIsPrompt
  BY DEF IInv, TypeOK, StandingShows, StopIsPrompt, Condition
<1> QED BY <1>1, MuxInductive, PTL

\* Only the selected source or the lidar drives the car.
THEOREM DrivenBySelected == Spec => []SelectedDrives
<1>1. IInv => SelectedDrives
  <2> SUFFICES ASSUME IInv PROVE SelectedDrives
    OBVIOUS
  <2>1. mode \in Sources /\ "lidar" \in Sources
    BY DEF IInv, TypeOK, Sources, VALID_MODES
  <2> QED BY <2>1 DEF IInv, TypeOK, StandingShows, SelectedDrives, Condition
<1> QED BY <1>1, MuxInductive, PTL

\* Nobody drives forward under the lidar's override.
THEOREM HeldByObstacle == Spec => []ObstacleHolds
<1>1. IInv => ObstacleHolds
  BY DEF IInv, TypeOK, StandingShows, ObstacleHolds, Condition
<1> QED BY <1>1, MuxInductive, PTL

\* No source exceeds the slow speed near a person.
THEOREM SlowedByPerson == Spec => []PersonSlows
<1>1. IInv => PersonSlows
  BY DEF IInv, TypeOK, StandingShows, PersonSlows, Condition
<1> QED BY <1>1, MuxInductive, PTL

\* The car moves only when the person has been gone for the whole delay.
THEOREM RestartsLate == Spec => NoEarlyRestart
<1>1. IInv /\ [Next]_vars =>
        [out' # out /\ out' # Zero => since_seen >= ClearDelay]_vars
  <2> SUFFICES ASSUME IInv, Next, out' # out, out' # Zero
               PROVE  since_seen >= ClearDelay
    OBVIOUS
  <2>1. publish_selected_twist
    BY DEF Next, published, on_twist, on_mode, on_estop, on_sensor_fault,
           on_lidar_override, on_person_slow, on_person_estop, Tick
  <2>2. ~person_estop_active /\ since_clear >= ClearDelay
    BY <2>1 DEF publish_selected_twist, effective_estop, person_effective,
                IInv, TypeOK
  <2> QED BY <2>2 DEF IInv, DelayIsWhole, TypeOK
<1> QED BY <1>1, MuxInductive, PTL DEF Spec, NoEarlyRestart

-----------------------------------------------------------------------------
(* The chain.                                                              *)

USE MonitorAssumption, LidarAssumption, LidarTwistAssumption

\* Every step of the chain is one of the mux or leaves the mux alone.
LEMMA MuxStep == [ChainNext]_chain_vars => [Next]_vars
<1> SUFFICES ASSUME [ChainNext]_chain_vars PROVE [Next]_vars
  OBVIOUS
<1>1. ASSUME NEW s \in Sensors, Speak(s) PROVE [Next]_vars
  BY <1>1 DEF Speak
<1>2. CASE StartMonitor \/ StopMonitor \/ publish_health
  BY <1>2 DEF StartMonitor, StopMonitor, publish_health
<1>3. CASE avoidance_on_scan \/ warning_on_scan
  BY <1>3 DEF avoidance_on_scan, warning_on_scan
<1>4. CASE take_fault \/ take_stop
  BY <1>4 DEF take_fault, take_stop, Next
<1>5. ASSUME NEW n \in LidarNodes, take_override(n) PROVE [Next]_vars
  BY <1>5 DEF take_override, Next
<1>6. ASSUME NEW n \in LidarNodes, take_twist(n) PROVE [Next]_vars
  BY <1>6 DEF take_twist, Next, Sources
<1>7. CASE free_input
  BY <1>7 DEF free_input, Next, Sources
<1>8. CASE publish
  BY <1>8 DEF publish, Next
<1>9. CASE relay
  BY <1>9 DEF relay
<1>10. CASE Pass
  BY <1>10 DEF Pass, Next
<1>11. CASE UNCHANGED chain_vars
  BY <1>11 DEF chain_vars
<1> QED BY <1>1, <1>2, <1>3, <1>4, <1>5, <1>6, <1>7, <1>8, <1>9, <1>10, <1>11
        DEF ChainNext

\* The mux's part of the chain implements SafetyMux.
THEOREM ChainImplementsMux == Chain => Spec
<1>1. ChainInit => Init
  BY DEF ChainInit
<1> QED BY <1>1, MuxStep, PTL DEF Chain, Spec

\* The mux's invariant is preserved by the chain.
LEMMA MuxInvStep == IInv /\ [ChainNext]_chain_vars => IInv'
  BY MuxStep, TypeStep, CommandStep, DelayStep, ConditionStep, StandingStep
     DEF IInv

\* A sequence of one message.
LEMMA JustOne ==
  ASSUME NEW m
  PROVE  Head(<<m>>) = m /\ Append(<<>>, m) = <<m>> /\ <<m>> # <<>>
  OBVIOUS

\* A channel with at most one message is empty once it has been read, and
\* holds the one that is appended to it when it is empty.
LEMMA OneMessage ==
  ASSUME NEW S, NEW q, Single(q, S)
  PROVE  /\ q # <<>> => Tail(q) = <<>> /\ Head(q) \in S
         /\ \A m \in S : Append(<<>>, m) = <<m>> /\ Single(<<m>>, S)
         /\ Single(<<>>, S)
<1>1. ASSUME q # <<>> PROVE Tail(q) = <<>> /\ Head(q) \in S
  <2>1. PICK m : q = <<m>>
    BY <1>1 DEF Single
  <2> QED BY <1>1, <2>1 DEF Single
<1>2. ASSUME NEW m \in S PROVE Append(<<>>, m) = <<m>> /\ Single(<<m>>, S)
  <2>1. Append(<<>>, m) = <<m>> /\ Head(<<m>>) = m
    OBVIOUS
  <2> QED BY <2>1 DEF Single
<1>3. Single(<<>>, S)
  BY DEF Single
<1> QED BY <1>1, <1>2, <1>3

\* A clamped command is a command of the same direction, and none is none.
LEMMA ClampKeeps ==
  /\ \A t \in Twist : Clamped(t) \in Twist /\ (t.x <= 0 => Clamped(t).x <= 0)
  /\ Clamped(Zero) = Stop
  BY DEF Clamped, _clamp, Twist, Zero, Stop

\* The monitor's channel holds one message, of the tick that runs.
LEMMA FaultChannelStep ==
  ChainTypeOK /\ OneAtATime /\ [ChainNext]_chain_vars
    => /\ Single(sent_fault, BOOLEAN)'
       /\ (sent_fault # <<>> => unchecked = 0)'
<1> SUFFICES ASSUME ChainTypeOK, OneAtATime, [ChainNext]_chain_vars
             PROVE  /\ Single(sent_fault, BOOLEAN)'
                    /\ (sent_fault # <<>> => unchecked = 0)'
  OBVIOUS
<1> USE DEF ChainTypeOK, OneAtATime
<1>1. CASE UNCHANGED <<sent_fault, unchecked>>
  BY <1>1 DEF Single
<1>2. CASE StartMonitor
  BY <1>2 DEF StartMonitor, Single
<1>3. CASE publish_health
  <2>1. sent_fault = <<>> /\ fault \in BOOLEAN
    BY <1>3 DEF publish_health, fault, healthy, in_grace
  <2>2. sent_fault' = <<fault>> /\ unchecked' = 0
    BY <1>3, <2>1, OneMessage DEF publish_health
  <2> QED BY <2>1, <2>2 DEF Single
<1>4. CASE take_fault
  BY <1>4, OneMessage DEF take_fault, Single
<1>5. CASE Pass
  BY <1>5 DEF Pass, Delivered, Single
<1> QED BY <1>1, <1>2, <1>3, <1>4, <1>5
        DEF ChainNext, chain_vars, monitor, Speak, StopMonitor,
            avoidance_on_scan, warning_on_scan, take_stop, take_override,
            take_twist, free_input, publish, relay

\* So do the channels of the lidar nodes.
LEMMA LidarChannelStep ==
  ChainTypeOK /\ OneAtATime /\ [ChainNext]_chain_vars
    => /\ DOMAIN scans' = LidarNodes /\ DOMAIN sent_overrides' = LidarNodes
       /\ \A n \in LidarNodes :
            /\ Single(scans[n], Nat)' /\ Single(sent_overrides[n], BOOLEAN)'
            /\ (scans[n] # <<>> \/ sent_overrides[n] # <<>> => silent["scan"] = 0)'
            /\ (scans[n] = <<>> \/ sent_overrides[n] = <<>>)'
<1> DEFINE Good ==
      /\ DOMAIN scans = LidarNodes /\ DOMAIN sent_overrides = LidarNodes
      /\ \A n \in LidarNodes :
           /\ Single(scans[n], Nat) /\ Single(sent_overrides[n], BOOLEAN)
           /\ scans[n] # <<>> \/ sent_overrides[n] # <<>> => silent["scan"] = 0
           /\ scans[n] = <<>> \/ sent_overrides[n] = <<>>
<1> SUFFICES ASSUME ChainTypeOK, OneAtATime, [ChainNext]_chain_vars PROVE Good'
  OBVIOUS
<1>0. Good
  BY DEF ChainTypeOK, OneAtATime
<1>1. CASE UNCHANGED <<scans, sent_overrides, silent>>
  BY <1>0, <1>1 DEF Single
<1>2. ASSUME NEW s \in Sensors, Speak(s) PROVE Good'
  <2>1. CASE s # "scan"
    BY <1>0, <1>2, <2>1 DEF Speak, Single, ChainTypeOK
  <2>2. CASE s = "scan"
    <3>1. silent[s] > 0 /\ silent'["scan"] = 0
          /\ sent_overrides' = sent_overrides
      BY <1>2, <2>2 DEF Speak, ChainTypeOK
    <3>2. \A n \in LidarNodes : scans[n] = <<>> /\ sent_overrides[n] = <<>>
      BY <1>0, <2>2, <3>1
    <3>3. PICK v \in Views :
            scans' = [n \in LidarNodes |-> Append(scans[n], v[n])]
      BY <1>2, <2>2 DEF Speak
    <3>4. \A n \in LidarNodes : scans'[n] = <<v[n]>> /\ Single(<<v[n]>>, Nat)
      BY <3>2, <3>3, OneMessage DEF Single
    <3> QED BY <1>0, <3>1, <3>2, <3>3, <3>4 DEF Single
  <2> QED BY <2>1, <2>2
<1>3. CASE avoidance_on_scan
  <2>1. "avoidance" \in LidarNodes /\ silent' = silent
    BY <1>3 DEF avoidance_on_scan, history, LidarNodes
  <2>2. /\ scans["avoidance"] # <<>> /\ sent_overrides["avoidance"] = <<>>
        /\ Tail(scans["avoidance"]) = <<>>
    BY <1>0, <1>3, <2>1, OneMessage DEF avoidance_on_scan
  <2>3. scans' = [scans EXCEPT !["avoidance"] = <<>>]
    BY <1>3, <2>2 DEF avoidance_on_scan
  <2>4. \/ sent_overrides' = sent_overrides
        \/ \E b \in BOOLEAN :
             sent_overrides' = [sent_overrides EXCEPT !["avoidance"] = <<b>>]
    <3> DEFINE b == (Head(scans["avoidance"]) # NoSample
                     /\ override_active(Head(scans["avoidance"])))
    <3>1. b \in BOOLEAN
      BY DEF override_active
    <3>2. Append(sent_overrides["avoidance"], b) = <<b>>
      BY <2>2, <3>1, OneMessage DEF Single
    <3>3. \/ sent_overrides' = sent_overrides
          \/ sent_overrides' = [sent_overrides EXCEPT !["avoidance"] = Append(@, b)]
      BY <1>3 DEF avoidance_on_scan
    <3> QED BY <3>1, <3>2, <3>3
  <2> QED BY <1>0, <2>1, <2>2, <2>3, <2>4 DEF Single
<1>4. CASE warning_on_scan
  <2>1. "warning" \in LidarNodes /\ silent' = silent
    BY <1>4 DEF warning_on_scan, history, LidarNodes
  <2>2. /\ scans["warning"] # <<>> /\ sent_overrides["warning"] = <<>>
        /\ Tail(scans["warning"]) = <<>>
    BY <1>0, <1>4, <2>1, OneMessage DEF warning_on_scan
  <2>3. scans' = [scans EXCEPT !["warning"] = <<>>]
    BY <1>4, <2>2 DEF warning_on_scan
  <2>4. \/ sent_overrides' = sent_overrides
        \/ \E b \in BOOLEAN :
             sent_overrides' = [sent_overrides EXCEPT !["warning"] = <<b>>]
    <3> DEFINE b == warns(Head(scans["warning"]))
    <3>1. b \in BOOLEAN
      BY DEF warns
    <3>2. Append(sent_overrides["warning"], b) = <<b>>
      BY <2>2, <3>1, OneMessage DEF Single
    <3>3. \/ sent_overrides' = sent_overrides
          \/ sent_overrides' = [sent_overrides EXCEPT !["warning"] = Append(@, b)]
      BY <1>4 DEF warning_on_scan
    <3> QED BY <3>1, <3>2, <3>3
  <2> QED BY <1>0, <2>1, <2>2, <2>3, <2>4 DEF Single
<1>5. ASSUME NEW n \in LidarNodes, take_override(n) PROVE Good'
  <2>1. sent_overrides' = [sent_overrides EXCEPT ![n] = <<>>]
    BY <1>0, <1>5, OneMessage DEF take_override
  <2> QED BY <1>0, <1>5, <2>1 DEF take_override, history, Single
<1>6. CASE Pass
  BY <1>0, <1>6 DEF Pass, Delivered, lidar, Single
<1> QED BY <1>1, <1>2, <1>3, <1>4, <1>5, <1>6
        DEF ChainNext, chain_vars, lidar, history, StartMonitor, StopMonitor,
            publish_health, take_fault, take_stop, take_twist, free_input,
            publish, relay

\* The clocks and the wheels keep to their ranges.
LEMMA ClockStep ==
  IInv /\ ChainTypeOK /\ [ChainNext]_chain_vars
    => /\ (running \in BOOLEAN)' /\ (uptime \in Nat)'
       /\ (unchecked \in 0..CheckPeriod)'
       /\ (heard \in [Sensors -> Nat])' /\ (silent \in [Sensors -> Nat])'
       /\ (wheels \in Twist)'
       /\ (late \in 0..(Reaction + 1))' /\ (blocked \in 0..(Period + 2))'
<1> DEFINE Good ==
      /\ running \in BOOLEAN /\ uptime \in Nat
      /\ unchecked \in 0..CheckPeriod
      /\ heard \in [Sensors -> Nat] /\ silent \in [Sensors -> Nat]
      /\ wheels \in Twist
      /\ late \in 0..(Reaction + 1) /\ blocked \in 0..(Period + 2)
<1> SUFFICES ASSUME IInv, ChainTypeOK, [ChainNext]_chain_vars PROVE Good'
  OBVIOUS
<1>0. Good /\ Reaction \in Nat /\ Period \in Nat \ {0} /\ out \in Twist
  BY DurationAssumption DEF ChainTypeOK, Reaction, IInv, TypeOK
<1>1. CASE UNCHANGED <<running, uptime, unchecked, heard, silent, wheels, late,
                       blocked>>
  BY <1>0, <1>1
<1>2. ASSUME NEW s \in Sensors, Speak(s) PROVE Good'
  <2>1. UNCHANGED <<running, uptime, unchecked, wheels>>
        /\ (late' = late \/ late' = 0)
    BY <1>2 DEF Speak
  <2>2. heard' \in [Sensors -> Nat] /\ silent' \in [Sensors -> Nat]
    BY <1>0, <1>2 DEF Speak
  <2>3. blocked' \in {0, 1, blocked}
    BY <1>2 DEF Speak, Watch
  <2> QED BY <1>0, <2>1, <2>2, <2>3
<1>3. CASE StartMonitor
  BY <1>0, <1>3 DEF StartMonitor, history
<1>4. CASE StopMonitor
  <2>1. UNCHANGED <<uptime, unchecked, heard, silent, wheels, blocked>>
        /\ running' = FALSE /\ late' = 0
    BY <1>4 DEF StopMonitor
  <2>2. late' \in 0..(Reaction + 1)
    BY <1>0, <2>1
  <2>3. running' \in BOOLEAN
    BY <2>1
  <2> QED BY <1>0, <2>1, <2>2, <2>3
<1>5. CASE publish_health
  BY <1>0, <1>5 DEF publish_health, history
<1>6. CASE relay
  BY <1>0, <1>6, ClampKeeps DEF relay, monitor, history
<1>7. CASE Pass
  <2>1. UNCHANGED <<running, wheels>> /\ uptime' \in Nat
    BY <1>0, <1>7 DEF Pass, Older
  <2>2. unchecked' \in 0..CheckPeriod
    BY <1>0, <1>7 DEF Pass
  <2>3. heard' \in [Sensors -> Nat] /\ silent' \in [Sensors -> Nat]
    BY <1>0, <1>7 DEF Pass, Older
  <2>4. late' \in 0..(Reaction + 1) /\ blocked' \in 0..(Period + 2)
    BY <1>0, <1>7 DEF Pass, Older
  <2> QED BY <1>0, <2>1, <2>2, <2>3, <2>4
<1> QED BY <1>1, <1>2, <1>3, <1>4, <1>5, <1>6, <1>7
        DEF ChainNext, chain_vars, monitor, history, avoidance_on_scan,
            warning_on_scan, take_fault, take_stop, take_override, take_twist,
            free_input, publish

\* The nodes' variables keep to their ranges, one message at a time.
LEMMA ChainTypeStep ==
  IInv /\ ChainTypeOK /\ OneAtATime /\ [ChainNext]_chain_vars
    => ChainTypeOK' /\ OneAtATime'
<1> SUFFICES ASSUME IInv, ChainTypeOK, OneAtATime, [ChainNext]_chain_vars
             PROVE  ChainTypeOK' /\ OneAtATime'
  OBVIOUS
<1>1. ChainTypeOK'
  BY FaultChannelStep, LidarChannelStep, ClockStep DEF ChainTypeOK
<1>2. OneAtATime'
  BY FaultChannelStep, LidarChannelStep DEF OneAtATime
<1> QED BY <1>1, <1>2

\* What the monitor takes for healthy is.
LEMMA HeardStep ==
  ChainTypeOK /\ HeardIsTrue /\ [ChainNext]_chain_vars => HeardIsTrue'
<1> SUFFICES ASSUME ChainTypeOK, HeardIsTrue, [ChainNext]_chain_vars
             PROVE  HeardIsTrue'
  OBVIOUS
<1> USE DEF ChainTypeOK, HeardIsTrue
<1>1. CASE UNCHANGED <<running, heard, silent>>
  BY <1>1
<1>2. ASSUME NEW s \in Sensors, Speak(s) PROVE HeardIsTrue'
  BY <1>2 DEF Speak
<1>3. CASE StartMonitor
  BY <1>3 DEF StartMonitor
<1>4. CASE StopMonitor
  BY <1>4 DEF StopMonitor
<1>5. CASE Pass
  BY <1>5 DEF Pass, Older
<1> QED BY <1>1, <1>2, <1>3, <1>4, <1>5
        DEF ChainNext, chain_vars, monitor, history, publish_health,
            avoidance_on_scan, warning_on_scan, take_fault, take_stop,
            take_override, take_twist, free_input, publish, relay

\* A fault is due for as long as it counts.
LEMMA DueStep == ChainTypeOK /\ LateIsDue /\ [ChainNext]_chain_vars => LateIsDue'
<1> SUFFICES ASSUME ChainTypeOK, LateIsDue, [ChainNext]_chain_vars
             PROVE  LateIsDue'
  OBVIOUS
<1> USE DEF ChainTypeOK, LateIsDue
<1>1. CASE UNCHANGED <<running, uptime, silent, late>>
  BY <1>1 DEF Due
<1>2. ASSUME NEW s \in Sensors, Speak(s) PROVE LateIsDue'
  BY <1>2 DEF Speak
<1>3. CASE StartMonitor
  BY <1>3 DEF StartMonitor, history, Due
<1>4. CASE StopMonitor
  BY <1>4 DEF StopMonitor
<1>5. CASE Pass
  <2> SUFFICES ASSUME Due PROVE Due'
    BY <1>5 DEF Pass
  <2>1. running' /\ uptime' >= Grace
    BY <1>5 DEF Pass, Due, Older
  <2>2. PICK s \in Sensors : silent[s] > Limit[s]
    BY DEF Due
  <2>3. silent'[s] > Limit[s]
    BY <1>5, <2>2 DEF Pass, Older
  <2> QED BY <2>1, <2>3 DEF Due
<1> QED BY <1>1, <1>2, <1>3, <1>4, <1>5
        DEF ChainNext, chain_vars, monitor, history, publish_health,
            avoidance_on_scan, warning_on_scan, take_fault, take_stop,
            take_override, take_twist, free_input, publish, relay

\* The stored fault changes with the monitor's messages only.
LEMMA FaultFrame ==
  [ChainNext]_chain_vars /\ ~take_fault => sensor_fault_active' = sensor_fault_active
<1> SUFFICES ASSUME [ChainNext]_chain_vars, ~take_fault
             PROVE  sensor_fault_active' = sensor_fault_active
  OBVIOUS
<1> QED BY DEF ChainNext, chain_vars, vars, conditions, Speak, StartMonitor,
           StopMonitor, publish_health, avoidance_on_scan, warning_on_scan,
           take_stop, on_estop, take_override, on_lidar_override, take_twist,
           on_twist, free_input, on_mode, on_person_slow, on_person_estop,
           publish, publish_selected_twist, relay, Pass, Tick

\* A fault that was due at the monitor's last run is under way or stored.
LEMMA SentStep ==
  /\ ChainTypeOK /\ OneAtATime /\ HeardIsTrue /\ LateIsDue /\ FaultIsSent
  /\ [ChainNext]_chain_vars
  => FaultIsSent'
<1> SUFFICES ASSUME ChainTypeOK, OneAtATime, HeardIsTrue, LateIsDue,
                    FaultIsSent, [ChainNext]_chain_vars
             PROVE  FaultIsSent'
  OBVIOUS
<1> USE DEF ChainTypeOK, FaultIsSent
<1>1. ASSUME UNCHANGED <<unchecked, sent_fault>>, ~take_fault,
             late' = late \/ late' = 0
      PROVE  FaultIsSent'
  <2>1. sensor_fault_active' = sensor_fault_active
    BY <1>1, FaultFrame
  <2>2. late' > unchecked' => late > unchecked
    BY <1>1
  <2> QED BY <1>1, <2>1, <2>2
<1>2. ASSUME NEW s \in Sensors, Speak(s) PROVE FaultIsSent'
  <2>1. UNCHANGED <<unchecked, sent_fault, sensor_fault_active>>
        /\ (late' = late \/ late' = 0)
    BY <1>2 DEF Speak, vars, conditions
  <2>2. late' > unchecked' => late > unchecked
    BY <2>1
  <2> QED BY <2>1, <2>2
<1>3. CASE StartMonitor
  <2>1. late' = 0 /\ unchecked' = 0
    BY <1>3 DEF StartMonitor, history, LateIsDue, Due
  <2> QED BY <2>1
<1>4. CASE StopMonitor
  BY <1>4 DEF StopMonitor
<1>5. CASE publish_health
  <2> SUFFICES ASSUME late > 0 PROVE FaultIsSent'
    BY <1>5 DEF publish_health, history
  <2>1. fault
    <3>1. ~in_grace /\ \E s \in Sensors : silent[s] > Limit[s]
      BY DEF LateIsDue, Due, in_grace
    <3>2. PICK s \in Sensors : silent[s] > Limit[s]
      BY <3>1
    <3>3. ~healthy(s)
      BY <1>5, <3>2 DEF HeardIsTrue, healthy, publish_health
    <3> QED BY <3>1, <3>3 DEF fault
  <2>2. sent_fault = <<>>
    BY <1>5 DEF publish_health, OneAtATime
  <2>3. sent_fault' = <<fault>>
    BY <1>5, <2>2 DEF publish_health
  <2> QED BY <2>1, <2>3
<1>6. CASE take_fault
  <2> SUFFICES ASSUME late > unchecked PROVE FaultIsSent'
    BY <1>6 DEF take_fault, history
  <2>1. sent_fault = <<TRUE>>
    BY <1>6 DEF take_fault
  <2>2. sent_fault' = <<>> /\ sensor_fault_active' = TRUE
    BY <1>6, <2>1 DEF take_fault
  <2> QED BY <2>2
<1>7. CASE Pass
  <2>1. sent_fault = <<>> /\ sent_fault' = <<>>
        /\ sensor_fault_active' = sensor_fault_active
    BY <1>7 DEF Pass, Delivered, Tick, conditions
  <2>2. ASSUME late' > unchecked' PROVE late > unchecked
    <3>1. running /\ unchecked' = unchecked + 1
      BY <1>7, <2>2 DEF Pass, Due
    <3>2. late' = IF late < Reaction + 1 THEN late + 1 ELSE late
      BY <1>7, <2>2 DEF Pass, Older
    <3>3. Reaction \in Nat /\ CheckPeriod < Reaction + 1
      BY DurationAssumption DEF Reaction
    <3> QED BY <2>2, <3>1, <3>2, <3>3
  <2> QED BY <2>1, <2>2
<1>8. CASE avoidance_on_scan \/ warning_on_scan \/ take_stop \/ free_input
           \/ publish \/ relay \/ UNCHANGED chain_vars
  <2>1. UNCHANGED <<unchecked, sent_fault, late>>
    BY <1>8 DEF avoidance_on_scan, warning_on_scan, take_stop, free_input,
                publish, relay, chain_vars, monitor, history
  <2> QED BY <1>1, <1>6, <2>1
<1>9. ASSUME NEW n \in LidarNodes, take_override(n) \/ take_twist(n)
      PROVE  FaultIsSent'
  <2>1. UNCHANGED <<unchecked, sent_fault, late>>
    BY <1>9 DEF take_override, take_twist, monitor, history
  <2> QED BY <1>1, <1>6, <2>1
<1> QED BY <1>2, <1>3, <1>4, <1>5, <1>6, <1>7, <1>8, <1>9 DEF ChainNext

\* Between two ticks a condition that stands keeps its duration.
LEMMA StandingFrame ==
  ASSUME TypeOK, [ChainNext]_chain_vars, ~Pass
  PROVE  /\ sensor_fault_active' => standing'["unsafe"] = standing["unsafe"]
         /\ lidar_override_active' => standing'["override"] = standing["override"]
<1> DEFINE Kept ==
      /\ sensor_fault_active' => standing'["unsafe"] = standing["unsafe"]
      /\ lidar_override_active' => standing'["override"] = standing["override"]
<1> USE DEF TypeOK, Condition
<1>1. CASE standing' = standing
  BY <1>1
<1>2. CASE on_mode
  BY <1>2 DEF on_mode, Observe
<1>3. CASE on_estop
  BY <1>3 DEF on_estop, Observe, Unsafe
<1>4. CASE on_sensor_fault
  BY <1>4 DEF on_sensor_fault, Observe, Unsafe
<1>5. CASE on_lidar_override
  BY <1>5 DEF on_lidar_override, Observe
<1>6. CASE on_person_slow
  BY <1>6 DEF on_person_slow, Observe
<1>7. ASSUME NEW b \in BOOLEAN, on_person_estop(b) PROVE Kept
  BY <1>7 DEF on_person_estop, Observe, Unsafe
<1>8. ASSUME NEW s \in Sources, on_twist(s) PROVE standing' = standing
  BY <1>8 DEF on_twist
<1>9. \/ standing' = standing \/ on_mode \/ on_estop \/ on_sensor_fault
      \/ on_lidar_override \/ on_person_slow
      \/ \E b \in BOOLEAN : on_person_estop(b)
  BY <1>8 DEF ChainNext, chain_vars, vars, Speak, StartMonitor, StopMonitor,
       publish_health, avoidance_on_scan, warning_on_scan, take_fault,
       take_stop, take_override, take_twist, free_input, publish,
       publish_selected_twist, relay, Sources
<1> QED BY <1>1, <1>2, <1>3, <1>4, <1>5, <1>6, <1>7, <1>9

\* The time a fault has been due grows in Pass only.
LEMMA LateFrame ==
  [ChainNext]_chain_vars /\ ~Pass
    => /\ late' = late \/ late' = 0
       /\ relay \/ wheels' = wheels
<1> SUFFICES ASSUME [ChainNext]_chain_vars, ~Pass
             PROVE  /\ late' = late \/ late' = 0
                    /\ relay \/ wheels' = wheels
  OBVIOUS
<1> QED BY DEF ChainNext, chain_vars, history, Speak, StartMonitor, StopMonitor,
           publish_health, avoidance_on_scan, warning_on_scan, take_fault,
           take_stop, take_override, take_twist, free_input, publish, relay

\* A fault that has been due for longer than the monitor's period stands, and
\* after the mux's period the wheels do.
LEMMA FaultStandsStep ==
  /\ IInv /\ ChainTypeOK /\ OneAtATime /\ LateIsDue /\ FaultIsSent
  /\ FaultStands /\ [ChainNext]_chain_vars
  => FaultStands'
<1> SUFFICES ASSUME IInv, ChainTypeOK, OneAtATime, LateIsDue, FaultIsSent,
                    FaultStands, [ChainNext]_chain_vars
             PROVE  FaultStands'
  OBVIOUS
<1>1. /\ TypeOK /\ late \in 0..(Reaction + 1) /\ unchecked \in 0..CheckPeriod
      /\ standing["unsafe"] \in 0..(Period + 1) /\ elapsed \in 0..Period
      /\ CheckPeriod \in Nat \ {0} /\ Period \in Nat \ {0}
      /\ Reaction = CheckPeriod + Period
  BY DurationAssumption DEF IInv, TypeOK, ChainTypeOK, Reaction, Condition
<1>2. ASSUME standing["unsafe"] > elapsed PROVE out = Zero
  BY <1>2 DEF IInv, StandingShows
<1>3. CASE Pass
  <2>1. /\ sent_fault = <<>> /\ wheels = Clamped(out) /\ wheels' = wheels
        /\ sensor_fault_active' = sensor_fault_active /\ elapsed < Period
    BY <1>3 DEF Pass, Delivered, Tick, conditions
  <2>2. late' = IF Due THEN (IF late < Reaction + 1 THEN late + 1 ELSE late)
                ELSE 0
    BY <1>3 DEF Pass, Older
  <2>3. Due => unchecked < CheckPeriod
    BY <1>3 DEF Pass, Due
  <2>4. standing'["unsafe"] = IF ~Unsafe THEN 0
          ELSE IF standing["unsafe"] < Period + 1 THEN standing["unsafe"] + 1
          ELSE standing["unsafe"]
    BY <1>3 DEF Pass, Tick, Condition, Stands, Older
  <2>5. ASSUME late' > CheckPeriod
        PROVE  /\ sensor_fault_active'
               /\ standing'["unsafe"] >= late' - CheckPeriod
    <3>1. Due /\ late >= CheckPeriod /\ unchecked < CheckPeriod
      BY <1>1, <2>2, <2>3, <2>5
    <3>2. sensor_fault_active
      BY <1>1, <2>1, <3>1 DEF FaultIsSent
    <3>3. late > CheckPeriod => standing["unsafe"] >= late - CheckPeriod
      BY DEF FaultStands
    <3>4. Unsafe
      BY <3>2 DEF Unsafe
    <3> QED BY <1>1, <2>1, <2>2, <2>4, <3>1, <3>2, <3>3, <3>4
  <2>6. ASSUME late' > Reaction PROVE wheels' = Stop
    <3>1. late >= Reaction
      BY <1>1, <2>2, <2>6
    <3>2. standing["unsafe"] > elapsed
      BY <1>1, <2>1, <3>1 DEF FaultStands
    <3> QED BY <1>2, <2>1, <3>2, ClampKeeps
  <2> QED BY <2>5, <2>6 DEF FaultStands
<1>4. CASE ~Pass
  <2>1. (late' = late \/ late' = 0) /\ (relay \/ wheels' = wheels)
    BY <1>4, LateFrame
  <2>2. ASSUME late' > CheckPeriod
        PROVE  /\ sensor_fault_active'
               /\ standing'["unsafe"] >= late' - CheckPeriod
    <3>1. late' = late /\ late > CheckPeriod /\ late > unchecked
      BY <1>1, <2>1, <2>2
    <3>2. sensor_fault_active /\ (sent_fault = <<>> \/ sent_fault = <<TRUE>>)
      BY <3>1 DEF FaultStands, FaultIsSent
    <3>3. sensor_fault_active'
      <4>1. CASE take_fault
        <5>1. sent_fault = <<TRUE>>
          BY <3>2, <4>1 DEF take_fault
        <5>2. Head(<<TRUE>>) = TRUE
          BY JustOne, Zenon
        <5>3. sensor_fault_active' = TRUE
          BY <4>1, <5>1, <5>2 DEF take_fault
        <5> QED BY <5>3
      <4>2. CASE ~take_fault
        BY <3>2, <4>2, FaultFrame
      <4> QED BY <4>1, <4>2
    <3>4. standing'["unsafe"] = standing["unsafe"]
      BY <1>1, <1>4, <3>3, StandingFrame
    <3> QED BY <3>1, <3>3, <3>4 DEF FaultStands
  <2>3. ASSUME late' > Reaction PROVE wheels' = Stop
    <3>1. late' = late /\ late > Reaction
      BY <1>1, <2>1, <2>3
    <3>2. wheels = Stop /\ standing["unsafe"] > elapsed
      BY <1>1, <3>1 DEF FaultStands
    <3>3. relay => wheels' = Clamped(out)
      BY DEF relay
    <3> QED BY <1>2, <2>1, <3>2, <3>3, ClampKeeps
  <2> QED BY <2>2, <2>3 DEF FaultStands
<1> QED BY <1>3, <1>4

\* The stored override changes with the lidar nodes' messages only.
LEMMA OverrideFrame ==
  [ChainNext]_chain_vars /\ (\A n \in LidarNodes : ~take_override(n))
    => lidar_override_active' = lidar_override_active
<1> SUFFICES ASSUME [ChainNext]_chain_vars, \A n \in LidarNodes : ~take_override(n)
             PROVE  lidar_override_active' = lidar_override_active
  OBVIOUS
<1> QED BY DEF ChainNext, chain_vars, vars, conditions, Speak, StartMonitor,
           StopMonitor, publish_health, avoidance_on_scan, warning_on_scan,
           take_fault, on_sensor_fault, take_stop, on_estop, take_twist,
           on_twist, free_input, on_mode, on_person_slow, on_person_estop,
           publish, publish_selected_twist, relay, Pass, Tick

\* A step that no scan begins and no lidar node takes leaves their channels.
LEMMA LidarFrame ==
  ASSUME [ChainNext]_chain_vars, ~avoidance_on_scan, ~warning_on_scan,
         \A s \in Sensors : ~Speak(s), \A n \in LidarNodes : ~take_override(n)
  PROVE  /\ UNCHANGED <<scans, sent_overrides, lidar_override_active>>
         /\ ~Pass => UNCHANGED <<silent, blocked>>
<1>1. lidar_override_active' = lidar_override_active
  BY OverrideFrame
<1> QED BY <1>1 DEF ChainNext, chain_vars, lidar, history, StartMonitor,
           StopMonitor, publish_health, take_fault, take_stop, take_twist,
           free_input, publish, relay, Pass

\* What a scan does to the channels of the lidar nodes.
LEMMA ScanIsSent ==
  ASSUME ChainTypeOK, OneAtATime, NEW s \in Sensors, Speak(s)
  PROVE  \/ UNCHANGED <<scans, sent_overrides, lidar_override_active, blocked>>
            /\ (silent["scan"] = 0 => silent'["scan"] = 0)
         \/ \E v \in Views :
              /\ \A n \in LidarNodes :
                   scans'[n] = <<v[n]>> /\ sent_overrides'[n] = <<>>
              /\ silent["scan"] > 0 /\ silent'["scan"] = 0
              /\ lidar_override_active' = lidar_override_active
              /\ blocked' = Watch(v)
<1>1. UNCHANGED <<sent_overrides, lidar_override_active>>
  BY DEF Speak, vars, conditions
<1>2. CASE s # "scan"
  BY <1>1, <1>2 DEF Speak, ChainTypeOK
<1>3. CASE s = "scan"
  <2>1. silent["scan"] > 0 /\ silent'["scan"] = 0
    BY <1>3 DEF Speak, ChainTypeOK
  <2>2. \A n \in LidarNodes : scans[n] = <<>> /\ sent_overrides[n] = <<>>
    BY <2>1 DEF OneAtATime
  <2>3. PICK v \in Views :
          /\ scans' = [n \in LidarNodes |-> Append(scans[n], v[n])]
          /\ blocked' = Watch(v)
    BY <1>3 DEF Speak
  <2>4. \A n \in LidarNodes : scans'[n] = <<v[n]>>
    BY <2>2, <2>3, JustOne
  <2> QED BY <1>1, <2>1, <2>2, <2>3, <2>4
<1> QED BY <1>2, <1>3

\* What the avoidance does with a scan.
LEMMA AvoidanceSends ==
  ASSUME ChainTypeOK, OneAtATime, avoidance_on_scan
  PROVE  /\ scans["avoidance"] # <<>>
         /\ scans' = [scans EXCEPT !["avoidance"] = <<>>]
         /\ UNCHANGED <<lidar_override_active, silent, blocked>>
         /\ LET front == Head(scans["avoidance"])
                near == front # NoSample /\ override_active(front) IN
            IF front = NoSample THEN sent_overrides' = sent_overrides
            ELSE sent_overrides' = [sent_overrides EXCEPT !["avoidance"] = <<near>>]
<1> DEFINE b == Head(scans["avoidance"]) # NoSample
                /\ override_active(Head(scans["avoidance"]))
<1>1. /\ scans["avoidance"] # <<>> /\ sent_overrides["avoidance"] = <<>>
      /\ Tail(scans["avoidance"]) = <<>>
  BY OneMessage DEF ChainTypeOK, OneAtATime, avoidance_on_scan, LidarNodes
<1>2. Append(sent_overrides["avoidance"], b) = <<b>>
  <2> HIDE DEF b
  <2> QED BY <1>1, JustOne
<1>3. UNCHANGED <<lidar_override_active, silent, blocked>>
      /\ scans' = [scans EXCEPT !["avoidance"] = Tail(scans["avoidance"])]
  BY DEF avoidance_on_scan, vars, conditions, history
<1>4. sent_overrides' =
        IF Head(scans["avoidance"]) = NoSample THEN sent_overrides
        ELSE [sent_overrides EXCEPT !["avoidance"] = Append(@, b)]
  BY DEF avoidance_on_scan
<1> QED BY <1>1, <1>2, <1>3, <1>4

\* What the warning does with a scan.
LEMMA WarningSends ==
  ASSUME ChainTypeOK, OneAtATime, warning_on_scan
  PROVE  /\ scans["warning"] # <<>>
         /\ scans' = [scans EXCEPT !["warning"] = <<>>]
         /\ UNCHANGED <<lidar_override_active, silent, blocked>>
         /\ LET front == Head(scans["warning"]) IN
            IF front # NoSample /\ EnableControl
            THEN sent_overrides' =
                   [sent_overrides EXCEPT !["warning"] = <<warns(front)>>]
            ELSE sent_overrides' = sent_overrides
<1> DEFINE b == warns(Head(scans["warning"]))
<1>1. /\ scans["warning"] # <<>> /\ sent_overrides["warning"] = <<>>
      /\ Tail(scans["warning"]) = <<>>
  BY OneMessage DEF ChainTypeOK, OneAtATime, warning_on_scan, LidarNodes
<1>2. Append(sent_overrides["warning"], b) = <<b>>
  <2> HIDE DEF b
  <2> QED BY <1>1, JustOne
<1>3. UNCHANGED <<lidar_override_active, silent, blocked>>
      /\ scans' = [scans EXCEPT !["warning"] = Tail(scans["warning"])]
  BY DEF warning_on_scan, vars, conditions, history
<1>4. sent_overrides' =
        IF Head(scans["warning"]) # NoSample /\ EnableControl
        THEN [sent_overrides EXCEPT !["warning"] = Append(@, b)]
        ELSE sent_overrides
  BY DEF warning_on_scan
<1> QED BY <1>1, <1>2, <1>3, <1>4

\* Nothing under way lifts the override of a blocked way.
LEMMA LiftsStep ==
  ChainTypeOK /\ OneAtATime /\ NothingLifts /\ [ChainNext]_chain_vars
    => NothingLifts'
<1> SUFFICES ASSUME ChainTypeOK, OneAtATime, NothingLifts,
                    [ChainNext]_chain_vars, blocked' > 0
             PROVE  NothingLifts'
  BY DEF NothingLifts
<1>0. /\ DOMAIN scans = LidarNodes /\ DOMAIN sent_overrides = LidarNodes
      /\ {"avoidance", "warning"} = LidarNodes
      /\ SlowDistance \in Nat /\ WarningDistance \in Nat /\ ClearDistance \in Nat
  BY DEF ChainTypeOK, LidarNodes
<1>1. ASSUME UNCHANGED <<scans, sent_overrides>>, blocked > 0 PROVE NothingLifts'
  BY <1>1 DEF NothingLifts
<1>2. ASSUME NEW s \in Sensors, Speak(s) PROVE NothingLifts'
  <2>1. CASE UNCHANGED <<scans, sent_overrides, lidar_override_active, blocked>>
    BY <1>1, <2>1
  <2>2. CASE \E v \in Views :
               /\ \A n \in LidarNodes :
                    scans'[n] = <<v[n]>> /\ sent_overrides'[n] = <<>>
               /\ blocked' = Watch(v)
    <3>1. PICK v \in Views :
            /\ \A n \in LidarNodes :
                 scans'[n] = <<v[n]>> /\ sent_overrides'[n] = <<>>
            /\ blocked' = Watch(v)
      BY <2>2
    <3>2. v["avoidance"] = NoSample \/ v["avoidance"] < SlowDistance
      BY <3>1 DEF Watch, Unseen, Blocks
    <3>3. EnableControl =>
            v["warning"] <= WarningDistance /\ v["warning"] <= ClearDistance
      BY <1>0, <3>1 DEF Watch, Unseen, Blocks, NoSample
    <3>4. /\ Head(scans'["avoidance"]) = v["avoidance"]
          /\ Head(scans'["warning"]) = v["warning"]
      <4>1. scans'["avoidance"] = <<v["avoidance"]>> /\ scans'["warning"] = <<v["warning"]>>
        BY <1>0, <3>1
      <4> QED BY <4>1, JustOne
    <3> QED BY <3>1, <3>2, <3>3, <3>4 DEF NothingLifts
  <2> QED BY <1>2, <2>1, <2>2, ScanIsSent
<1>3. CASE avoidance_on_scan
  <2> DEFINE front == Head(scans["avoidance"])
  <2>1. /\ scans["avoidance"] # <<>> /\ blocked > 0
        /\ scans' = [scans EXCEPT !["avoidance"] = <<>>]
    BY <1>3, AvoidanceSends
  <2>2. \/ sent_overrides' = sent_overrides
        \/ sent_overrides' = [sent_overrides EXCEPT !["avoidance"] = <<TRUE>>]
    <3>1. front = NoSample \/ front < SlowDistance
      BY <2>1 DEF NothingLifts
    <3>2. CASE front = NoSample
      BY <1>3, <3>2, AvoidanceSends
    <3>3. CASE front # NoSample
      <4>1. (front # NoSample /\ override_active(front)) = TRUE
        BY <3>1, <3>3 DEF override_active
      <4> QED BY <1>3, <3>3, <4>1, AvoidanceSends
    <3> QED BY <3>2, <3>3
  <2> QED BY <1>0, <2>1, <2>2 DEF NothingLifts
<1>4. CASE warning_on_scan
  <2> DEFINE front == Head(scans["warning"])
  <2>1. /\ scans["warning"] # <<>> /\ blocked > 0
        /\ scans' = [scans EXCEPT !["warning"] = <<>>]
    BY <1>4, WarningSends
  <2>2. \/ sent_overrides' = sent_overrides
        \/ sent_overrides' = [sent_overrides EXCEPT !["warning"] = <<TRUE>>]
    <3>1. CASE front # NoSample /\ EnableControl
      <4>1. front <= WarningDistance /\ front <= ClearDistance
        BY <2>1, <3>1 DEF NothingLifts
      <4>2. warns(front) = TRUE
        BY <4>1 DEF warns
      <4> QED BY <1>4, <3>1, <4>2, WarningSends
    <3>2. CASE ~(front # NoSample /\ EnableControl)
      BY <1>4, <3>2, WarningSends
    <3> QED BY <3>1, <3>2
  <2> QED BY <1>0, <2>1, <2>2 DEF NothingLifts
<1>5. ASSUME NEW n \in LidarNodes, take_override(n) PROVE NothingLifts'
  <2>1. /\ sent_overrides' = [sent_overrides EXCEPT ![n] = <<>>]
        /\ UNCHANGED <<scans, blocked>>
    BY <1>5, OneMessage DEF take_override, history, ChainTypeOK
  <2> QED BY <1>0, <2>1 DEF NothingLifts
<1>6. CASE Pass
  <2>1. blocked > 0 /\ UNCHANGED <<scans, sent_overrides>>
    BY <1>6 DEF Pass, lidar, ChainTypeOK
  <2> QED BY <1>1, <2>1
<1>7. ASSUME ~avoidance_on_scan, ~warning_on_scan, \A s \in Sensors : ~Speak(s),
             \A n \in LidarNodes : ~take_override(n), ~Pass
      PROVE  NothingLifts'
  BY <1>1, <1>7, LidarFrame
<1> QED BY <1>2, <1>3, <1>4, <1>5, <1>6, <1>7

\* The scan that shows the way blocked brings the override.
LEMMA ComesStep ==
  ChainTypeOK /\ OneAtATime /\ NothingLifts /\ OverrideComes
    /\ [ChainNext]_chain_vars => OverrideComes'
<1> SUFFICES ASSUME ChainTypeOK, OneAtATime, NothingLifts, OverrideComes,
                    [ChainNext]_chain_vars, blocked' = 1
             PROVE  OverrideComes'
  BY DEF OverrideComes
<1>0. /\ DOMAIN scans = LidarNodes /\ DOMAIN sent_overrides = LidarNodes
      /\ {"avoidance", "warning"} = LidarNodes
  BY DEF ChainTypeOK, LidarNodes
<1>1. ASSUME UNCHANGED <<scans, sent_overrides, lidar_override_active>>,
             silent["scan"] = 0 => silent'["scan"] = 0, blocked = 1
      PROVE  OverrideComes'
  BY <1>1 DEF OverrideComes
<1>2. ASSUME NEW s \in Sensors, Speak(s) PROVE OverrideComes'
  <2>1. CASE UNCHANGED <<scans, sent_overrides, lidar_override_active, blocked>>
             /\ (silent["scan"] = 0 => silent'["scan"] = 0)
    BY <1>1, <2>1
  <2>2. ASSUME NEW v \in Views,
               \A n \in LidarNodes :
                  scans'[n] = <<v[n]>> /\ sent_overrides'[n] = <<>>,
               silent["scan"] > 0, silent'["scan"] = 0, blocked' = Watch(v)
        PROVE  OverrideComes'
    <3>1. blocked # 1
      BY <2>2 DEF OverrideComes
    <3>2. Blocks(v)
      BY <2>2, <3>1 DEF Watch
    <3>3. Head(scans'["avoidance"]) = v["avoidance"] /\ scans'["avoidance"] # <<>>
      <4>1. scans'["avoidance"] = <<v["avoidance"]>>
        BY <1>0, <2>2
      <4> QED BY <4>1, JustOne
    <3> QED BY <2>2, <3>2, <3>3 DEF OverrideComes, Blocks
  <2> QED BY <1>2, <2>1, <2>2, ScanIsSent
<1>3. CASE avoidance_on_scan
  <2> DEFINE front == Head(scans["avoidance"])
  <2>1. /\ scans["avoidance"] # <<>> /\ blocked = 1
        /\ scans' = [scans EXCEPT !["avoidance"] = <<>>]
        /\ UNCHANGED <<silent, lidar_override_active>>
    BY <1>3, AvoidanceSends
  <2>2. CASE front = NoSample
    <3>1. sent_overrides' = sent_overrides
      BY <1>3, <2>2, AvoidanceSends
    <3>2. lidar_override_active \/ sent_overrides["avoidance"] # <<>>
      BY <2>1, <2>2 DEF OverrideComes
    <3> QED BY <2>1, <3>1, <3>2 DEF OverrideComes
  <2>3. CASE front # NoSample
    <3>1. sent_overrides'["avoidance"] # <<>>
      <4> DEFINE near == front # NoSample /\ override_active(front)
      <4>1. sent_overrides' = [sent_overrides EXCEPT !["avoidance"] = <<near>>]
        BY <1>3, <2>3, AvoidanceSends
      <4> HIDE DEF near
      <4>2. <<near>> # <<>>
        BY JustOne
      <4> QED BY <1>0, <4>1, <4>2
    <3> QED BY <2>1, <3>1 DEF OverrideComes
  <2> QED BY <2>2, <2>3
<1>4. CASE warning_on_scan
  <2>1. /\ blocked = 1 /\ UNCHANGED <<silent, lidar_override_active>>
        /\ scans'["avoidance"] = scans["avoidance"]
        /\ sent_overrides'["avoidance"] = sent_overrides["avoidance"]
    BY <1>0, <1>4, WarningSends
  <2> QED BY <2>1 DEF OverrideComes
<1>5. ASSUME NEW n \in LidarNodes, take_override(n) PROVE OverrideComes'
  <2>1. /\ blocked = 1 /\ UNCHANGED silent
        /\ lidar_override_active' = Head(sent_overrides[n])
        /\ sent_overrides[n] # <<>>
    BY <1>5 DEF take_override, history
  <2>2. sent_overrides[n] = <<TRUE>>
    <3>1. blocked > 0
      BY <2>1
    <3>2. sent_overrides[n] \in {<<>>, <<TRUE>>}
      BY <3>1, Zenon DEF NothingLifts
    <3> QED BY <2>1, <3>2, Zenon
  <2>3. Head(<<TRUE>>) = TRUE
    BY JustOne, Zenon
  <2>4. lidar_override_active' = TRUE
    BY <2>1, <2>2, <2>3
  <2> QED BY <2>1, <2>4 DEF OverrideComes
<1>6. CASE Pass
  BY <1>6, DurationAssumption DEF Pass, Older, ChainTypeOK
<1>7. ASSUME ~avoidance_on_scan, ~warning_on_scan, \A s \in Sensors : ~Speak(s),
             \A n \in LidarNodes : ~take_override(n), ~Pass
      PROVE  OverrideComes'
  BY <1>1, <1>7, LidarFrame
<1> QED BY <1>2, <1>3, <1>4, <1>5, <1>6, <1>7

\* Between two ticks a blocked way stays, is new, or is free.
LEMMA BlockedFrame ==
  [ChainNext]_chain_vars /\ ~Pass
    => blocked' = blocked \/ blocked' = 0 \/ blocked' = 1
<1> SUFFICES ASSUME [ChainNext]_chain_vars, ~Pass
             PROVE  blocked' = blocked \/ blocked' = 0 \/ blocked' = 1
  OBVIOUS
<1>1. ASSUME NEW s \in Sensors, Speak(s)
      PROVE  blocked' = blocked \/ blocked' = 0 \/ blocked' = 1
  BY <1>1 DEF Speak, Watch
<1> QED BY <1>1 DEF ChainNext, chain_vars, history, StartMonitor, StopMonitor,
           publish_health, avoidance_on_scan, warning_on_scan, take_fault,
           take_stop, take_override, take_twist, free_input, publish, relay

\* The override of a blocked way is not lifted.
LEMMA OverrideKept ==
  ASSUME NothingLifts, [ChainNext]_chain_vars, blocked > 0, lidar_override_active
  PROVE  lidar_override_active' = TRUE
<1>1. ASSUME NEW n \in LidarNodes, take_override(n)
      PROVE  lidar_override_active' = TRUE
  <2>1. /\ lidar_override_active' = Head(sent_overrides[n])
        /\ sent_overrides[n] # <<>>
    BY <1>1 DEF take_override
  <2>2. sent_overrides[n] = <<TRUE>>
    <3>1. sent_overrides[n] \in {<<>>, <<TRUE>>}
      BY Zenon DEF NothingLifts
    <3> QED BY <2>1, <3>1, Zenon
  <2>3. Head(<<TRUE>>) = TRUE
    BY JustOne, Zenon
  <2> QED BY <2>1, <2>2, <2>3
<1> QED BY <1>1, OverrideFrame

\* The override stands from the tick of the scan on, and holds the wheels
\* after the mux's period.
LEMMA OverrideStandsStep ==
  /\ IInv /\ ChainTypeOK /\ NothingLifts /\ OverrideComes /\ OverrideStands
  /\ [ChainNext]_chain_vars
  => OverrideStands'
<1> SUFFICES ASSUME IInv, ChainTypeOK, NothingLifts, OverrideComes,
                    OverrideStands, [ChainNext]_chain_vars
             PROVE  OverrideStands'
  OBVIOUS
<1>1. /\ TypeOK /\ blocked \in 0..(Period + 2) /\ out \in Twist
      /\ standing["override"] \in 0..(Period + 1) /\ elapsed \in 0..Period
      /\ Period \in Nat \ {0}
  BY DurationAssumption DEF IInv, TypeOK, ChainTypeOK, Condition
<1>2. ASSUME ~AllowForward, standing["override"] > elapsed PROVE out.x <= 0
  <2>1. \A t \in Twists["lidar"] : t.x <= 0
    BY <1>2
  <2> QED BY <1>2, <2>1 DEF IInv, StandingShows
<1>3. CASE Pass
  <2>1. /\ wheels = Clamped(out) /\ wheels' = wheels /\ elapsed < Period
        /\ \A n \in LidarNodes : scans[n] = <<>> /\ sent_overrides[n] = <<>>
        /\ lidar_override_active' = lidar_override_active
    BY <1>3 DEF Pass, Delivered, Tick, conditions
  <2>2. blocked' = IF blocked = 0 THEN 0
                   ELSE IF blocked < Period + 2 THEN blocked + 1 ELSE blocked
    BY <1>3 DEF Pass, Older
  <2>3. standing'["override"] = IF ~lidar_override_active THEN 0
          ELSE IF standing["override"] < Period + 1
               THEN standing["override"] + 1 ELSE standing["override"]
    BY <1>3 DEF Pass, Tick, Condition, Stands, Older
  <2>4. blocked > 0 => lidar_override_active
    BY <1>1, <2>1 DEF OverrideComes, OverrideStands, LidarNodes
  <2>5. ASSUME blocked' > 1
        PROVE  lidar_override_active' /\ standing'["override"] >= blocked' - 1
    <3>1. blocked > 0
      BY <1>1, <2>2, <2>5
    <3>2. lidar_override_active /\ lidar_override_active'
      BY <2>1, <2>4, <3>1
    <3>3. standing'["override"] = IF standing["override"] < Period + 1
            THEN standing["override"] + 1 ELSE standing["override"]
      BY <2>3, <3>2
    <3>4. blocked > 1 => standing["override"] >= blocked - 1
      BY DEF OverrideStands
    <3>5. standing'["override"] >= blocked' - 1
      <4> DEFINE a == standing["override"]
                 b == standing'["override"]
      <4>1. /\ a \in 0..(Period + 1) /\ b = IF a < Period + 1 THEN a + 1 ELSE a
            /\ blocked > 1 => a >= blocked - 1
        BY <1>1, <3>3, <3>4
      <4> HIDE DEF a, b
      <4>2. b >= blocked' - 1
        BY <1>1, <2>2, <3>1, <4>1
      <4> QED BY <4>2 DEF b
    <3> QED BY <3>2, <3>5
  <2>6. ASSUME ~AllowForward, blocked' > Period + 1 PROVE wheels'.x <= 0
    <3>1. blocked >= Period + 1
      BY <1>1, <2>2, <2>6
    <3>2. standing["override"] > elapsed
      BY <1>1, <2>1, <3>1 DEF OverrideStands
    <3> QED BY <1>1, <1>2, <2>1, <2>6, <3>2, ClampKeeps
  <2> QED BY <2>5, <2>6 DEF OverrideStands
<1>4. CASE ~Pass
  <2>1. blocked' = blocked \/ blocked' = 0 \/ blocked' = 1
    BY <1>4, BlockedFrame
  <2>2. relay \/ wheels' = wheels
    BY <1>4, LateFrame
  <2>3. ASSUME blocked' > 1
        PROVE  lidar_override_active' /\ standing'["override"] >= blocked' - 1
    <3>1. blocked' = blocked /\ blocked > 1
      BY <2>1, <2>3
    <3>4. blocked > 0 /\ lidar_override_active
      BY <1>1, <3>1 DEF OverrideStands
    <3>2. lidar_override_active' = TRUE
      BY <3>4, OverrideKept
    <3>3. standing'["override"] = standing["override"]
      BY <1>1, <1>4, <3>2, StandingFrame
    <3> QED BY <3>1, <3>2, <3>3 DEF OverrideStands
  <2>4. ASSUME ~AllowForward, blocked' > Period + 1 PROVE wheels'.x <= 0
    <3>1. blocked' = blocked /\ blocked > Period + 1
      BY <1>1, <2>1, <2>4
    <3>2. wheels.x <= 0 /\ standing["override"] > elapsed
      BY <1>1, <2>4, <3>1 DEF OverrideStands
    <3>3. relay => wheels' = Clamped(out)
      BY DEF relay
    <3> QED BY <1>1, <1>2, <2>2, <2>4, <3>2, <3>3, ClampKeeps
  <2> QED BY <2>3, <2>4 DEF OverrideStands
<1> QED BY <1>3, <1>4

\* The invariant holds initially.
LEMMA ChainInitial == ChainInit => CInv
<1> SUFFICES ASSUME ChainInit PROVE CInv
  OBVIOUS
<1> USE DEF ChainInit
<1>1. IInv
  BY InitIInv
<1>2. \A s \in Sensors : Limit[s] + 1 \in Nat
  OBVIOUS
<1>3. /\ heard \in [Sensors -> Nat] /\ silent \in [Sensors -> Nat]
      /\ wheels \in Twist /\ Reaction \in Nat /\ Period \in Nat
  BY <1>2, DurationAssumption DEF Stop, Twist, Reaction
<1>4. ChainTypeOK
  <2>1. /\ DOMAIN scans = LidarNodes /\ DOMAIN sent_overrides = LidarNodes
        /\ \A n \in LidarNodes : scans[n] = <<>> /\ sent_overrides[n] = <<>>
        /\ sent_fault = <<>>
    OBVIOUS
  <2>2. \A n \in LidarNodes :
          Single(scans[n], Nat) /\ Single(sent_overrides[n], BOOLEAN)
    BY <2>1 DEF Single
  <2>3. Single(sent_fault, BOOLEAN)
    BY <2>1 DEF Single
  <2>4. /\ running \in BOOLEAN /\ uptime \in Nat /\ unchecked = 0
        /\ late = 0 /\ blocked = 0
    OBVIOUS
  <2>5. /\ unchecked \in 0..CheckPeriod /\ late \in 0..(Reaction + 1)
        /\ blocked \in 0..(Period + 2)
    BY <1>3, <2>4, MonitorAssumption
  <2> QED BY <1>3, <2>1, <2>2, <2>3, <2>4, <2>5 DEF ChainTypeOK
<1>5. OneAtATime /\ HeardIsTrue /\ LateIsDue /\ FaultIsSent
  BY DEF OneAtATime, HeardIsTrue, LateIsDue, FaultIsSent
<1>6. FaultStands /\ NothingLifts /\ OverrideComes /\ OverrideStands
  BY <1>3 DEF FaultStands, NothingLifts, OverrideComes, OverrideStands, Reaction
<1> QED BY <1>1, <1>4, <1>5, <1>6 DEF CInv

\* The invariant holds in every reachable state of the chain.
THEOREM ChainInvariant == Chain => []CInv
<1>1. CInv /\ [ChainNext]_chain_vars => CInv'
  BY MuxInvStep, ChainTypeStep, HeardStep, DueStep, SentStep, FaultStandsStep,
     LiftsStep, ComesStep, OverrideStandsStep DEF CInv
<1> QED BY <1>1, ChainInitial, PTL DEF Chain

\* A silent sensor stops the car within both timers' periods.
THEOREM SilenceStopsCar == Chain => []SilenceStops
<1>1. CInv => SilenceStops
  <2> SUFFICES ASSUME CInv, late > Reaction PROVE effective /\ wheels = Stop
    BY DEF SilenceStops
  <2>1. standing["unsafe"] > elapsed
    BY DurationAssumption
       DEF CInv, FaultStands, ChainTypeOK, IInv, TypeOK, Reaction, Condition
  <2> QED BY <2>1 DEF CInv, FaultStands, IInv, StandingShows
<1> QED BY <1>1, ChainInvariant, PTL

\* A blocked way holds the wheels within the mux's period.
THEOREM BlockedWayHoldsCar == Chain => []BlockedWayHolds
<1>1. CInv => BlockedWayHolds
  BY DEF CInv, OverrideStands, BlockedWayHolds
<1> QED BY <1>1, ChainInvariant, PTL
=============================================================================
