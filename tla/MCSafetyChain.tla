---------------------------- MODULE MCSafetyChain ----------------------------
(* Sensors, scans and commands on which TLC checks SafetyChain.             *)
EXTENDS SafetyChain

Forward == [x |-> 2, z |-> 0]
Turns   == {[x |-> 0, z |-> 0]}

\* The operator drives; the lidar nodes stop or turn.
Drivers == [s \in Sources |-> CASE s = "manual" -> {Forward} [] s = "lidar" -> Turns
                               [] OTHER -> {}]
NoTimeout == [s \in Sources |-> 0]
ScanAndOdometry == [s \in {"scan", "odometry"} |-> IF s = "scan" THEN 1 ELSE 0]

\* Nothing in the window, and the zones between the thresholds.
SameWindow == {[n \in LidarNodes |-> d] : d \in 0..4}
=============================================================================
