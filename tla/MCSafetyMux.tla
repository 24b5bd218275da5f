----------------------------- MODULE MCSafetyMux -----------------------------
(* Commands and timeouts on which TLC checks SafetyMux.                     *)
EXTENDS SafetyMux

Forward == [x |-> 2, z |-> 0]
Back    == [x |-> -2, z |-> 1]
Turn    == [x |-> 0, z |-> 1]

Send(manual, nav, lidar) ==
  [s \in Sources |-> CASE s = "manual" -> manual [] s = "nav" -> nav
                      [] s = "lidar" -> lidar [] OTHER -> {}]

\* The operator drives forward, navigation back, and the lidar only turns.
WithLidar == Send({Forward}, {Back}, {Turn})

ShortTimeouts == [s \in Sources |-> 1]
=============================================================================
