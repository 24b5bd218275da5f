------------------------ MODULE MCCheckpointVerifier ------------------------
(* Requests on which TLC checks CheckpointVerifier.                         *)
EXTENDS CheckpointVerifier

\* A fence alone with a dwell, and a marker of two frames with a short one.
BothMethods ==
  {[method |-> "geofence", timeout |-> 3, dwell |-> 2, confirmation_frames |-> 1],
   [method |-> "visual_marker", timeout |-> 3, dwell |-> 1, confirmation_frames |-> 3]}
=============================================================================
