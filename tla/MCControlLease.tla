--------------------------- MODULE MCControlLease ---------------------------
(* Two clients, as model values, on which TLC checks ControlLease.          *)
EXTENDS ControlLease

CONSTANTS a, b

BothSessions == {a, b}
=============================================================================
