-------------------------- MODULE MCRuntimeManager --------------------------
(* Two profiles and up to four transitions, on which TLC checks             *)
(* RuntimeManager.                                                          *)
EXTENDS RuntimeManager

TwoProfiles == {"navigation", "mission"}
LaunchFaults == {"crash", "orphans", "unkillable"}
AllFaults == {"crash", "orphans", "unkillable", "shutdown"}
=============================================================================
