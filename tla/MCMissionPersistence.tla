------------------------ MODULE MCMissionPersistence ------------------------
(* A route of two checkpoints the first with a task, two missions, so that one *)
(* can be continued by the other, and one failing transaction.              *)
EXTENDS MissionPersistence

Visual == [i \in 0..1 |-> 1 - i]
Fresh == {0}
Once == {FALSE}
All == CallbackKinds
=============================================================================
