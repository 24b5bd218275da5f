------------------------ MODULE MCMissionManager ------------------------
(* Small routes on which TLC checks MissionManager.                        *)
EXTENDS MissionManager

Visit(nav, checkin, retries, tasks, inspection) ==
  [nav |-> nav, checkin |-> checkin, retries |-> retries, tasks |-> tasks,
   inspection |-> inspection]

\* One checkpoint of every kind of waiting policy, then one that skips,
\* alerts and continues.
PatientRoute ==
  [i \in 0..1 |->
     IF i = 0
     THEN Visit("retry_then_wait_operator", "retry_then_wait_operator", 1,
                <<TRUE>>, "wait_operator")
     ELSE Visit("retry_then_skip", "alert_and_continue", 0, <<FALSE, TRUE>>,
                "alert_and_continue")]

\* A single checkpoint without check-in or tasks.
PlainRoute ==
  [i \in 0..0 |->
     Visit("retry_then_wait_operator", "none", 0, <<>>, "wait_operator")]

\* A single checkpoint with everything that can be retried.
RetryRoute ==
  [i \in 0..0 |->
     Visit("retry_then_wait_operator", "retry_then_wait_operator", 1, <<TRUE>>,
           "wait_operator")]
=============================================================================
