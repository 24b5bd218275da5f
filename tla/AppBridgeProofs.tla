--------------------------- MODULE AppBridgeProofs ---------------------------
(***************************************************************************)
(* Proofs about AppBridge for any number of clients, consoles, goals and   *)
(* patrols and any delay of the manager's news: which goal and patrol the  *)
(* bridge knows, and what its checks see.  The last section is about one   *)
(* client and no console, for which no patrol is ever lost sight of.       *)
(***************************************************************************)
EXTENDS AppBridge, SequenceTheorems, TLAPS

-----------------------------------------------------------------------------
(* Types.                                                                  *)

States == Patrolling \cup {"ENDED"}

\* A step of the table is a step of what the bridge sees of it.
LEMMA MovesSeen ==
  ASSUME NEW m \in Missions, ManagerMoves(m)
  PROVE  /\ \A x \in Missions \ Consoles : mission[x] # "unused" => missionTold[x] # "none"
         /\ mission[m] \in Patrolling
         /\ \E state \in Patrolling \cup {"ended"} : Publish(m, state)
<1>1. PICK state \in ActiveStates : \E next \in ALLOWED_TRANSITIONS[state] :
        Seen(state) = mission[m] /\ Publish(m, Seen(next))
  BY DEF ManagerMoves
<1>2. Seen(state) \in Patrolling /\ \A next : Seen(next) \in Patrolling \cup {"ended"}
  BY DEF Seen, Patrolling, ActiveStates, TERMINAL_STATES
<1> QED BY <1>1, <1>2 DEF ManagerMoves

LEMMA InitTypeOK == Init => TypeOK
<1> SUFFICES ASSUME Init PROVE TypeOK
  OBVIOUS
<1>1. news \in Seq(States)
  BY EmptySeq DEF Init
<1> QED BY <1>1 DEF Init, TypeOK, States, NoGoal

\* A request of a client, in whichever thread.
LEMMA SessionTypes ==
  ASSUME TypeOK, NEW s \in Sessions, Check(s) \/ Act(s)
  PROVE  TypeOK'
<1>1. CASE Check(s)
  BY <1>1 DEF Check, CheckNavigation, CheckCancel, CheckStart, CheckTakeover,
     CheckSwitch, Move, navVars, missionVars, TypeOK
<1>2. CASE SendNavigation(s) \/ RecordGoalSent(s) \/ RecordCancel(s)
  BY <1>2 DEF SendNavigation, RecordGoalSent, RecordCancel, First, Move, missionVars,
     TypeOK
<1>3. CASE SendPatrol(s) \/ TakeOver(s) \/ SwitchProfile(s)
  BY <1>3 DEF SendPatrol, TakeOver, SwitchProfile, First, Move, navVars, missionVars,
     TypeOK
<1> QED BY <1>1, <1>2, <1>3 DEF Act

LEMMA NavEventTypes ==
  ASSUME TypeOK, NEW g \in NavGoals, NavEvent(g)
  PROVE  TypeOK'
<1>1. CASE on_nav_goal_response(g) \/ on_nav_result(g)
  BY <1>1 DEF on_nav_goal_response, on_nav_result, Answered, missionVars, TypeOK
<1>2. CASE Nav2Decides(g)
  BY <1>2 DEF Nav2Decides, Driving, missionVars, TypeOK
<1>3. CASE Nav2Ends(g)
  BY <1>3 DEF Nav2Ends, missionVars, TypeOK
<1> QED BY <1>1, <1>2, <1>3 DEF NavEvent

LEMMA PublishTypes ==
  ASSUME TypeOK, NEW m \in Missions, NEW state \in Patrolling \cup {"ended"},
         Publish(m, state)
  PROVE  TypeOK'
<1> DEFINE word == IF state = "ended" THEN "ENDED" ELSE state
<1>1. word \in States
  BY DEF States
<1>2. news' \in Seq(States)
  BY <1>1, AppendProperties DEF Publish, TypeOK, States
<1>3. mission' \in [Missions -> Patrolling \cup {"unused", "sent", "refused", "ended"}]
  BY DEF Publish, TypeOK
<1> QED BY <1>2, <1>3 DEF Publish, TypeOK, navVars, States

LEMMA MissionEventTypes ==
  ASSUME TypeOK, NEW m \in Missions, MissionEvent(m)
  PROVE  TypeOK'
<1>1. CASE on_mission_goal_response(m) \/ on_mission_result(m)
  BY <1>1 DEF on_mission_goal_response, on_mission_result, PatrolAnswered, navVars, TypeOK
<1>2. CASE ManagerDecides(m)
  <2>1. CASE \E other \in Missions : OnPatrol(other)
    BY <1>2, <2>1 DEF ManagerDecides, navVars, TypeOK
  <2>2. CASE ~ \E other \in Missions : OnPatrol(other)
    BY <1>2, <2>2, PublishTypes DEF ManagerDecides, Patrolling
  <2> QED BY <2>1, <2>2
<1>3. CASE ManagerMoves(m)
  BY <1>3, MovesSeen, PublishTypes
<1> QED BY <1>1, <1>2, <1>3 DEF MissionEvent

LEMMA StatusTypes ==
  ASSUME TypeOK, on_mission_status
  PROVE  TypeOK' /\ Head(news) \in States
<1>1. news \in Seq(States) /\ news # <<>>
  BY DEF TypeOK, States, on_mission_status
<1>2. Head(news) \in States /\ Tail(news) \in Seq(States)
  BY <1>1, HeadTailProperties
<1> QED BY <1>2 DEF on_mission_status, TypeOK, navVars, States

LEMMA TypeStep == TypeOK /\ [Next]_vars => TypeOK'
<1> SUFFICES ASSUME TypeOK, [Next]_vars PROVE TypeOK'
  OBVIOUS
<1>1. CASE UNCHANGED vars
  BY <1>1 DEF vars, TypeOK
<1> QED BY <1>1, SessionTypes, NavEventTypes, MissionEventTypes, StatusTypes DEF Next

\* Every variable keeps to its range, for any clients, goals, patrols, consoles
\* and caps (the two dictionaries of _state and the two goal handles).
THEOREM BridgeTypes == Spec => []TypeOK
BY InitTypeOK, TypeStep, PTL DEF Spec

-----------------------------------------------------------------------------
(* What has been told agrees with what has happened.                       *)

\* What concerns patrols leaves the goals alone, and the other way round.
LEMMA PatrolFrame ==
  ASSUME NEW m \in Missions, MissionEvent(m)
  PROVE  UNCHANGED <<at, navVars>>
<1>1. CASE on_mission_goal_response(m) \/ on_mission_result(m)
  BY <1>1 DEF on_mission_goal_response, on_mission_result, PatrolAnswered
<1>2. CASE ManagerDecides(m) \/ ManagerMoves(m)
  BY <1>2, MovesSeen DEF ManagerDecides, Publish
<1> QED BY <1>1, <1>2 DEF MissionEvent

LEMMA NavFrame ==
  ASSUME NEW g \in NavGoals, NavEvent(g)
  PROVE  UNCHANGED <<at, missionVars>>
BY DEF NavEvent, on_nav_goal_response, on_nav_result, Answered, Nav2Decides, Nav2Ends

\* A request only sends, or changes what the bridge believes.
LEMMA SessionFrame ==
  ASSUME TypeOK, NEW s \in Sessions, Check(s) \/ Act(s)
  PROVE  /\ UNCHANGED <<navHandle, navTold, overtaken, missionHandle, missionTold,
                         outrun, news>>
         /\ nav' = nav \/ \E g \in First(nav, NavGoals) :
                            /\ nav' = [nav EXCEPT ![g] = "sent"]
                            /\ at[s] = "navigating" /\ at'[s] = "sent"
         /\ mission' = mission
            \/ \E m \in First(mission, Missions \ Consoles) :
                 /\ mission' = [mission EXCEPT ![m] = "sent"]
                 /\ at[s] = "starting" /\ missionState' = "goal_requested"
         /\ mission' = mission => missionState' = missionState
         /\ at' = [at EXCEPT ![s] = at'[s]]
<1>1. at \in [Sessions -> {"ready", "navigating", "sent", "cancelling",
                          "starting", "taking", "switching"}]
  BY DEF TypeOK
<1>2. CASE Check(s)
  BY <1>1, <1>2 DEF Check, CheckNavigation, CheckCancel, CheckStart, CheckTakeover,
     CheckSwitch, Move, navVars, missionVars
<1>3. CASE SendNavigation(s) \/ RecordGoalSent(s) \/ RecordCancel(s)
  BY <1>1, <1>3 DEF SendNavigation, RecordGoalSent, RecordCancel, Move, missionVars
<1>4. CASE TakeOver(s) \/ SwitchProfile(s)
  BY <1>1, <1>4 DEF TakeOver, SwitchProfile, Move, navVars, missionVars
<1>5. CASE SendPatrol(s)
  <2>1. PICK m \in First(mission, Missions \ Consoles) :
          mission' = [mission EXCEPT ![m] = "sent"]
    BY <1>5 DEF SendPatrol
  <2>2. mission' # mission
    BY <2>1 DEF First, TypeOK
  <2> QED BY <1>1, <1>5, <2>1, <2>2 DEF SendPatrol, Move, navVars
<1> QED BY <1>2, <1>3, <1>4, <1>5 DEF Act

\* What may become of a patrol and of the news at one of the manager's steps.
LEMMA ManagerFrame ==
  ASSUME TypeOK, NEW m \in Missions, ManagerDecides(m) \/ ManagerMoves(m)
  PROVE  /\ UNCHANGED <<missionState, missionHandle, missionTold, outrun>>
         /\ \E state \in Patrolling \cup {"refused", "ended"} :
              /\ mission' = [mission EXCEPT ![m] = state]
              /\ \/ ManagerDecides(m) /\ state = "refused" /\ news' = news
                 \/ ManagerDecides(m) /\ state = "NAVIGATING"
                      /\ news' = Append(news, state)
                 \/ ManagerMoves(m) /\ state # "refused"
                      /\ \E word \in States : news' = Append(news, word)
<1>1. CASE ManagerDecides(m)
  BY <1>1 DEF ManagerDecides, Publish, Patrolling
<1>2. CASE ManagerMoves(m)
  BY <1>2, MovesSeen DEF Publish, Patrolling, States
<1> QED BY <1>1, <1>2

LEMMA ToldStep == TypeOK /\ Told /\ [Next]_vars => Told'
<1> SUFFICES ASSUME TypeOK, Told, [Next]_vars PROVE Told'
  OBVIOUS
<1>1. CASE UNCHANGED vars
  BY <1>1 DEF vars, Told
<1>2. ASSUME NEW s \in Sessions, Check(s) \/ Act(s) PROVE Told'
  <2>1. UNCHANGED <<navTold, missionTold>>
    BY <1>2, SessionFrame
  <2>2. /\ nav' = nav \/ \E g \in NavGoals : nav[g] = "unused"
                            /\ nav' = [nav EXCEPT ![g] = "sent"]
        /\ mission' = mission \/ \E m \in Missions : mission[m] = "unused"
                            /\ mission' = [mission EXCEPT ![m] = "sent"]
    BY <1>2, SessionFrame DEF First
  <2> QED BY <2>1, <2>2 DEF Told, TypeOK
<1>3. ASSUME NEW g \in NavGoals, NavEvent(g) PROVE Told'
  <2>1. UNCHANGED missionVars
    BY <1>3, NavFrame
  <2>2. CASE on_nav_goal_response(g) \/ on_nav_result(g)
    BY <2>1, <2>2 DEF on_nav_goal_response, on_nav_result, Answered, missionVars, Told,
       TypeOK
  <2>3. CASE Nav2Decides(g)
    BY <2>1, <2>3 DEF Nav2Decides, Driving, missionVars, Told, TypeOK
  <2>4. CASE Nav2Ends(g)
    BY <2>1, <2>4 DEF Nav2Ends, Driving, missionVars, Told, TypeOK
  <2> QED BY <1>3, <2>2, <2>3, <2>4 DEF NavEvent
<1>4. ASSUME NEW m \in Missions, MissionEvent(m) PROVE Told'
  <2>1. UNCHANGED navVars
    BY <1>4, PatrolFrame
  <2>2. CASE on_mission_goal_response(m) \/ on_mission_result(m)
    BY <2>1, <2>2 DEF on_mission_goal_response, on_mission_result, PatrolAnswered,
       navVars, Told, TypeOK
  <2>3. CASE ManagerDecides(m) \/ ManagerMoves(m)
    <3>1. mission[m] \notin {"refused", "ended"}
      BY <2>3, MovesSeen DEF ManagerDecides, First, Patrolling
    <3>2. missionTold' = missionTold
      BY <2>3, ManagerFrame
    <3>3. PICK state \in Patrolling \cup {"refused", "ended"} :
            mission' = [mission EXCEPT ![m] = state]
      BY <2>3, ManagerFrame
    <3>4. state \notin {"unused", "sent"}
      BY DEF Patrolling
    <3> QED BY <2>1, <3>1, <3>2, <3>3, <3>4 DEF navVars, Told, TypeOK
  <2> QED BY <1>4, <2>2, <2>3 DEF MissionEvent
<1>5. CASE on_mission_status
  BY <1>5 DEF on_mission_status, navVars, Told
<1> QED BY <1>1, <1>2, <1>3, <1>4, <1>5 DEF Next

-----------------------------------------------------------------------------
(* Goals, of any clients.                                                  *)

LEMMA SessionGoals ==
  ASSUME GoalInv, NEW s \in Sessions, Check(s) \/ Act(s)
  PROVE  InOrder' /\ GoalIsKnown'
<1>1. TypeOK /\ UNCHANGED <<navHandle, navTold, overtaken>>
  BY SessionFrame DEF GoalInv
<1>2. CASE nav' = nav
  BY <1>1, <1>2 DEF GoalInv, InOrder, GoalIsKnown, KnownDrive, Driving
<1>3. CASE nav' # nav
  <2>1. PICK g \in First(nav, NavGoals) : nav' = [nav EXCEPT ![g] = "sent"]
    BY <1>1, <1>3, SessionFrame
  <2>2. /\ g \in NavGoals /\ nav[g] = "unused"
        /\ \A h \in NavGoals : h < g => nav[h] # "unused"
        /\ \A h \in NavGoals : nav'[h] = IF h = g THEN "sent" ELSE nav[h]
    BY <1>1, <2>1 DEF First, TypeOK
  <2>3. \A h, k \in NavGoals : h < k => h # k
    BY GoalsAssumption
  <2>4. InOrder'
    BY <1>1, <2>2, <2>3 DEF GoalInv, InOrder, Driving
  <2>5. GoalIsKnown'
    BY <1>1, <2>2 DEF GoalInv, GoalIsKnown, KnownDrive, Driving
  <2> QED BY <2>4, <2>5
<1> QED BY <1>2, <1>3

\* Answers come in order, so that none of a goal before the one under way is
\* still to come; a result clears the handle, and marks the goal under way.
LEMMA CallbackGoals ==
  ASSUME GoalInv, NEW g \in NavGoals, on_nav_goal_response(g) \/ on_nav_result(g)
  PROVE  InOrder' /\ GoalIsKnown'
<1>1. /\ TypeOK /\ nav' = nav /\ NavGoals \subseteq Nat
  BY GoalsAssumption DEF GoalInv, on_nav_goal_response, on_nav_result, Answered
<1>2. CASE on_nav_goal_response(g)
  <2>1. /\ overtaken' = overtaken /\ navTold[g] = "none"
        /\ nav[g] \notin {"unused", "sent"}
        /\ \A h \in NavGoals : h < g => navTold[h] # "none"
        /\ \A h \in NavGoals : navTold'[h] = IF h = g THEN "response" ELSE navTold[h]
        /\ navHandle' = IF nav[g] = "refused" THEN navHandle ELSE g
    BY <1>1, <1>2 DEF on_nav_goal_response, Answered, TypeOK
  <2>2. InOrder'
    BY <1>1, <2>1 DEF GoalInv, InOrder, Driving
  <2>3. ASSUME NEW h \in NavGoals, KnownDrive(h)', h # g
        PROVE  nav[g] = "refused" /\ KnownDrive(h)
    <3>1. nav[h] = "running" /\ navTold[h] = "response"
      BY <1>1, <2>1, <2>3 DEF KnownDrive, Driving
    <3>2. h < g
      BY <1>1, <2>1, <3>1 DEF GoalInv, InOrder
    <3>3. nav[g] \notin {"running", "ended"}
      BY <3>1, <3>2 DEF GoalInv, InOrder, Driving
    <3>4. nav[g] = "refused"
      BY <1>1, <2>1, <3>3 DEF TypeOK
    <3> QED BY <3>1, <3>4 DEF KnownDrive, Driving
  <2>4. KnownDrive(g)' => navHandle' = g
    BY <1>1, <2>1 DEF KnownDrive, Driving
  <2>5. GoalIsKnown'
    BY <2>1, <2>3, <2>4 DEF GoalInv, GoalIsKnown
  <2> QED BY <2>2, <2>5
<1>3. CASE on_nav_result(g)
  <2>1. /\ nav[g] = "ended" /\ navTold[g] = "response" /\ navHandle' = NoGoal
        /\ overtaken' = overtaken \cup {h \in NavGoals : KnownDrive(h)}
        /\ \A h \in NavGoals : navTold'[h] = IF h = g THEN "result" ELSE navTold[h]
    BY <1>1, <1>3 DEF on_nav_result, TypeOK
  <2>2. InOrder'
    BY <1>1, <2>1 DEF GoalInv, InOrder, Driving
  <2>3. \A h \in NavGoals : KnownDrive(h)' => KnownDrive(h)
    BY <1>1, <2>1 DEF KnownDrive, Driving
  <2>4. GoalIsKnown'
    BY <2>1, <2>3 DEF GoalIsKnown
  <2> QED BY <2>2, <2>4
<1> QED BY <1>2, <1>3

LEMMA Nav2Goals ==
  ASSUME GoalInv, NEW g \in NavGoals, Nav2Decides(g) \/ Nav2Ends(g)
  PROVE  InOrder' /\ GoalIsKnown'
<1>1. /\ TypeOK /\ UNCHANGED <<navHandle, navTold, overtaken>>
      /\ NavGoals \subseteq Nat
  BY GoalsAssumption DEF GoalInv, Nav2Decides, Nav2Ends
<1>2. CASE Nav2Decides(g)
  <2>1. /\ nav[g] = "sent" /\ navTold[g] = "none"
        /\ \A h \in NavGoals : h < g => nav[h] # "sent"
    BY <1>2 DEF Nav2Decides, GoalInv, Told
  <2>2. \A h \in NavGoals : h # g =>
          nav'[h] = nav[h] \/ (nav[h] = "running" /\ nav'[h] = "ended")
    BY <1>1, <1>2 DEF Nav2Decides, Driving, TypeOK
  <2>3. /\ nav'[g] \in {"running", "refused"}
        /\ nav'[g] = "running" => \A h \in NavGoals : h # g => nav'[h] # "running"
    BY <1>1, <1>2 DEF Nav2Decides, Driving, TypeOK
  <2>4. ASSUME NEW h \in NavGoals, NEW k \in NavGoals, h < k
        PROVE  /\ nav'[k] # "unused" => nav'[h] # "unused"
               /\ nav'[k] \notin {"unused", "sent"} => nav'[h] \notin {"unused", "sent"}
               /\ navTold'[k] # "none" => navTold'[h] # "none"
               /\ nav'[h] = "running" => nav'[k] \notin {"running", "ended"}
    <3>1. /\ nav[k] # "unused" => nav[h] # "unused"
          /\ nav[k] \notin {"unused", "sent"} => nav[h] \notin {"unused", "sent"}
          /\ navTold[k] # "none" => navTold[h] # "none"
          /\ nav[h] = "running" => nav[k] \notin {"running", "ended"}
      BY <2>4 DEF GoalInv, InOrder, Driving
    <3>2. h # k
      BY <1>1, <2>4
    <3>3. CASE k = g
      BY <1>1, <2>1, <2>2, <2>3, <2>4, <3>1, <3>2, <3>3
    <3>4. CASE h = g
      BY <1>1, <2>1, <2>2, <2>3, <2>4, <3>1, <3>2, <3>4
    <3>5. CASE h # g /\ k # g
      BY <1>1, <2>2, <3>1, <3>5
    <3> QED BY <3>3, <3>4, <3>5
  <2>5. InOrder'
    BY <2>4 DEF InOrder, Driving
  <2>6. \A h \in NavGoals : KnownDrive(h)' => KnownDrive(h)
    BY <1>1, <2>1, <2>2 DEF KnownDrive, Driving
  <2>7. GoalIsKnown'
    BY <1>1, <2>6 DEF GoalInv, GoalIsKnown
  <2> QED BY <2>5, <2>7
<1>3. CASE Nav2Ends(g)
  <2>1. /\ nav[g] = "running"
        /\ \A h \in NavGoals : nav'[h] = IF h = g THEN "ended" ELSE nav[h]
    BY <1>1, <1>3 DEF Nav2Ends, Driving, TypeOK
  <2>2. \A h \in NavGoals : h < g => nav[h] # "running"
    BY <2>1 DEF GoalInv, InOrder, Driving
  <2>3. InOrder'
    BY <1>1, <2>1, <2>2 DEF GoalInv, InOrder, Driving
  <2>4. \A h \in NavGoals : KnownDrive(h)' => KnownDrive(h)
    BY <1>1, <2>1 DEF KnownDrive, Driving
  <2>5. GoalIsKnown'
    BY <1>1, <2>4 DEF GoalInv, GoalIsKnown
  <2> QED BY <2>3, <2>5
<1> QED BY <1>2, <1>3

LEMMA GoalStep == GoalInv /\ [Next]_vars => GoalInv'
<1> SUFFICES ASSUME GoalInv, [Next]_vars PROVE GoalInv'
  OBVIOUS
<1>1. TypeOK' /\ Told'
  BY TypeStep, ToldStep DEF GoalInv
<1>2. ASSUME UNCHANGED <<navHandle, nav, navTold, overtaken>>
      PROVE  InOrder' /\ GoalIsKnown'
  BY <1>2 DEF GoalInv, InOrder, GoalIsKnown, KnownDrive, Driving
<1>3. CASE UNCHANGED vars
  BY <1>1, <1>2, <1>3 DEF vars, GoalInv
<1>4. ASSUME NEW s \in Sessions, Check(s) \/ Act(s) PROVE InOrder' /\ GoalIsKnown'
  BY <1>4, SessionGoals
<1>5. ASSUME NEW g \in NavGoals, NavEvent(g) PROVE InOrder' /\ GoalIsKnown'
  BY <1>5, CallbackGoals, Nav2Goals DEF NavEvent
<1>6. ASSUME NEW m \in Missions, MissionEvent(m) PROVE InOrder' /\ GoalIsKnown'
  <2>1. UNCHANGED navVars
    BY <1>6, PatrolFrame
  <2> QED BY <1>2, <2>1 DEF navVars
<1>7. CASE on_mission_status
  BY <1>1, <1>2, <1>7 DEF on_mission_status, navVars, GoalInv
<1> QED BY <1>1, <1>3, <1>4, <1>5, <1>6, <1>7 DEF Next, GoalInv

\* For any clients: goals are sent, decided and answered in their order, and the
\* handle kept is that of the goal under way, unless the result of an earlier
\* goal was handled after its answer (_on_nav_goal_response, _on_nav_result).
THEOREM GoalInvariant == Spec => []GoalInv
<1>1. Init => GoalInv
  BY InitTypeOK DEF Init, GoalInv, Told, InOrder, GoalIsKnown, KnownDrive, Driving
<1>2. GoalInv /\ [Next]_vars => GoalInv'
  BY GoalStep
<1> QED BY <1>1, <1>2, PTL DEF Spec

\* nav_cancel reaches the goal the car drives to, whoever sent or replaced it,
\* unless an earlier goal's result has cleared its handle.
THEOREM CancelReachesGoal == Spec => []GoalIsKnown
<1>1. GoalInv => GoalIsKnown
  BY DEF GoalInv
<1> QED BY <1>1, GoalInvariant, PTL

-----------------------------------------------------------------------------
(* Patrols, of any clients and consoles.                                   *)

LEMMA SessionPatrols ==
  ASSUME ManagerInv, NEW s \in Sessions, Check(s) \/ Act(s)
  PROVE  PatrolsInTurn' /\ PatrolIsKnown'
<1>1. TypeOK /\ UNCHANGED <<missionHandle, missionTold, outrun, news>>
  BY SessionFrame DEF ManagerInv
<1>2. CASE mission' = mission
  <2>1. missionState' = missionState
    BY <1>1, <1>2, SessionFrame
  <2> QED BY <1>1, <1>2, <2>1 DEF ManagerInv, PatrolsInTurn, PatrolIsKnown, KnownPatrol,
             OnPatrol
<1>3. CASE mission' # mission
  <2>1. PICK m \in First(mission, Missions \ Consoles) :
          mission' = [mission EXCEPT ![m] = "sent"] /\ missionState' = "goal_requested"
    BY <1>1, <1>3, SessionFrame
  <2>2. /\ m \in Missions /\ mission[m] = "unused"
        /\ \A n \in Missions : mission'[n] = IF n = m THEN "sent" ELSE mission[n]
    BY <1>1, <2>1 DEF First, TypeOK
  <2>3. \A n \in Missions : OnPatrol(n)' <=> OnPatrol(n)
    BY <2>2 DEF OnPatrol, Patrolling
  <2>4. PatrolsInTurn'
    BY <1>1, <2>1, <2>2, <2>3 DEF ManagerInv, PatrolsInTurn, OnPatrol
  <2>5. PatrolIsKnown'
    BY <1>1, <2>3 DEF ManagerInv, PatrolIsKnown, KnownPatrol
  <2> QED BY <2>4, <2>5
<1> QED BY <1>2, <1>3

LEMMA CallbackPatrols ==
  ASSUME ManagerInv, NEW m \in Missions,
         on_mission_goal_response(m) \/ on_mission_result(m)
  PROVE  PatrolsInTurn' /\ PatrolIsKnown'
<1>1. /\ TypeOK /\ UNCHANGED <<mission, news>>
      /\ missionState' \in {"rejected", "accepted", "ENDED"}
      /\ m \notin Consoles
      /\ \A n \in Missions : n # m => missionTold'[n] = missionTold[n]
      /\ missionTold'[m] # "none"
  BY DEF ManagerInv, PatrolsInTurn, on_mission_goal_response, on_mission_result,
     PatrolAnswered, TypeOK
<1>2. \A n \in Missions : OnPatrol(n)' <=> OnPatrol(n)
  BY <1>1 DEF OnPatrol
<1>3. PatrolsInTurn'
  <2>1. \A n \in Consoles : missionTold'[n] = "none"
    BY <1>1, GoalsAssumption DEF ManagerInv, PatrolsInTurn
  <2>2. \A n \in Missions \ Consoles : mission'[n] = "ended" => missionTold'[n] # "none"
    BY <1>1 DEF ManagerInv, PatrolsInTurn
  <2>3. CASE news = <<>>
    BY <1>1, <1>2, <2>1, <2>2, <2>3 DEF ManagerInv, PatrolsInTurn
  <2>4. CASE news # <<>>
    BY <1>1, <1>2, <2>1, <2>2, <2>4 DEF ManagerInv, PatrolsInTurn
  <2> QED BY <2>3, <2>4
<1>4. CASE on_mission_goal_response(m)
  <2>1. /\ outrun' = outrun /\ missionTold[m] = "none"
        /\ mission[m] \notin {"unused", "sent"}
        /\ missionHandle' = IF mission[m] = "refused" THEN missionHandle ELSE m
    BY <1>4 DEF on_mission_goal_response, PatrolAnswered
  <2>2. ASSUME NEW n \in Missions, KnownPatrol(n)', n # m
        PROVE  KnownPatrol(n) /\ mission[m] = "refused"
    <3>1. KnownPatrol(n) /\ OnPatrol(n)
      BY <1>1, <1>2, <2>2 DEF KnownPatrol
    <3>2. ~OnPatrol(m)
      BY <2>2, <3>1 DEF ManagerInv, PatrolsInTurn
    <3>3. mission[m] # "ended"
      BY <1>1, <2>1 DEF ManagerInv, PatrolsInTurn
    <3> QED BY <1>1, <2>1, <3>1, <3>2, <3>3 DEF TypeOK, OnPatrol
  <2>3. KnownPatrol(m)' => missionHandle' = m
    BY <1>1, <2>1 DEF KnownPatrol, OnPatrol, Patrolling
  <2> QED BY <1>3, <2>1, <2>2, <2>3 DEF ManagerInv, PatrolIsKnown
<1>5. CASE on_mission_result(m)
  <2>1. /\ missionHandle' = NoGoal
        /\ outrun' = outrun \cup {n \in Missions : KnownPatrol(n)}
        /\ mission[m] = "ended"
    BY <1>5 DEF on_mission_result
  <2>2. \A n \in Missions : KnownPatrol(n)' => KnownPatrol(n)
    BY <1>1, <1>2, <2>1 DEF KnownPatrol, OnPatrol, Patrolling
  <2> QED BY <1>3, <2>1, <2>2 DEF PatrolIsKnown
<1> QED BY <1>4, <1>5

\* A patrol starts when no other drives, and ends when its answer is in; what it
\* becomes is the last word said.
LEMMA ManagerPatrols ==
  ASSUME ManagerInv, NEW m \in Missions, ManagerDecides(m) \/ ManagerMoves(m)
  PROVE  PatrolsInTurn' /\ PatrolIsKnown'
<1>1. TypeOK /\ UNCHANGED <<missionState, missionHandle, missionTold, outrun>>
  BY ManagerFrame DEF ManagerInv
<1>2. CASE mission' = [mission EXCEPT ![m] = "refused"] /\ news' = news
             /\ mission[m] \in {"unused", "sent"}
  <2>1. \A n \in Missions : mission'[n] = IF n = m THEN "refused" ELSE mission[n]
    BY <1>1, <1>2 DEF TypeOK
  <2>2. \A n \in Missions : OnPatrol(n)' <=> OnPatrol(n)
    BY <1>2, <2>1 DEF OnPatrol, Patrolling
  <2> QED BY <1>1, <1>2, <2>1, <2>2 DEF ManagerInv, PatrolsInTurn, PatrolIsKnown,
             KnownPatrol, OnPatrol
<1>3. ASSUME NEW state \in Patrolling \cup {"ended"}, Publish(m, state),
             \A n \in Missions : OnPatrol(n) => n = m,
             state = "ended" => m \in Consoles \/ missionTold[m] # "none",
             KnownPatrol(m) \/ missionTold[m] # "response"
      PROVE  PatrolsInTurn' /\ PatrolIsKnown'
  <2> DEFINE word == IF state = "ended" THEN "ENDED" ELSE state
  <2>1. \A n \in Missions : mission'[n] = IF n = m THEN state ELSE mission[n]
    BY <1>1, <1>3 DEF Publish, TypeOK
  <2>2. /\ news' = Append(news, word) /\ news \in Seq(States) /\ word \in States
    BY <1>1, <1>3 DEF Publish, TypeOK, States, Patrolling
  <2>3. news' # <<>> /\ news'[Len(news')] = word
    BY <2>2, AppendProperties
  <2>4. \A n \in Missions : OnPatrol(n)' => n = m
    BY <1>3, <2>1 DEF OnPatrol
  <2>5. word = "PAUSED" => state = "PAUSED"
    OBVIOUS
  <2>6. \A n \in Missions \ Consoles : mission'[n] = "ended" => missionTold'[n] # "none"
    BY <1>1, <1>3, <2>1 DEF ManagerInv, PatrolsInTurn
  <2>7. \A n \in Consoles : missionTold'[n] = "none"
    BY <1>1 DEF ManagerInv, PatrolsInTurn
  <2>8. PatrolsInTurn'
    BY <2>1, <2>3, <2>4, <2>5, <2>6, <2>7 DEF PatrolsInTurn
  <2>9. \A n \in Missions : KnownPatrol(n)' => KnownPatrol(n)
    BY <1>1, <1>3, <2>4 DEF KnownPatrol
  <2> QED BY <1>1, <2>8, <2>9 DEF ManagerInv, PatrolIsKnown
<1>4. CASE ManagerDecides(m)
  <2>1. mission[m] \in {"unused", "sent"}
    BY <1>4 DEF ManagerDecides, First
  <2>2. missionTold[m] # "response"
    BY <2>1 DEF ManagerInv, Told
  <2>3. CASE \E other \in Missions : OnPatrol(other)
    BY <1>2, <1>4, <2>1, <2>3 DEF ManagerDecides
  <2>4. CASE ~ \E other \in Missions : OnPatrol(other)
    BY <1>3, <1>4, <2>2, <2>4 DEF ManagerDecides, Patrolling
  <2> QED BY <2>3, <2>4
<1>5. CASE ManagerMoves(m)
  <2>1. OnPatrol(m) /\ \A x \in Missions \ Consoles : mission[x] # "unused" => missionTold[x] # "none"
    BY <1>5, MovesSeen DEF OnPatrol
  <2>2. \A n \in Missions : OnPatrol(n) => n = m
    BY <2>1 DEF ManagerInv, PatrolsInTurn
  <2>3. m \in Consoles \/ missionTold[m] # "none"
    BY <2>1 DEF OnPatrol, Patrolling
  <2>4. KnownPatrol(m) \/ missionTold[m] # "response"
    BY <2>1 DEF KnownPatrol
  <2>5. \E state \in Patrolling \cup {"ended"} : Publish(m, state)
    BY <1>5, MovesSeen
  <2> QED BY <1>3, <2>2, <2>3, <2>4, <2>5
<1> QED BY <1>4, <1>5

LEMMA StatusPatrols ==
  ASSUME ManagerInv, on_mission_status
  PROVE  PatrolsInTurn' /\ PatrolIsKnown'
<1>1. /\ UNCHANGED <<missionHandle, mission, missionTold, outrun>> /\ news # <<>>
      /\ missionState' = Head(news) /\ news' = Tail(news) /\ news \in Seq(States)
  BY DEF on_mission_status, ManagerInv, TypeOK, States
<1>2. /\ Head(news) = news[1] /\ Len(news) \in Nat \ {0}
      /\ Tail(news) \in Seq(States) /\ Len(Tail(news)) = Len(news) - 1
      /\ \A i \in 1..Len(Tail(news)) : Tail(news)[i] = news[i + 1]
  BY <1>1, HeadTailProperties
<1>3. CASE Tail(news) = <<>>
  <2>1. Len(news) = 1
    <3>1. Len(<<>>) = 0
      OBVIOUS
    <3>2. Len(Tail(news)) = 0
      BY <1>3, <3>1, Zenon
    <3>3. Len(news) \in Nat /\ Len(Tail(news)) = Len(news) - 1
      BY <1>2
    <3> QED BY <3>2, <3>3
  <2> QED BY <1>1, <1>2, <1>3, <2>1 DEF ManagerInv, PatrolsInTurn, PatrolIsKnown,
             KnownPatrol, OnPatrol
<1>4. CASE Tail(news) # <<>>
  <2>1. Len(Tail(news)) \in 1..Len(Tail(news))
    BY <1>2, <1>4, EmptySeq
  <2>2. Tail(news)[Len(Tail(news))] = news[Len(news)]
    BY <1>2, <2>1
  <2> QED BY <1>1, <1>4, <2>2 DEF ManagerInv, PatrolsInTurn, PatrolIsKnown,
             KnownPatrol, OnPatrol
<1> QED BY <1>3, <1>4

LEMMA ManagerStep == ManagerInv /\ [Next]_vars => ManagerInv'
<1> SUFFICES ASSUME ManagerInv, [Next]_vars PROVE ManagerInv'
  OBVIOUS
<1>1. TypeOK' /\ Told'
  BY TypeStep, ToldStep DEF ManagerInv
<1>2. ASSUME UNCHANGED missionVars PROVE PatrolsInTurn' /\ PatrolIsKnown'
  BY <1>2 DEF missionVars, ManagerInv, PatrolsInTurn, PatrolIsKnown, KnownPatrol, OnPatrol
<1>3. CASE UNCHANGED vars
  <2>1. UNCHANGED missionVars
    BY <1>3 DEF vars, missionVars
  <2> QED BY <1>1, <1>2, <2>1 DEF ManagerInv
<1>4. ASSUME NEW s \in Sessions, Check(s) \/ Act(s)
      PROVE  PatrolsInTurn' /\ PatrolIsKnown'
  BY <1>4, SessionPatrols
<1>5. ASSUME NEW g \in NavGoals, NavEvent(g) PROVE PatrolsInTurn' /\ PatrolIsKnown'
  BY <1>2, <1>5, NavFrame
<1>6. ASSUME NEW m \in Missions, MissionEvent(m)
      PROVE  PatrolsInTurn' /\ PatrolIsKnown'
  BY <1>6, CallbackPatrols, ManagerPatrols DEF MissionEvent
<1>7. CASE on_mission_status
  BY <1>1, <1>7, StatusPatrols DEF ManagerInv
<1> QED BY <1>1, <1>3, <1>4, <1>5, <1>6, <1>7 DEF Next, ManagerInv

\* For any clients and consoles: one patrol drives at a time, its handle is the
\* one kept unless the result of an earlier patrol came after its answer, and
\* PAUSED is never the last word on a patrol that moves.
THEOREM ManagerInvariant == Spec => []ManagerInv
<1>1. Init => ManagerInv
  BY InitTypeOK, GoalsAssumption DEF Init, ManagerInv, Told, PatrolsInTurn, PatrolIsKnown, KnownPatrol,
     OnPatrol, Patrolling
<1>2. ManagerInv /\ [Next]_vars => ManagerInv'
  BY ManagerStep
<1> QED BY <1>1, <1>2, PTL DEF Spec

\* No refusal and no console's patrol takes the place of the patrol under way in
\* _mission_goal_handle.
THEOREM PatrolStaysKnown == Spec => []PatrolIsKnown
<1>1. ManagerInv => PatrolIsKnown
  BY DEF ManagerInv
<1> QED BY <1>1, ManagerInvariant, PTL

-----------------------------------------------------------------------------
(* What the checks see.                                                    *)

\* For any clients and consoles: whatever another thread, a refusal or the news
\* have written, no request passes its check against a goal or patrol known to
\* be under way, except one whose handle an earlier result has cleared.
THEOREM ChecksHold == Spec => ChecksSeeMotion
<1> DEFINE Sees(s) ==
      /\ CheckNavigation(s) \/ CheckStart(s) \/ CheckSwitch(s) =>
           \A m \in Missions : KnownPatrol(m) => m \in outrun
      /\ CheckStart(s) \/ CheckTakeover(s) \/ CheckSwitch(s) =>
           \A g \in NavGoals : KnownDrive(g) => g \in overtaken
      /\ CheckTakeover(s) /\ news = <<>> =>
           \A m \in Missions : KnownPatrol(m) =>
             mission[m] = "PAUSED" \/ m \in outrun
<1>0. (\A g \in NavGoals : g # NoGoal) /\ \A m \in Missions : m # NoGoal
  BY GoalsAssumption DEF NoGoal
<1>1. ASSUME GoalInv, ManagerInv, NEW s \in Sessions PROVE Sees(s)
  <2>1. ASSUME ~mission_is_active, NEW m \in Missions, KnownPatrol(m)
        PROVE  m \in outrun
    BY <1>0, <1>1, <2>1 DEF ManagerInv, PatrolIsKnown, mission_is_active
  <2>2. ASSUME ~navigation_is_active, NEW g \in NavGoals, KnownDrive(g)
        PROVE  g \in overtaken
    BY <1>0, <1>1, <2>2 DEF GoalInv, GoalIsKnown, navigation_is_active
  <2>3. CheckNavigation(s) \/ CheckStart(s) \/ CheckSwitch(s) => ~mission_is_active
    BY DEF CheckNavigation, CheckStart, CheckSwitch
  <2>4. CheckStart(s) \/ CheckTakeover(s) \/ CheckSwitch(s) => ~navigation_is_active
    BY DEF CheckStart, CheckTakeover, CheckSwitch
  <2>5. ASSUME CheckTakeover(s), news = <<>>, NEW m \in Missions, KnownPatrol(m)
        PROVE  mission[m] = "PAUSED" \/ m \in outrun
    <3>1. mission_is_active => missionState = "PAUSED"
      BY <2>5 DEF CheckTakeover
    <3>2. missionState = "PAUSED" => mission[m] = "PAUSED"
      BY <1>1, <2>5 DEF ManagerInv, PatrolsInTurn, KnownPatrol
    <3> QED BY <2>1, <2>5, <3>1, <3>2
  <2> QED BY <2>1, <2>2, <2>3, <2>4, <2>5
<1>2. GoalInv /\ ManagerInv /\ [Next]_vars => [\A s \in Sessions : Sees(s)]_vars
  BY <1>1
<1> QED BY <1>2, GoalInvariant, ManagerInvariant, PTL DEF Spec, ChecksSeeMotion

-----------------------------------------------------------------------------
(* The patrols of one client.                                              *)

OneClient == \A s, t \in Sessions : s = t

\* Where a patrol is open, no request that would send the car elsewhere has
\* passed its check.
LEMMA PatrolSessionStep ==
  ASSUME OneClient, TypeOK, Told, PatrolIsSeen,
         NEW s \in Sessions, Check(s) \/ Act(s)
  PROVE  PatrolIsSeen'
<1>1. /\ UNCHANGED <<missionHandle, missionTold, news>> /\ \A t \in Sessions : t = s
      /\ at' = [at EXCEPT ![s] = at'[s]]
      /\ missionHandle \in Missions \cup {NoGoal}
      /\ \A m \in Missions : m # NoGoal
  BY SessionFrame, GoalsAssumption DEF OneClient, TypeOK, NoGoal
<1>2. CASE Check(s)
  <2>1. mission' = mission /\ missionState' = missionState /\ at[s] = "ready"
    BY <1>2 DEF Check, CheckNavigation, CheckCancel, CheckStart, CheckTakeover,
       CheckSwitch, Move, missionVars
  <2>2. at'[s] \in {"navigating", "starting", "switching"} => ~mission_is_active
    BY <1>2 DEF Check, CheckNavigation, CheckCancel, CheckStart, CheckTakeover,
       CheckSwitch, Move, TypeOK
  <2>3. ASSUME at'[s] \in {"navigating", "starting", "switching"},
               NEW m \in Missions, OpenPatrol(m)
        PROVE  FALSE
    <3>1. missionTold[m] \in {"none", "response"}
      BY <2>3 DEF OpenPatrol, TypeOK
    <3> QED BY <1>1, <2>2, <2>3, <3>1 DEF PatrolIsSeen, mission_is_active
  <2>4. \A m \in Missions : OpenPatrol(m)' <=> OpenPatrol(m)
    BY <1>1, <2>1 DEF OpenPatrol
  <2>5. \A m \in Missions : OpenPatrol(m) =>
          \A t \in Sessions : at'[t] \notin {"navigating", "starting", "switching"}
    BY <1>1, <2>3
  <2> QED BY <1>1, <2>1, <2>4, <2>5 DEF PatrolIsSeen
<1>3. CASE SendPatrol(s)
  <2>1. PICK m \in Missions :
          /\ mission[m] = "unused" /\ mission' = [mission EXCEPT ![m] = "sent"]
          /\ at[s] = "starting" /\ at'[s] = "ready"
          /\ missionState' = "goal_requested"
    BY <1>3 DEF SendPatrol, First, Move, TypeOK
  <2>2. \A n \in Missions : ~OpenPatrol(n)
    BY <2>1 DEF PatrolIsSeen
  <2>3. missionHandle = NoGoal /\ news = <<>>
    BY <1>1, <2>2 DEF PatrolIsSeen
  <2>4. missionTold[m] = "none" /\ mission'[m] = "sent"
    BY <2>1 DEF Told, TypeOK
  <2>5. \A n \in Missions : OpenPatrol(n)' => n = m
    BY <1>1, <2>1, <2>2 DEF OpenPatrol, TypeOK
  <2>6. \A i \in 1..Len(news) : FALSE
    BY <2>3
  <2> QED BY <1>1, <2>1, <2>3, <2>4, <2>5, <2>6 DEF PatrolIsSeen
<1>4. CASE SendNavigation(s) \/ RecordGoalSent(s) \/ RecordCancel(s)
             \/ TakeOver(s) \/ SwitchProfile(s)
  <2>1. /\ mission' = mission /\ missionState' = missionState
        /\ at'[s] \in {"sent", "ready"}
    BY <1>4 DEF SendNavigation, RecordGoalSent, RecordCancel, TakeOver, SwitchProfile,
       Move, missionVars, TypeOK
  <2>2. \A m \in Missions : OpenPatrol(m)' <=> OpenPatrol(m)
    BY <1>1, <2>1 DEF OpenPatrol
  <2> QED BY <1>1, <2>1, <2>2 DEF PatrolIsSeen
<1> QED BY <1>2, <1>3, <1>4 DEF Act

LEMMA PatrolCallbackStep ==
  ASSUME TypeOK, Told, PatrolIsSeen, NEW m \in Missions,
         on_mission_goal_response(m) \/ on_mission_result(m)
  PROVE  PatrolIsSeen'
<1>0. /\ UNCHANGED <<at, mission, news>> /\ OpenPatrol(m) /\ m # NoGoal
      /\ missionHandle \in Missions \cup {NoGoal}
  BY GoalsAssumption DEF on_mission_goal_response, on_mission_result, PatrolAnswered, OpenPatrol,
     NoGoal, TypeOK
<1>1. \A n \in Missions : OpenPatrol(n) => n = m
  BY <1>0 DEF PatrolIsSeen
<1>2. \A s \in Sessions : at[s] \notin {"navigating", "starting", "switching"}
  BY <1>0 DEF PatrolIsSeen
<1>3. CASE on_mission_goal_response(m)
  <2>1. missionTold[m] = "none" /\ missionTold'[m] = "response"
    BY <1>3 DEF on_mission_goal_response, PatrolAnswered, TypeOK
  <2>2. missionHandle = NoGoal
    BY <1>0, <1>1, <2>1 DEF PatrolIsSeen
  <2>3. \A n \in Missions : OpenPatrol(n)' <=> n = m /\ mission[m] # "refused"
    BY <1>0, <1>1, <1>3, <2>1 DEF on_mission_goal_response, PatrolAnswered, OpenPatrol, TypeOK
  <2>4. missionHandle' = IF mission[m] = "refused" THEN NoGoal ELSE m
    BY <1>3, <2>2 DEF on_mission_goal_response, PatrolAnswered
  <2>5. news # <<>> => mission[m] \in Patrolling \cup {"ended"}
    BY <1>1 DEF PatrolIsSeen
  <2>6. "refused" \notin Patrolling \cup {"ended"}
    BY DEF Patrolling
  <2> QED BY <1>0, <1>2, <2>1, <2>3, <2>4, <2>5, <2>6 DEF PatrolIsSeen
<1>4. CASE on_mission_result(m)
  <2>1. missionHandle' = NoGoal /\ news = <<>>
    BY <1>4 DEF on_mission_result
  <2>2. \A n \in Missions : ~OpenPatrol(n)'
    BY <1>0, <1>1, <1>4 DEF on_mission_result, OpenPatrol, TypeOK
  <2> QED BY <1>0, <2>1, <2>2 DEF PatrolIsSeen
<1> QED BY <1>3, <1>4

LEMMA PatrolManagerStep ==
  ASSUME Consoles = {}, TypeOK, Told, PatrolIsSeen, NEW m \in Missions,
         ManagerDecides(m) \/ ManagerMoves(m)
  PROVE  PatrolIsSeen'
<1>1. UNCHANGED <<at, missionState, missionHandle, missionTold>>
  BY ManagerFrame, PatrolFrame DEF MissionEvent
<1>2. /\ ManagerDecides(m) => mission[m] = "sent" /\ missionTold[m] = "none"
      /\ ManagerMoves(m) => missionTold[m] = "response"
      /\ OpenPatrol(m)
  BY MovesSeen DEF ManagerDecides, First, OpenPatrol, Patrolling, Told, TypeOK
<1>3. \A n \in Missions : OpenPatrol(n) => n = m
  BY <1>2 DEF PatrolIsSeen
<1>4. PICK state \in Patrolling \cup {"refused", "ended"} :
        /\ mission' = [mission EXCEPT ![m] = state]
        /\ \/ ManagerDecides(m) /\ state = "refused" /\ news' = news
           \/ ManagerDecides(m) /\ state = "NAVIGATING" /\ news' = Append(news, state)
           \/ ManagerMoves(m) /\ state # "refused"
                /\ \E word \in States : news' = Append(news, word)
  BY ManagerFrame
<1>5. mission'[m] = state /\ \A n \in Missions : n # m => mission'[n] = mission[n]
  BY <1>4 DEF TypeOK
<1>6. OpenPatrol(m)' /\ \A n \in Missions : OpenPatrol(n)' => n = m
  BY <1>1, <1>2, <1>3, <1>4, <1>5 DEF OpenPatrol, Patrolling
<1>7. CASE ManagerDecides(m)
  <2>1. news = <<>>
    BY <1>2, <1>3, <1>7 DEF PatrolIsSeen, Patrolling
  <2>2. \/ state = "refused" /\ news' = news
        \/ state = "NAVIGATING" /\ news' = Append(news, "NAVIGATING")
    BY <1>2, <1>4, <1>7
  <2>3. \A i \in 1..Len(news') : news'[i] = "NAVIGATING"
    <3>1. news \in Seq({"NAVIGATING"}) /\ Len(news) = 0
      BY <2>1, EmptySeq
    <3>2. news' = news => \A i \in 1..Len(news') : FALSE
      BY <3>1
    <3>3. news' = Append(news, "NAVIGATING") =>
            Len(news') = 1 /\ news'[1] = "NAVIGATING"
      BY <3>1, AppendProperties
    <3> QED BY <2>2, <3>2, <3>3
  <2>4. news' # <<>> => mission'[m] \in Patrolling \cup {"ended"}
    BY <1>5, <2>1, <2>2 DEF Patrolling
  <2>5. /\ missionTold[m] = "none" /\ mission'[m] \in {"refused", "NAVIGATING"}
        /\ missionState \in {"goal_requested", "NAVIGATING"}
        /\ \A s \in Sessions : at[s] \notin {"navigating", "starting", "switching"}
        /\ missionHandle = NoGoal
    BY <1>2, <1>3, <1>5, <1>7, <2>2 DEF PatrolIsSeen, TypeOK
  <2> QED BY <1>1, <1>6, <2>3, <2>4, <2>5 DEF PatrolIsSeen
<1>8. CASE ManagerMoves(m)
  <2>1. state \in Patrolling \cup {"ended"}
    BY <1>2, <1>4, <1>8
  <2> QED BY <1>1, <1>2, <1>5, <1>6, <1>8, <2>1 DEF PatrolIsSeen
<1> QED BY <1>7, <1>8

LEMMA PatrolStatusStep ==
  ASSUME TypeOK, PatrolIsSeen, on_mission_status
  PROVE  PatrolIsSeen'
<1>1. /\ UNCHANGED <<at, missionHandle, mission, missionTold>> /\ news # <<>>
      /\ missionState' = Head(news) /\ news' = Tail(news)
      /\ news \in Seq(States)
  BY DEF on_mission_status, TypeOK, States
<1>2. /\ Head(news) = news[1] /\ 1 \in 1..Len(news)
      /\ \A i \in 1..Len(Tail(news)) : i + 1 \in 1..Len(news) /\ Tail(news)[i] = news[i + 1]
  BY <1>1, HeadTailProperties
<1>3. \A m \in Missions : OpenPatrol(m)' <=> OpenPatrol(m)
  BY <1>1 DEF OpenPatrol
<1>4. (\A i \in 1..Len(news) : news[i] = "NAVIGATING") =>
        missionState' = "NAVIGATING" /\ \A i \in 1..Len(news') : news'[i] = "NAVIGATING"
  BY <1>1, <1>2
<1>5. /\ \A m, n \in Missions : OpenPatrol(m)' /\ OpenPatrol(n)' => m = n
      /\ missionHandle' # NoGoal =>
           OpenPatrol(missionHandle)' /\ missionTold'[missionHandle'] = "response"
      /\ \E m \in Missions : OpenPatrol(m)' /\ mission'[m] \in Patrolling \cup {"ended"}
  <2>1. missionHandle \in Missions \cup {NoGoal}
    BY DEF TypeOK
  <2> QED BY <1>1, <1>3, <2>1 DEF PatrolIsSeen
<1>6. ASSUME NEW m \in Missions, OpenPatrol(m)'
      PROVE  /\ missionTold'[m] = "response" => missionHandle' = m
             /\ missionTold'[m] = "none" =>
                  /\ missionState' \in {"goal_requested", "NAVIGATING"}
                  /\ mission'[m] \in {"sent", "refused", "NAVIGATING"}
                  /\ \A i \in 1..Len(news') : news'[i] = "NAVIGATING"
             /\ \A s \in Sessions : at'[s] \notin {"navigating", "starting", "switching"}
  <2>1. OpenPatrol(m)
    BY <1>3, <1>6
  <2> QED BY <1>1, <1>4, <2>1 DEF PatrolIsSeen
<1> QED BY <1>5, <1>6 DEF PatrolIsSeen

LEMMA PatrolStep ==
  ASSUME OneClient, Consoles = {}, PatrolInv, [Next]_vars
  PROVE  PatrolInv'
<1>1. TypeOK' /\ Told'
  BY TypeStep, ToldStep DEF PatrolInv
<1>2. ASSUME UNCHANGED <<at, missionState, missionHandle, mission, missionTold, news>>
      PROVE  PatrolIsSeen'
  BY <1>2 DEF PatrolInv, PatrolIsSeen, OpenPatrol
<1>3. CASE UNCHANGED vars
  <2>1. UNCHANGED <<at, missionState, missionHandle, mission, missionTold, news>>
    BY <1>3 DEF vars
  <2> QED BY <1>1, <1>2, <2>1 DEF PatrolInv
<1>4. ASSUME NEW s \in Sessions, Check(s) \/ Act(s) PROVE PatrolIsSeen'
  BY <1>4, PatrolSessionStep DEF PatrolInv
<1>5. ASSUME NEW g \in NavGoals, NavEvent(g) PROVE PatrolIsSeen'
  <2>1. UNCHANGED <<at, missionState, missionHandle, mission, missionTold, news>>
    BY <1>5, NavFrame DEF missionVars
  <2> QED BY <1>2, <2>1
<1>6. ASSUME NEW m \in Missions, MissionEvent(m) PROVE PatrolIsSeen'
  BY <1>6, PatrolCallbackStep, PatrolManagerStep DEF PatrolInv, MissionEvent
<1>7. CASE on_mission_status
  <2>1. PatrolIsSeen'
    BY <1>7, PatrolStatusStep DEF PatrolInv
  <2> QED BY <1>1, <2>1 DEF PatrolInv
<1> QED BY <1>1, <1>3, <1>4, <1>5, <1>6, <1>7 DEF Next, PatrolInv

\* For one client and no console: one patrol is open at a time, and its handle
\* or the recorded state shows it to every check, whatever becomes of its goals.
THEOREM PatrolInvariant ==
  ASSUME OneClient, Consoles = {}
  PROVE  Spec => []PatrolInv
<1>1. Init => PatrolInv
  BY InitTypeOK DEF Init, PatrolInv, Told, PatrolIsSeen, OpenPatrol, NoGoal
<1>2. PatrolInv /\ [Next]_vars => PatrolInv'
  BY PatrolStep
<1> QED BY <1>1, <1>2, PTL DEF Spec

\* For one client and no console the patrol under way is always the one whose
\* handle the bridge keeps (_on_mission_goal_response, _on_mission_result).
THEOREM PatrolHandleIsKnown ==
  ASSUME OneClient, Consoles = {}
  PROVE  Spec => []PatrolIsStored
<1>1. PatrolInv => PatrolIsStored
  BY DEF PatrolInv, PatrolIsSeen, PatrolIsStored, KnownPatrol, OnPatrol, Patrolling,
     OpenPatrol, Told
<1> QED BY <1>1, PatrolInvariant, PTL
=============================================================================
