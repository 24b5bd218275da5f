----------------------------- MODULE AppBridge -----------------------------
(***************************************************************************)
(* Who may move the car: the exclusion between direct navigation, patrols, *)
(* manual takeover and profile switches in car_app_bridge/app_server.py.   *)
(* Each TCP client has a thread; the callbacks of the two action clients   *)
(* and of /mission/status run one at a time on the ROS executor.  The      *)
(* threads and the executor share self._state and the two goal handles     *)
(* without a lock, so a request is a check and, in a step of its own, what *)
(* it does.                                                                *)
(*                                                                         *)
(* Nav2 and the mission manager are seen from the bridge: what they decide *)
(* about a goal, when they end it, and what they have told the bridge.     *)
(* Three orders are assumed: Nav2's answers are handled in the order of    *)
(* the goals; the manager answers a goal, and the bridge handles the       *)
(* answer, before a patrol changes state (one takes milliseconds, the      *)
(* other seconds); and a patrol's result is handled after the states       *)
(* published before it.                                                    *)
(***************************************************************************)
EXTENDS Naturals, Sequences, MissionStates

CONSTANTS
  Sessions,     \* clients with a connection
  NavGoals,     \* the navigation goals that may be sent, numbered from 1
  Missions,     \* the patrols that may be started, numbered from 1
  Consoles,     \* patrols that are started by the console, not by the bridge
  NewsCap       \* patrol states that are published and not yet received

ASSUME GoalsAssumption ==
  /\ NavGoals \subseteq Nat \ {0} /\ Missions \subseteq Nat \ {0}
  /\ Consoles \subseteq Missions /\ NewsCap \in Nat

NoGoal == 0

VARIABLES
  at,            \* what each thread has checked and is about to do
  navState,      \* _state['navigation']['state']
  navHandle,     \* _app_goal_handle
  nav,           \* Nav2: state of each goal
  navTold,       \* which callback of a goal has run: none, response, result
  overtaken,     \* goals under way when the result of an earlier one was handled
  missionState,  \* _state['mission']['state']
  missionHandle, \* _mission_goal_handle
  mission,       \* the mission manager: state of each patrol
  missionTold,   \* as navTold
  outrun,        \* as overtaken, of patrols
  news           \* states on /mission/status and in feedback

navVars  == <<navState, navHandle, nav, navTold, overtaken>>
missionVars == <<missionState, missionHandle, mission, missionTold, outrun, news>>
vars == <<at, navState, navHandle, nav, navTold, overtaken, missionState,
          missionHandle, mission, missionTold, outrun, news>>

Init ==
  /\ at = [s \in Sessions |-> "ready"]
  /\ navState = "idle" /\ navHandle = NoGoal
  /\ nav = [g \in NavGoals |-> "unused"] /\ navTold = [g \in NavGoals |-> "none"]
  /\ overtaken = {} /\ outrun = {}
  /\ missionState = "idle" /\ missionHandle = NoGoal
  /\ mission = [m \in Missions |-> "unused"]
  /\ missionTold = [m \in Missions |-> "none"]
  /\ news = <<>>

-----------------------------------------------------------------------------
(* What the bridge believes, and what is true.                             *)

navigation_is_active ==
  navHandle # NoGoal \/ navState \in {"goal_sent", "accepted", "cancel_requested"}

\* Mutant: the recorded state alone counts.
mission_state_only ==
  missionState \in {"goal_requested", "accepted", "NAVIGATING", "PAUSED"}

\* "NAVIGATING" stands for all active states but two, see Seen; "BLOCKED" is
\* missing from the list of the code.
mission_is_active ==
  \/ missionHandle # NoGoal
  \/ missionState \in {"goal_requested", "accepted", "NAVIGATING", "PAUSED"}

Patrolling == {"NAVIGATING", "BLOCKED", "PAUSED"}
Driving(g) == nav[g] = "running"
OnPatrol(m) == mission[m] \in Patrolling

\* The car is on its way, and the bridge has heard that it was accepted.
KnownDrive(g) == Driving(g) /\ navTold[g] = "response"
KnownPatrol(m) == OnPatrol(m) /\ missionTold[m] = "response"

\* The next goal or patrol in line.
First(f, S) == {x \in S : f[x] = "unused" /\ \A y \in S : y < x => f[y] # "unused"}

Move(s, from, to) == at[s] = from /\ at' = [at EXCEPT ![s] = to]

-----------------------------------------------------------------------------
(* Requests: the check, in the thread of a client.                         *)

\* nav_goal, up to the wait for Nav2's action server. A goal under way is no
\* obstacle: Nav2 replaces it.
CheckNavigation(s) ==
  /\ ~mission_is_active
  /\ Move(s, "ready", "navigating")
  /\ UNCHANGED <<navVars, missionVars>>

\* nav_cancel finds a handle and cancels it.
CheckCancel(s) ==
  /\ navHandle # NoGoal
  /\ Move(s, "ready", "cancelling")
  /\ UNCHANGED <<navVars, missionVars>>

CheckStart(s) ==
  /\ ~mission_is_active /\ ~navigation_is_active
  /\ Move(s, "ready", "starting")
  /\ UNCHANGED <<navVars, missionVars>>

\* teleop_acquire, up to the lease.
CheckTakeover(s) ==
  /\ ~navigation_is_active
  /\ mission_is_active => missionState = "PAUSED"
  /\ Move(s, "ready", "taking")
  /\ UNCHANGED <<navVars, missionVars>>

\* runtime_switch, up to the call of /runtime/set_profile.
CheckSwitch(s) ==
  /\ ~navigation_is_active /\ ~mission_is_active
  /\ Move(s, "ready", "switching")
  /\ UNCHANGED <<navVars, missionVars>>

-----------------------------------------------------------------------------
(* Requests: the act.                                                      *)

SendNavigation(s) ==
  \E g \in First(nav, NavGoals) :
    /\ Move(s, "navigating", "sent")
    /\ navState' = "goal_published" /\ nav' = [nav EXCEPT ![g] = "sent"]
    /\ UNCHANGED <<navHandle, navTold, overtaken, missionVars>>

\* The state is written again when send_goal_async has returned, whatever
\* the response callback has made of it.
RecordGoalSent(s) ==
  /\ Move(s, "sent", "ready") /\ navState' = "goal_sent"
  /\ UNCHANGED <<navHandle, nav, navTold, overtaken, missionVars>>

RecordCancel(s) ==
  /\ Move(s, "cancelling", "ready") /\ navState' = "cancel_requested"
  /\ UNCHANGED <<navHandle, nav, navTold, overtaken, missionVars>>

SendPatrol(s) ==
  \E m \in First(mission, Missions \ Consoles) :
    /\ Move(s, "starting", "ready") /\ mission' = [mission EXCEPT ![m] = "sent"]
    /\ missionState' = "goal_requested"
    /\ UNCHANGED <<missionHandle, missionTold, outrun, news, navVars>>

TakeOver(s) == Move(s, "taking", "ready") /\ UNCHANGED <<navVars, missionVars>>

SwitchProfile(s) ==
  Move(s, "switching", "ready") /\ UNCHANGED <<navVars, missionVars>>

-----------------------------------------------------------------------------
(* Callbacks of the executor.                                              *)

\* Nav2's answer to g, in the order of the goals.
Answered(g) ==
  /\ nav[g] \notin {"unused", "sent"} /\ navTold[g] = "none"
  /\ \A h \in NavGoals : h < g => navTold[h] # "none"
  /\ navTold' = [navTold EXCEPT ![g] = "response"]
  /\ UNCHANGED <<at, nav, overtaken, missionVars>>

\* Mutant: the handle of the goal before is kept.
KeepFirstHandle(g) ==
  /\ Answered(g)
  /\ IF nav[g] = "refused"
     THEN navState' = "rejected" /\ UNCHANGED navHandle
     ELSE navState' = "accepted"
          /\ navHandle' = IF navHandle = NoGoal THEN g ELSE navHandle

on_nav_goal_response(g) ==
  /\ Answered(g)
  /\ IF nav[g] = "refused"
     THEN navState' = "rejected" /\ UNCHANGED navHandle
     ELSE navState' = "accepted" /\ navHandle' = g

on_nav_result(g) ==
  /\ nav[g] = "ended" /\ navTold[g] = "response"
  /\ navTold' = [navTold EXCEPT ![g] = "result"]
  /\ navState' = "finished" /\ navHandle' = NoGoal
  /\ overtaken' = overtaken \cup {h \in NavGoals : KnownDrive(h)}
  /\ UNCHANGED <<at, nav, missionVars>>

\* The manager's answer to m.
PatrolAnswered(m) ==
  /\ m \notin Consoles /\ mission[m] \notin {"unused", "sent"}
  /\ missionTold[m] = "none"
  /\ missionTold' = [missionTold EXCEPT ![m] = "response"]
  /\ UNCHANGED <<at, navVars, mission, outrun, news>>

\* Mutant: a refusal clears the handle of the patrol under way.
RefusalClears(m) ==
  /\ PatrolAnswered(m)
  /\ IF mission[m] = "refused"
     THEN missionState' = "rejected" /\ missionHandle' = NoGoal
     ELSE missionState' = "accepted" /\ missionHandle' = m

on_mission_goal_response(m) ==
  /\ PatrolAnswered(m)
  /\ IF mission[m] = "refused"
     THEN missionState' = "rejected" /\ UNCHANGED missionHandle
     ELSE missionState' = "accepted" /\ missionHandle' = m

on_mission_result(m) ==
  /\ mission[m] = "ended" /\ missionTold[m] = "response" /\ news = <<>>
  /\ missionTold' = [missionTold EXCEPT ![m] = "result"]
  /\ missionState' = "ENDED" /\ missionHandle' = NoGoal
  /\ outrun' = outrun \cup {n \in Missions : KnownPatrol(n)}
  /\ UNCHANGED <<at, navVars, mission, news>>

\* /mission/status and the feedback of the action carry the same states.
on_mission_status ==
  /\ news # <<>> /\ news' = Tail(news) /\ missionState' = Head(news)
  /\ UNCHANGED <<at, navVars, missionHandle, mission, missionTold, outrun>>

-----------------------------------------------------------------------------
(* Nav2: accepts goals in the order of their arrival, and ends the goal it *)
(* is driving to when it accepts the next.                                 *)

Nav2Decides(g) ==
  /\ nav[g] = "sent" /\ \A h \in NavGoals : h < g => nav[h] # "sent"
  /\ \/ nav' = [h \in NavGoals |-> IF h = g THEN "running"
                                   ELSE IF Driving(h) THEN "ended" ELSE nav[h]]
     \/ nav' = [nav EXCEPT ![g] = "refused"]
  /\ UNCHANGED <<at, navState, navHandle, navTold, overtaken, missionVars>>

\* Arrival, failure or a cancellation.
Nav2Ends(g) ==
  /\ Driving(g) /\ nav' = [nav EXCEPT ![g] = "ended"]
  /\ UNCHANGED <<at, navState, navHandle, navTold, overtaken, missionVars>>

(* The mission manager: one patrol at a time, refused otherwise; each      *)
(* change of its state is one of its table, see MissionStates, and is      *)
(* published.                                                              *)

Publish(m, state) ==
  /\ Len(news) < NewsCap
  /\ mission' = [mission EXCEPT ![m] = state]
  /\ news' = Append(news, IF state = "ended" THEN "ENDED" ELSE state)
  /\ UNCHANGED <<at, navVars, missionState, missionHandle, missionTold, outrun>>

\* What the bridge tells apart of a state of the table.
Seen(state) ==
  IF state \in TERMINAL_STATES THEN "ended"
  ELSE IF state \in {"BLOCKED", "PAUSED"} THEN state ELSE "NAVIGATING"

ManagerDecides(m) ==
  /\ mission[m] = "sent" \/ m \in First(mission, Consoles)
  /\ IF \E other \in Missions : OnPatrol(other)
     THEN /\ mission' = [mission EXCEPT ![m] = "refused"]
          /\ UNCHANGED <<at, navVars, missionState, missionHandle, missionTold,
                         outrun, news>>
     ELSE Publish(m, "NAVIGATING")

ManagerMoves(m) ==
  /\ \A x \in Missions \ Consoles : mission[x] # "unused" => missionTold[x] # "none"
  /\ \E state \in ActiveStates : \E next \in ALLOWED_TRANSITIONS[state] :
       Seen(state) = mission[m] /\ Publish(m, Seen(next))

-----------------------------------------------------------------------------
Check(s) ==
  \/ CheckNavigation(s) \/ CheckCancel(s) \/ CheckStart(s) \/ CheckTakeover(s)
  \/ CheckSwitch(s)

Act(s) ==
  \/ SendNavigation(s) \/ RecordGoalSent(s) \/ RecordCancel(s) \/ SendPatrol(s)
  \/ TakeOver(s) \/ SwitchProfile(s)

NavEvent(g) ==
  on_nav_goal_response(g) \/ on_nav_result(g) \/ Nav2Decides(g) \/ Nav2Ends(g)

MissionEvent(m) ==
  \/ on_mission_goal_response(m) \/ on_mission_result(m)
  \/ ManagerDecides(m) \/ ManagerMoves(m)

Next ==
  \/ \E s \in Sessions : Check(s) \/ Act(s)
  \/ \E g \in NavGoals : NavEvent(g)
  \/ \E m \in Missions : MissionEvent(m)
  \/ on_mission_status

Spec == Init /\ [][Next]_vars
-----------------------------------------------------------------------------
(* Properties.                                                             *)

\* Every variable keeps to its range.
TypeOK ==
  /\ at \in [Sessions -> {"ready", "navigating", "sent", "cancelling",
                          "starting", "taking", "switching"}]
  /\ navState \in {"idle", "goal_published", "goal_sent", "accepted",
                   "rejected", "cancel_requested", "finished"}
  /\ navHandle \in NavGoals \cup {NoGoal}
  /\ nav \in [NavGoals -> {"unused", "sent", "refused", "running", "ended"}]
  /\ navTold \in [NavGoals -> {"none", "response", "result"}]
  /\ missionState \in Patrolling \cup {"idle", "goal_requested", "accepted",
                                      "rejected", "ENDED"}
  /\ missionHandle \in Missions \cup {NoGoal}
  /\ mission \in [Missions -> Patrolling \cup {"unused", "sent", "refused", "ended"}]
  /\ missionTold \in [Missions -> {"none", "response", "result"}]
  /\ overtaken \subseteq NavGoals /\ outrun \subseteq Missions
  /\ news \in Seq(Patrolling \cup {"ENDED"})

\* Of the patrols the bridge started, the one under way is the one whose
\* handle it keeps, once the manager's answer is in: neither the refusal of a
\* second client's request nor a console's patrol takes its place. Only the
\* result of an earlier patrol that is handled too late may have cleared it.
PatrolIsKnown ==
  \A m \in Missions : KnownPatrol(m) =>
    missionHandle = m \/ (missionHandle = NoGoal /\ m \in outrun)

\* nav_cancel reaches the goal the car drives to, once Nav2's answer is in, and
\* never an earlier one, whichever client sent or replaced it. Only the result
\* of an earlier goal that is handled too late may have cleared the handle.
GoalIsKnown ==
  \A g \in NavGoals : KnownDrive(g) =>
    navHandle = g \/ (navHandle = NoGoal /\ g \in overtaken)

\* No request passes its check against a goal or patrol that the bridge has
\* heard to be accepted and that still moves the car, whatever state another
\* client's request or the news have left behind; a takeover that relies on
\* PAUSED, and has no news on their way, finds the patrol paused.
ChecksSeeMotion ==
  [][\A s \in Sessions :
       /\ CheckNavigation(s) \/ CheckStart(s) \/ CheckSwitch(s) =>
            \A m \in Missions : KnownPatrol(m) => m \in outrun
       /\ CheckStart(s) \/ CheckTakeover(s) \/ CheckSwitch(s) =>
            \A g \in NavGoals : KnownDrive(g) => g \in overtaken
       /\ CheckTakeover(s) /\ news = <<>> =>
            \A m \in Missions : KnownPatrol(m) =>
              mission[m] = "PAUSED" \/ m \in outrun]_vars

-----------------------------------------------------------------------------
(* What comments and documents say, and the code does not do.              *)

\* The car is never sent to a goal of its own while a patrol drives it.
NavigationExcludesPatrol ==
  ~ \E g \in NavGoals, m \in Missions : Driving(g) /\ OnPatrol(m)

\* A takeover or a profile switch that goes ahead finds no direct navigation
\* under way.
ActsOnStandingCar ==
  [][\A s \in Sessions : TakeOver(s) \/ SwitchProfile(s)
       => ~ \E g \in NavGoals : nav[g] \in {"sent", "running"}]_vars

\* The goal the car drives to can be cancelled.
GoalIsStored == \A g \in NavGoals : KnownDrive(g) => navHandle = g

\* The patrol under way is the one whose handle the bridge keeps.
PatrolIsStored == \A m \in Missions : KnownPatrol(m) => missionHandle = m

AtRest ==
  /\ \A s \in Sessions : at[s] = "ready"
  /\ \A g \in NavGoals :
       \/ nav[g] = "unused"
       \/ nav[g] = "refused" /\ navTold[g] = "response"
       \/ navTold[g] = "result"

\* When every goal has been refused or has ended, and the bridge has been
\* told, a cancellation is over too.
CancellationEnds == AtRest => navState # "cancel_requested"

\* And no goal is still said to be on its way to Nav2.
SentGoalIsAnswered == AtRest => navState # "goal_sent"
-----------------------------------------------------------------------------
(* The inductive invariants of the proofs.                                 *)

\* What Nav2, the manager and the callbacks have done so far agrees.
Told ==
  /\ \A g \in NavGoals :
       /\ nav[g] \in {"unused", "sent"} => navTold[g] = "none"
       /\ navTold[g] = "result" => nav[g] = "ended"
  /\ \A m \in Missions :
       /\ mission[m] \in {"unused", "sent"} => missionTold[m] = "none"
       /\ missionTold[m] = "result" => mission[m] = "ended"

\* Goals are sent, decided and answered in their order, and Nav2 drives to the
\* last one it has accepted.
InOrder ==
  \A g, h \in NavGoals : g < h =>
    /\ nav[h] # "unused" => nav[g] # "unused"
    /\ nav[h] \notin {"unused", "sent"} => nav[g] \notin {"unused", "sent"}
    /\ navTold[h] # "none" => navTold[g] # "none"
    /\ Driving(g) => nav[h] \notin {"running", "ended"}

\* One patrol drives at a time, none ends before the bridge knows of it, and
\* the last word said of the patrols is no PAUSED while one of them moves.
PatrolsInTurn ==
  /\ \A m, n \in Missions : OnPatrol(m) /\ OnPatrol(n) => m = n
  /\ \A m \in Missions \ Consoles : mission[m] = "ended" => missionTold[m] # "none"
  /\ \A m \in Consoles : missionTold[m] = "none"
  /\ LET word == IF news = <<>> THEN missionState ELSE news[Len(news)] IN
       word = "PAUSED" => \A m \in Missions : OnPatrol(m) => mission[m] = "PAUSED"

\* A patrol is open from the moment it is sent until its refusal, or its
\* result, has been handled.
OpenPatrol(m) == mission[m] # "unused" /\ missionTold[m] # "result"
                   /\ ~(mission[m] = "refused" /\ missionTold[m] = "response")

\* With one client and no console one patrol is open at a time; the bridge has
\* its handle, or a request state that stands until the answer, and nobody acts
\* on a check made without it. Until the manager's answer is in, nothing but
\* the patrol's own first state comes on /mission/status.
PatrolIsSeen ==
  /\ \A m, n \in Missions : OpenPatrol(m) /\ OpenPatrol(n) => m = n
  /\ missionHandle # NoGoal =>
       OpenPatrol(missionHandle) /\ missionTold[missionHandle] = "response"
  /\ news # <<>> =>
       \E m \in Missions : OpenPatrol(m) /\ mission[m] \in Patrolling \cup {"ended"}
  /\ \A m \in Missions : OpenPatrol(m) =>
       /\ missionTold[m] = "response" => missionHandle = m
       /\ missionTold[m] = "none" =>
            /\ missionState \in {"goal_requested", "NAVIGATING"}
            /\ mission[m] \in {"sent", "refused", "NAVIGATING"}
            /\ \A i \in 1..Len(news) : news[i] = "NAVIGATING"
       /\ \A s \in Sessions : at[s] \notin {"navigating", "starting", "switching"}

GoalInv == TypeOK /\ Told /\ InOrder /\ GoalIsKnown
ManagerInv == TypeOK /\ Told /\ PatrolsInTurn /\ PatrolIsKnown
PatrolInv == TypeOK /\ Told /\ PatrolIsSeen
=============================================================================
