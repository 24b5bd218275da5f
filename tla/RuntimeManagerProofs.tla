------------------------ MODULE RuntimeManagerProofs ------------------------
(***************************************************************************)
(* For any profiles and any number of transitions, and whatever happens to *)
(* the launches: leaders that crash, nodes that outlive them, groups that  *)
(* survive SIGKILL, and a shutdown at any moment.  No two profiles ever    *)
(* run side by side, and between transitions the published status names    *)
(* what runs, unless a launch is left over that no signal has ended.       *)
(***************************************************************************)
EXTENDS RuntimeManager, TLAPS

Statuses == [active: Profiles \cup {"idle"}, requested: Profiles \cup {"idle"},
             state: States, ready: BOOLEAN, generation: 0..MaxGeneration]

LEMMA InitTypeInv == Init => TypeInv
BY ProfileAssumption, GenerationAssumption
   DEF Init, TypeInv, TypeOK, Threads, Launches, Places, States, TransitionAlive

LEMMA QueueTypes ==
  ASSUME TypeInv, NEW p \in Profiles \cup {"idle"}, queue_transition(p),
         initial' \in BOOLEAN, UNCHANGED <<main, handle, processes, stops>>
  PROVE  TypeInv'
<1>1. Generation \in Nat /\ Generation + 1 \in Launches
  BY GenerationAssumption DEF TypeInv, TypeOK, Generation, queue_transition, Launches
<1>2. status' \in Statuses /\ status'.generation = Generation + 1
  <2>1. Generation + 1 \in 0..MaxGeneration
    BY <1>1, GenerationAssumption DEF Launches
  <2> QED BY <2>1 DEF TypeInv, TypeOK, queue_transition, Statuses, States, Generation
<1>3. asked' \in [Launches -> Profiles \cup {"idle"}] /\ pc' \in Places
  BY <1>1 DEF TypeInv, TypeOK, queue_transition, Places
<1> QED BY <1>1, <1>2, <1>3
        DEF TypeInv, TypeOK, Statuses, processes, stops, Generation

LEMMA InitialTypes == TypeInv /\ start_initial_profile => TypeInv'
<1> SUFFICES ASSUME TypeInv, start_initial_profile PROVE TypeInv'
  OBVIOUS
<1>1. CASE queue_transition(InitialProfile)
  BY <1>1, QueueTypes, ProfileAssumption DEF start_initial_profile
<1>2. CASE set_status("idle", InitialProfile, "FAILED", FALSE) /\ UNCHANGED <<pc, asked>>
  <2>1. status' \in Statuses /\ status'.generation = status.generation
    BY <1>2, ProfileAssumption DEF set_status, TypeInv, TypeOK, Statuses, States
  <2> QED BY <1>2, <2>1
          DEF start_initial_profile, TypeInv, TypeOK, Statuses, processes, stops,
              TransitionAlive, Generation
<1> QED BY <1>1, <1>2 DEF start_initial_profile

\* A step of the transition thread takes it to a place, reports a status of
\* the same generation, and leaves the other thread where it is.
LEMMA ThreadFrame ==
  ASSUME TypeInv, ThreadStep \/ StopRaises
  PROVE  /\ TransitionAlive /\ pc' \in Places /\ UNCHANGED <<main, asked, initial>>
         /\ status' \in Statuses /\ status'.generation = status.generation
         /\ status'.state \in {"IDLE", "READY", "FAILED"} =>
              status' = status \/ pc' = "none"
<1>0. status \in Statuses /\ pc \in Places
  BY DEF TypeInv, TypeOK, Statuses
<1>1. TransitionAlive
  BY DEF TransitionAlive, ThreadStep, Step, Begin, StopOld, OldStopped, GoIdle,
     AnnounceStart, start_profile_process, LaunchFails, SeenReady, NotReady,
     ReportReady, StopFailed, TakeOld, TakeFailed, ReportFailed, StopRaises
<1>2. Target \in Profiles \cup {"idle"}
  BY <1>1, GenerationAssumption DEF TypeInv, TypeOK, Target, Generation, Launches
<1>3. CASE Begin \/ AnnounceStart
  BY <1>0, <1>1, <1>2, <1>3 DEF Begin, AnnounceStart, Step, set_status, Statuses, States,
     Places
<1>4. CASE GoIdle \/ ReportReady \/ ReportFailed
  BY <1>0, <1>1, <1>2, <1>4 DEF GoIdle, ReportReady, ReportFailed, Step, set_status,
     Statuses, States, Places
<1>5. CASE StopOld \/ TakeOld \/ OldStopped \/ StopFailed \/ TakeFailed \/ StopRaises
  BY <1>0, <1>1, <1>5 DEF StopOld, TakeOld, OldStopped, StopFailed, TakeFailed,
     StopRaises, Step, Places
<1>6. CASE start_profile_process \/ LaunchFails \/ SeenReady \/ NotReady
  BY <1>0, <1>1, <1>6 DEF start_profile_process, LaunchFails, SeenReady, NotReady, Step,
     Places
<1> QED BY <1>3, <1>4, <1>5, <1>6 DEF ThreadStep

\* What the transition thread does to the processes and to what it stops.
LEMMA ThreadMoves ==
  ASSUME ThreadStep
  PROVE  /\ \/ start_profile_process /\ UNCHANGED stops
            \/ Read("transition") /\ UNCHANGED processes
            \/ Take("transition") /\ UNCHANGED processes
            \/ Release("transition") /\ UNCHANGED <<handle, lost, processes>>
            \/ UNCHANGED <<handle, processes, stops>>
         /\ UNCHANGED lost
<1>1. CASE Begin \/ GoIdle \/ AnnounceStart \/ LaunchFails \/ SeenReady \/ NotReady
        \/ ReportReady
  BY <1>1 DEF Begin, GoIdle, AnnounceStart, LaunchFails, SeenReady, NotReady,
     ReportReady, stops
<1>2. CASE StopOld \/ TakeOld \/ OldStopped
  BY <1>2 DEF StopOld, TakeOld, OldStopped, Read, Take
<1>3. CASE StopFailed \/ TakeFailed \/ ReportFailed
  BY <1>3 DEF StopFailed, TakeFailed, ReportFailed, Read, Take
<1>4. CASE start_profile_process
  BY <1>4 DEF start_profile_process, stops
<1> QED BY <1>1, <1>2, <1>3, <1>4 DEF ThreadStep

LEMMA ThreadTypes == TypeInv /\ (ThreadStep \/ SurvivesKill \/ StoppedTwice) => TypeInv'
<1> SUFFICES ASSUME TypeInv, ThreadStep \/ SurvivesKill \/ StoppedTwice PROVE TypeInv'
  OBVIOUS
<1>1. /\ TransitionAlive /\ pc' \in Places /\ UNCHANGED <<main, asked, initial>>
      /\ status' \in Statuses /\ status'.generation = status.generation
  BY ThreadFrame DEF SurvivesKill, StoppedTwice
<1>2. Generation \in Launches
  BY <1>1, GenerationAssumption DEF TypeInv, TypeOK, Generation, Launches
<1>3. /\ handle' \in {0} \cup Launches /\ lost' \subseteq Launches
      /\ leader' \in [Launches -> {"unborn", "alive", "gone"}] /\ nodes' \subseteq Launches
      /\ victim' \in [Threads -> {0} \cup Launches]
      /\ signal' \in [Threads -> {"none", "INT", "TERM", "KILL"}]
  <2>1. CASE start_profile_process /\ UNCHANGED stops
    BY <1>2, <2>1 DEF start_profile_process, stops, TypeInv, TypeOK
  <2>2. CASE Read("transition") /\ UNCHANGED processes
    BY <2>2 DEF Read, processes, TypeInv, TypeOK
  <2>3. CASE Take("transition") /\ UNCHANGED processes
    BY <2>3 DEF Take, processes, TypeInv, TypeOK
  <2>4. CASE Release("transition") /\ UNCHANGED <<handle, lost, processes>>
    BY <2>4 DEF Release, processes, TypeInv, TypeOK
  <2>5. CASE UNCHANGED <<handle, processes, stops>>
    BY <2>5 DEF processes, stops, TypeInv, TypeOK
  <2>6. CASE SurvivesKill
    BY <2>6 DEF SurvivesKill, StopRaises, Stopped, Release, processes, TypeInv, TypeOK,
       Threads
  <2>7. CASE StoppedTwice
    BY <2>7 DEF StoppedTwice, StopRaises, Release, processes, TypeInv, TypeOK
  <2> QED BY <2>1, <2>2, <2>3, <2>4, <2>5, <2>6, <2>7, ThreadMoves
<1> QED BY <1>1, <1>2, <1>3, GenerationAssumption
        DEF TypeInv, TypeOK, Statuses, TransitionAlive, Generation, Launches

\* The main thread, the signals and the operating system leave the transition
\* and its reports alone.
LEMMA OthersFrame ==
  ASSUME TypeInv,
         \/ \E t \in Threads : Escalate(t)
         \/ Interrupt \/ ReadAtShutdown \/ StopAtShutdown \/ Leave \/ Exit
         \/ \E g \in Launches : LeaderEnds(g) \/ NodesEnd(g)
  PROVE  TypeInv' /\ UNCHANGED <<pc, status, initial>>
<1>1. ASSUME NEW t \in Threads, Escalate(t) PROVE TypeInv' /\ UNCHANGED <<pc, status, initial>>
  BY <1>1 DEF Escalate, TypeInv, TypeOK, processes, TransitionAlive, Generation
<1>2. CASE Interrupt \/ Leave \/ Exit
  BY <1>2 DEF Interrupt, Leave, Exit, Halt, TypeInv, TypeOK, processes, stops,
     TransitionAlive, Generation
<1>3. CASE ReadAtShutdown \/ StopAtShutdown
  BY <1>3 DEF ReadAtShutdown, StopAtShutdown, Halt, Read, Take, TypeInv, TypeOK,
     processes, TransitionAlive, Generation
<1>4. ASSUME NEW g \in Launches, LeaderEnds(g) \/ NodesEnd(g)
      PROVE  TypeInv' /\ UNCHANGED <<pc, status, initial>>
  BY <1>4 DEF LeaderEnds, NodesEnd, TypeInv, TypeOK, stops, TransitionAlive, Generation
<1> QED BY <1>1, <1>2, <1>3, <1>4

LEMMA TypeInvStep == TypeInv /\ [Next]_vars => TypeInv'
<1> SUFFICES ASSUME TypeInv, [Next]_vars PROVE TypeInv'
  OBVIOUS
<1>1. CASE UNCHANGED vars
  BY <1>1 DEF vars, TypeInv, TypeOK, TransitionAlive, Generation
<1>2. ASSUME NEW p \in Profiles \cup {"idle"}, on_set_profile(p) PROVE TypeInv'
  BY <1>2, QueueTypes DEF on_set_profile, TypeInv, TypeOK
<1> QED BY <1>1, <1>2, InitialTypes, ThreadTypes, OthersFrame DEF Next, ThreadStep

\* Every variable keeps to its range whatever happens, for any profiles and
\* any number of transitions.
THEOREM ManagerTypes == Spec => []TypeOK
<1>1. TypeInv => TypeOK
  BY DEF TypeInv
<1> QED BY <1>1, InitTypeInv, TypeInvStep, PTL DEF Spec

-----------------------------------------------------------------------------
(* What the manager holds.                                                 *)

LEMMA InitIInv == Init => IInv
BY InitTypeInv DEF Init, IInv, NothingForgotten, TransitionAlive, Threads, Launches

\* The steps of the transition thread keep the invariant: the handle is read
\* and cleared before the thread waits, and a launch begins when nothing
\* lives but what was given up.
LEMMA ThreadKeeps ==
  ASSUME IInv, main = "spin", ThreadStep \/ SurvivesKill
  PROVE  NothingForgotten'
<1>1. /\ handle \in {0} \cup Launches /\ Generation \in Launches
      /\ victim \in [Threads -> {0} \cup Launches] /\ "transition" \in Threads
      /\ leader \in [Launches -> {"unborn", "alive", "gone"}]
  BY ThreadFrame, GenerationAssumption
     DEF SurvivesKill, IInv, TypeInv, TypeOK, Generation, Launches, Threads
<1>2. CASE Begin \/ GoIdle \/ AnnounceStart
  BY <1>2 DEF Begin, GoIdle, AnnounceStart, Step, IInv, NothingForgotten, processes, stops
<1>3. CASE LaunchFails \/ SeenReady \/ NotReady \/ ReportReady
  BY <1>3 DEF LaunchFails, SeenReady, NotReady, ReportReady, Step, IInv,
     NothingForgotten, processes, stops
<1>4. CASE StopOld \/ StopFailed
  <2>1. pc \in {"stop", "fail"} /\ pc' \in {"taking", "clearing"} /\ UNCHANGED processes
        /\ Read("transition") /\ main' = main
    BY <1>4 DEF StopOld, StopFailed, Step
  <2>2. victim["transition"] = 0
    BY <2>1 DEF IInv, NothingForgotten
  <2>3. victim'["transition"] = handle /\ handle' = handle /\ lost' = lost
    BY <1>1, <2>1 DEF Read
  <2>4. 0 \notin Launches BY DEF Launches
  <2> QED BY <2>1, <2>2, <2>3, <2>4 DEF IInv, NothingForgotten, processes
<1>5. CASE TakeOld \/ TakeFailed
  BY <1>5 DEF TakeOld, TakeFailed, Step, Take, IInv, NothingForgotten, processes
<1>6. CASE OldStopped \/ ReportFailed
  <2>1. victim'["transition"] = 0 /\ Stopped("transition")
    BY <1>1, <1>6 DEF OldStopped, ReportFailed, Release
  <2>2. \A g \in Launches : leader[g] = "alive" => g # victim["transition"]
    BY <1>1, <2>1 DEF Stopped, Launches
  <2> QED BY <1>6, <2>1, <2>2
          DEF OldStopped, ReportFailed, Step, IInv, NothingForgotten, processes
<1>7. CASE SurvivesKill
  <2>1. victim'["transition"] = 0
    BY <1>1, <1>7 DEF SurvivesKill, StopRaises, Release
  <2> QED BY <1>7, <2>1
          DEF SurvivesKill, StopRaises, Step, IInv, NothingForgotten, processes
<1>8. CASE start_profile_process
  BY <1>1, <1>8 DEF start_profile_process, Step, IInv, NothingForgotten, stops
<1> QED BY <1>2, <1>3, <1>4, <1>5, <1>6, <1>7, <1>8 DEF ThreadStep

LEMMA StepKeepsIInv == IInv /\ [Next]_vars => IInv'
<1> SUFFICES ASSUME IInv, [Next]_vars PROVE IInv'
  OBVIOUS
<1>1. TypeInv' BY TypeInvStep DEF IInv
<1>2. NothingForgotten'
  <2>1. CASE UNCHANGED vars
    BY <2>1 DEF vars, IInv, NothingForgotten
  <2>2. ASSUME NEW p \in Profiles \cup {"idle"}, on_set_profile(p) PROVE NothingForgotten'
    BY <2>2 DEF on_set_profile, queue_transition, Acceptable, TransitionAlive, IInv,
       NothingForgotten, processes, stops
  <2>3. CASE start_initial_profile
    BY <2>3 DEF start_initial_profile, queue_transition, Acceptable, TransitionAlive,
       IInv, NothingForgotten, processes, stops
  <2>4. CASE ThreadStep \/ SurvivesKill
    <3>1. main' = main
      BY <2>4, ThreadFrame DEF SurvivesKill, IInv
    <3> QED BY <2>4, <3>1, ThreadKeeps DEF NothingForgotten
  <2>5. CASE StoppedTwice
    BY <2>5 DEF StoppedTwice, StopRaises, NothingForgotten
  <2>6. ASSUME NEW t \in Threads, Escalate(t) PROVE NothingForgotten'
    BY <2>6 DEF Escalate, IInv, NothingForgotten, processes
  <2>7. CASE Interrupt \/ ReadAtShutdown \/ StopAtShutdown \/ Leave \/ Exit
    BY <2>7 DEF Interrupt, ReadAtShutdown, StopAtShutdown, Leave, Exit, Halt,
       NothingForgotten
  <2>8. ASSUME NEW g \in Launches, LeaderEnds(g) \/ NodesEnd(g) PROVE NothingForgotten'
    BY <2>8 DEF LeaderEnds, NodesEnd, IInv, TypeInv, TypeOK, NothingForgotten, stops
  <2> QED BY <2>1, <2>2, <2>3, <2>4, <2>5, <2>6, <2>7, <2>8 DEF Next, ThreadStep
<1> QED BY <1>1, <1>2 DEF IInv

THEOREM ManagerInvariant == Spec => []IInv
BY InitIInv, StepKeepsIInv, PTL DEF Spec

\* No two profiles run side by side until a shutdown: the old one is gone
\* before the new one is launched, whatever fails on the way, unless it has
\* outlived its leader or SIGKILL (_run_transition, _stop_profile_process).
THEOREM ProfilesExclude == Spec => []ExclusiveProfiles
<1>1. IInv => ExclusiveProfiles
  <2> SUFFICES ASSUME IInv, main = "spin",
                      NEW g \in nodes \ LeftOver, NEW h \in nodes \ LeftOver
               PROVE  g = h
    BY DEF ExclusiveProfiles
  <2>1. g \in Launches /\ h \in Launches /\ g # 0 /\ h # 0
    BY DEF IInv, TypeInv, TypeOK, Launches
  <2>2. {g, h} \subseteq {handle, victim["transition"]}
    BY <2>1 DEF LeftOver, IInv, TypeInv, TypeOK, NothingForgotten
  <2>3. CASE pc \in {"taking", "clearing"}
    BY <2>2, <2>3 DEF IInv, NothingForgotten
  <2>4. CASE pc \in {"stopping", "failing"}
    BY <2>1, <2>2, <2>4 DEF IInv, NothingForgotten
  <2>5. CASE victim["transition"] = 0
    BY <2>1, <2>2, <2>5
  <2> QED BY <2>3, <2>4, <2>5 DEF IInv, NothingForgotten
<1> QED BY <1>1, ManagerInvariant, PTL

\* What the transition thread holds is told by where it is.
LEMMA ThreadTells ==
  ASSUME IInv, HandleIsTold, ThreadStep \/ SurvivesKill \/ StoppedTwice
  PROVE  HandleIsTold'
<1>1. CASE Begin \/ AnnounceStart \/ LaunchFails \/ SeenReady \/ NotReady \/ GoIdle
  BY <1>1 DEF Begin, AnnounceStart, LaunchFails, SeenReady, NotReady, GoIdle, Step,
     set_status, HandleIsTold, IInv, TypeInv, TypeOK, NothingForgotten, Generation
<1>2. CASE StopOld \/ StopFailed
  BY <1>2 DEF StopOld, StopFailed, Step, Read, HandleIsTold, Generation
<1>3. CASE TakeOld \/ TakeFailed
  BY <1>3 DEF TakeOld, TakeFailed, Take, HandleIsTold
<1>4. CASE OldStopped \/ ReportFailed
  <2>1. pc \in {"stopping", "failing"} /\ UNCHANGED <<main, initial, handle>>
    BY <1>4 DEF OldStopped, ReportFailed, Step
  <2> QED BY <2>1 DEF IInv, NothingForgotten, HandleIsTold
<1>5. CASE start_profile_process
  BY <1>5 DEF start_profile_process, Step, HandleIsTold, Generation
<1>6. CASE ReportReady
  BY <1>6 DEF ReportReady, Step, set_status, HandleIsTold, IInv, TypeInv, TypeOK, Target,
     Generation
<1>7. CASE SurvivesKill \/ StoppedTwice
  BY <1>7 DEF SurvivesKill, StoppedTwice, StopRaises, Step, IInv, NothingForgotten,
     HandleIsTold
<1> QED BY <1>1, <1>2, <1>3, <1>4, <1>5, <1>6, <1>7 DEF ThreadStep

LEMMA StepTells == IInv /\ HandleIsTold /\ [Next]_vars => HandleIsTold'
<1> SUFFICES ASSUME IInv, HandleIsTold, [Next]_vars PROVE HandleIsTold'
  OBVIOUS
<1>1. CASE UNCHANGED vars
  BY <1>1 DEF vars, HandleIsTold, Generation
<1>2. ASSUME NEW p \in Profiles \cup {"idle"}, on_set_profile(p) PROVE HandleIsTold'
  BY <1>2 DEF on_set_profile, queue_transition, HandleIsTold
<1>3. ~start_initial_profile BY DEF start_initial_profile, HandleIsTold
<1>4. CASE ThreadStep \/ SurvivesKill \/ StoppedTwice
  BY <1>4, ThreadTells
<1>5. ASSUME NEW t \in Threads, Escalate(t) PROVE HandleIsTold'
  BY <1>5 DEF Escalate, HandleIsTold, Generation
<1>6. CASE Interrupt \/ ReadAtShutdown \/ StopAtShutdown \/ Leave \/ Exit
  BY <1>6 DEF Interrupt, ReadAtShutdown, StopAtShutdown, Leave, Exit, Halt, HandleIsTold
<1>7. ASSUME NEW g \in Launches, LeaderEnds(g) \/ NodesEnd(g) PROVE HandleIsTold'
  BY <1>7 DEF LeaderEnds, NodesEnd, HandleIsTold, Generation
<1> QED BY <1>1, <1>2, <1>3, <1>4, <1>5, <1>6, <1>7 DEF Next, ThreadStep

\* With no initial profile, the published status names whatever runs between
\* two transitions, left-over nodes apart; a failed or idle manager runs
\* nothing else (_run_transition).
THEOREM StatusTellsRest ==
  ASSUME InitialProfile = "idle"
  PROVE  Spec => []RestIsTold
<1>1. Init => HandleIsTold BY DEF Init, HandleIsTold
<1>2. IInv /\ HandleIsTold => RestIsTold
  <2> SUFFICES ASSUME IInv, HandleIsTold, ~TransitionAlive, main = "spin",
                      NEW g \in nodes \ LeftOver
               PROVE  status.state = "READY" /\ status.active = asked[g]
    BY DEF RestIsTold
  <2>1. g \in Launches /\ g # 0 /\ leader[g] # "gone" /\ g \notin lost
    BY DEF LeftOver, IInv, TypeInv, TypeOK, Launches
  <2>2. victim["transition"] = 0
    BY DEF IInv, NothingForgotten, TransitionAlive
  <2>3. g = handle
    BY <2>1, <2>2 DEF IInv, TypeInv, TypeOK, NothingForgotten
  <2> QED BY <2>1, <2>3 DEF HandleIsTold, TransitionAlive
<1> QED BY <1>1, <1>2, InitIInv, StepKeepsIInv, StepTells, PTL DEF Spec

-----------------------------------------------------------------------------
(* What the manager reports.                                               *)

LEMMA NotYetOverStep == TypeInv /\ NotYetOver /\ [Next]_vars => NotYetOver'
<1> SUFFICES ASSUME TypeInv, NotYetOver, [Next]_vars PROVE NotYetOver'
  OBVIOUS
<1>1. CASE UNCHANGED vars
  BY <1>1 DEF vars, NotYetOver, TransitionAlive, Over
<1>2. ASSUME NEW p \in Profiles \cup {"idle"}, on_set_profile(p) PROVE NotYetOver'
  BY <1>2 DEF on_set_profile, queue_transition, NotYetOver, Over, TypeInv, TypeOK
<1>3. ~start_initial_profile
  BY DEF start_initial_profile, NotYetOver
<1>4. CASE ThreadStep \/ SurvivesKill \/ StoppedTwice
  BY <1>4, ThreadFrame DEF SurvivesKill, StoppedTwice, NotYetOver, TransitionAlive, Over
<1>5. CASE UNCHANGED <<pc, status, initial>>
  BY <1>5 DEF NotYetOver, TransitionAlive, Over
<1> QED BY <1>1, <1>2, <1>3, <1>4, <1>5, OthersFrame DEF Next, ThreadStep

\* With no initial profile: an end that has been reported, IDLE, READY or
\* FAILED, is the last report of its generation, whatever fails and even when
\* the transition thread dies of an exception (_run_transition, _set_status).
THEOREM ReportedEndIsFinal ==
  ASSUME InitialProfile = "idle"
  PROVE  Spec => EndIsFinal
<1>1. Init => NotYetOver
  BY DEF Init, NotYetOver, TransitionAlive
<1>2. TypeInv /\ NotYetOver /\ [Next]_vars =>
        [Over /\ status.generation' = status.generation => status' = status]_vars
  <2> SUFFICES ASSUME TypeInv, NotYetOver, Over, Next,
                      status.generation' = status.generation
               PROVE  status' = status
    BY DEF vars
  <2>1. ASSUME NEW p \in Profiles \cup {"idle"}, on_set_profile(p) PROVE FALSE
    BY <2>1, GenerationAssumption
       DEF on_set_profile, queue_transition, TypeInv, TypeOK, Generation
  <2>2. ~start_initial_profile
    BY DEF start_initial_profile, NotYetOver
  <2>3. ThreadStep \/ SurvivesKill \/ StoppedTwice => status' = status
    BY ThreadFrame DEF SurvivesKill, StoppedTwice, NotYetOver
  <2> QED BY <2>1, <2>2, <2>3, OthersFrame DEF Next, ThreadStep
<1> QED BY <1>1, <1>2, InitTypeInv, TypeInvStep, NotYetOverStep, PTL
        DEF Spec, EndIsFinal
=============================================================================
