------------------------- MODULE ControlLeaseProofs -------------------------
(***************************************************************************)
(* For any number of clients and any lease time: a fresh motion command is *)
(* the lease holder's, and no client loses a live lease to another one.    *)
(* The argument is a clock: a move was checked "lag" ago, its command is   *)
(* as old as "quiet", the lease that allowed it still has "left" to go,    *)
(* and what has passed and what is left add up to the lease time until the *)
(* lease is renewed, ends with a zero twist or runs out.                   *)
(***************************************************************************)
EXTENDS ControlLease, TLAPS

\* Where a thread can be.
States == {"ready", "acquired", "validated", "released", "closing", "closed", "silent"}

\* A validated move keeps its lease when leases that have run out are dropped.
LEMMA DropKeepsMoves ==
  ASSUME IInv, DropExpired, UNCHANGED lag,
         at' \in [Sessions -> States], Validated' = Validated
  PROVE  /\ \A s \in Validated' : lag'[s] < Timeout =>
              holder' = s /\ left' + lag'[s] >= Timeout
         /\ \A s \in Sessions \ Validated' : lag'[s] = 0
         /\ left' > 0 => holder' # None
<1>1. ASSUME NEW s \in Validated', lag'[s] < Timeout
      PROVE  holder' = s /\ left' + lag'[s] >= Timeout
  <2>1. s \in Sessions /\ s \in Validated BY DEF Validated
  <2>2. holder = s /\ left + lag[s] >= Timeout
    BY <1>1, <2>1 DEF IInv, LeaseCoversMoves
  <2>3. left # 0
    BY <1>1, <2>1, <2>2, LeaseTimeAssumption DEF IInv, TypeOK
  <2> QED BY <2>2, <2>3 DEF DropExpired, Holder
<1>2. \A s \in Sessions \ Validated' : lag'[s] = 0
  BY DEF IInv, LeaseCoversMoves
<1>3. left' > 0 => holder' # None
  BY DEF IInv, TypeOK, LeaseCoversMoves, DropExpired, Holder
<1> QED BY <1>1, <1>2, <1>3

\* What a thread or the timer leaves alone keeps the invariant; a lease that
\* is dropped because it has run out allowed no command that is still fresh.
LEMMA DropKeeps ==
  ASSUME IInv, DropExpired, UNCHANGED <<lag, last, quiet>>,
         at' \in [Sessions -> States], Validated' = Validated,
         timer' \in {"ready", "expired"}, elapsed' \in 0..Period,
         ZeroInFlight => ZeroInFlight'
  PROVE  IInv'
<1>1. TypeOK'
  BY SessionAssumption, LeaseTimeAssumption
     DEF IInv, TypeOK, DropExpired, Holder, States
<1>2. ASSUME last' # None, ~ZeroInFlight', quiet' + MaxLag < Timeout
      PROVE  holder' = last' /\ left' + quiet' + MaxLag >= Timeout
  <2>1. holder = last /\ left + quiet + MaxLag >= Timeout
    BY <1>2 DEF IInv, LeaseCoversMoves
  <2>2. left # 0
    BY <1>2, <2>1, LeaseTimeAssumption DEF IInv, TypeOK
  <2> QED BY <2>1, <2>2 DEF DropExpired, Holder
<1> QED BY <1>1, <1>2, DropKeepsMoves DEF IInv, LeaseCoversMoves

\* A session that holds the lease, or that finds it free, gets a whole one.
LEMMA GrantKeeps ==
  ASSUME IInv, NEW s \in Sessions, Holder \in {None, s}, Grant(s),
         at[s] = "ready", NEW p \in {"ready", "acquired", "validated"},
         at' = [at EXCEPT ![s] = p], UNCHANGED <<lag, timer, elapsed, last, quiet>>
  PROVE  IInv'
<1>1. TypeOK'
  BY LeaseTimeAssumption DEF IInv, TypeOK, Grant
<1>2. ASSUME NEW r \in Validated', lag'[r] < Timeout
      PROVE  holder' = r /\ left' + lag'[r] >= Timeout
  <2>1. r \in Sessions /\ lag[r] \in Nat BY DEF Validated, IInv, TypeOK
  <2>2. CASE r = s BY <2>1, <2>2, LeaseTimeAssumption DEF Grant
  <2>3. CASE r # s
    <3>1. r \in Validated BY <2>1, <2>3 DEF Validated, IInv, TypeOK
    <3>2. holder = r /\ left + lag[r] >= Timeout
      BY <1>2, <3>1 DEF IInv, LeaseCoversMoves
    <3>3. Holder = r
      BY <1>2, <2>1, <3>2, LeaseTimeAssumption DEF Holder, IInv, TypeOK
    <3> QED BY <2>1, <2>3, <3>3, SessionAssumption
  <2> QED BY <2>2, <2>3
<1>3. \A r \in Sessions \ Validated' : lag'[r] = 0
  BY DEF IInv, TypeOK, LeaseCoversMoves, Validated
<1>4. left' > 0 => holder' # None
  BY SessionAssumption DEF Grant
<1>5. ASSUME last' # None, ~ZeroInFlight', quiet' + MaxLag < Timeout
      PROVE  holder' = last' /\ left' + quiet' + MaxLag >= Timeout
  <2>1. ~ZeroInFlight
    BY <1>5 DEF ZeroInFlight, IInv, TypeOK
  <2>2. holder = last /\ left + quiet + MaxLag >= Timeout
    BY <1>5, <2>1 DEF IInv, LeaseCoversMoves
  <2>3. Holder = last
    BY <1>5, <2>2, LeaseTimeAssumption DEF IInv, TypeOK, Holder
  <2>4. last = s BY <2>3, <1>5
  <2> QED BY <2>4, LeaseTimeAssumption DEF Grant, IInv, TypeOK
<1> QED BY <1>1, <1>2, <1>3, <1>4, <1>5 DEF IInv, LeaseCoversMoves

\* A lease that its session ends leaves a zero twist to be published; a move
\* that another session still has to publish has outlived its own lease.
LEMMA EndKeeps ==
  ASSUME IInv, NEW s \in Sessions, Holder = s, End,
         at[s] \in {"ready", "silent"}, NEW p \in {"released", "closing"},
         at' = [at EXCEPT ![s] = p], UNCHANGED <<lag, timer, elapsed, last, quiet>>
  PROVE  IInv'
<1>1. TypeOK'
  BY LeaseTimeAssumption DEF IInv, TypeOK, End
<1>2. ASSUME NEW r \in Validated', lag'[r] < Timeout PROVE FALSE
  <2>1. r # s /\ r \in Validated BY DEF Validated, IInv, TypeOK
  <2>2. holder = r /\ left + lag[r] >= Timeout
    BY <1>2, <2>1 DEF IInv, LeaseCoversMoves
  <2>3. Holder = r
    BY <1>2, <2>1, <2>2, LeaseTimeAssumption DEF IInv, TypeOK, Holder, Validated
  <2> QED BY <2>1, <2>3
<1>3. ZeroInFlight' BY DEF ZeroInFlight, IInv, TypeOK
<1>4. \A r \in Sessions \ Validated' : lag'[r] = 0
  BY DEF IInv, TypeOK, LeaseCoversMoves, Validated
<1> QED BY <1>1, <1>2, <1>3, <1>4 DEF IInv, LeaseCoversMoves, End

\* A zero twist needs no lease.
LEMMA ZeroKeeps ==
  ASSUME IInv, DropExpired, last' = None, quiet' = 0, UNCHANGED lag,
         at' \in [Sessions -> States], Validated' = Validated,
         timer' \in {"ready", "expired"}, elapsed' \in 0..Period
  PROVE  IInv'
<1>1. TypeOK'
  BY SessionAssumption, LeaseTimeAssumption
     DEF IInv, TypeOK, DropExpired, Holder, States
<1> QED BY <1>1, DropKeepsMoves DEF IInv, LeaseCoversMoves

\* The invariant of the lease is inductive.
LEMMA InitIInv == Init => IInv
BY SessionAssumption, LeaseTimeAssumption
   DEF Init, IInv, TypeOK, LeaseCoversMoves, Validated

LEMMA RequestKeeps ==
  ASSUME IInv, NEW s \in Sessions, Request(s)
  PROVE  IInv'
<1>1. CASE acquire(s)
  <2>1. CASE Holder \in {None, s}
    BY <1>1, <2>1, GrantKeeps DEF acquire
  <2>2. CASE Holder \notin {None, s}
    BY <1>1, <2>2 DEF acquire, IInv, TypeOK, LeaseCoversMoves, ZeroInFlight, Validated
  <2> QED BY <2>1, <2>2
<1>2. CASE disconnect(s)
  <2>1. CASE Owns(s, TRUE)
    BY <1>2, <2>1, EndKeeps DEF disconnect, Owns
  <2>2. CASE ~Owns(s, TRUE)
    <3>1. DropExpired /\ at' = [at EXCEPT ![s] = "closed"] /\ UNCHANGED <<lag, timer, elapsed, last, quiet>>
      BY <1>2, <2>2 DEF disconnect
    <3>2. ZeroInFlight => ZeroInFlight'
      BY <1>2, <3>1 DEF ZeroInFlight, disconnect, IInv, TypeOK
    <3> QED BY <1>2, <3>1, <3>2, DropKeeps DEF disconnect, IInv, TypeOK, States, Validated
  <2> QED BY <2>1, <2>2
<1>3. CASE Connect(s)
  BY <1>3 DEF Connect, IInv, TypeOK, LeaseCoversMoves, ZeroInFlight, Validated
<1>4. CASE FallSilent(s)
  BY <1>4 DEF FallSilent, IInv, TypeOK, LeaseCoversMoves, ZeroInFlight, Validated
<1>5. CASE legacy_stop(s)
  BY <1>5, ZeroKeeps DEF legacy_stop, IInv, TypeOK, States, Validated
<1>6. ASSUME NEW right \in BOOLEAN, heartbeat(s, right)
      PROVE  IInv'
  <2>1. CASE Owns(s, right)
    <3>1. Holder \in {None, s} /\ Grant(s) /\ at[s] = "ready"
      BY <1>6, <2>1 DEF heartbeat, Owns, Renew
    <3>2. at' = [at EXCEPT ![s] = "ready"]
      BY <1>6 DEF heartbeat, IInv, TypeOK
    <3> QED BY <1>6, <3>1, <3>2, GrantKeeps DEF heartbeat
  <2>2. CASE ~Owns(s, right)
    BY <1>6, <2>2, DropKeeps DEF heartbeat, IInv, TypeOK, ZeroInFlight, States, Validated
  <2> QED BY <2>1, <2>2
<1>7. ASSUME NEW right \in BOOLEAN, move(s, right)
      PROVE  IInv'
  <2>1. CASE Owns(s, right)
    BY <1>7, <2>1, GrantKeeps DEF move, Owns, Renew
  <2>2. CASE ~Owns(s, right)
    BY <1>7, <2>2, DropKeeps DEF move, IInv, TypeOK, ZeroInFlight, States, Validated
  <2> QED BY <2>1, <2>2
<1>8. ASSUME NEW right \in BOOLEAN, release(s, right)
      PROVE  IInv'
  <2>1. CASE Owns(s, right)
    BY <1>8, <2>1, EndKeeps DEF release, Owns
  <2>2. CASE ~Owns(s, right)
    BY <1>8, <2>2, DropKeeps DEF release, IInv, TypeOK, ZeroInFlight, States, Validated
  <2> QED BY <2>1, <2>2
<1> QED BY <1>1, <1>2, <1>3, <1>4, <1>5, <1>6, <1>7, <1>8 DEF Request

LEMMA AnswerKeeps ==
  ASSUME IInv, NEW s \in Sessions, Answer(s)
  PROVE  IInv'
<1>1. CASE AnnounceLease(s)
  <2>1. ZeroInFlight => ZeroInFlight'
    BY <1>1 DEF AnnounceLease, ZeroInFlight, IInv, TypeOK
  <2> QED BY <1>1, <2>1, DropKeeps DEF AnnounceLease, IInv, TypeOK, States, Validated
<1>2. CASE publish_twist(s)
  <2>1. s \in Validated /\ Validated' = Validated \ {s}
    BY <1>2 DEF publish_twist, Validated, IInv, TypeOK
  <2>2. lag' \in [Sessions -> Nat] /\ lag'[s] = 0 /\ \A r \in Sessions \ {s} : lag'[r] = lag[r]
    BY <1>2 DEF publish_twist, IInv, TypeOK
  <2>3. TypeOK'
    BY <1>2, SessionAssumption, LeaseTimeAssumption
       DEF publish_twist, DropExpired, Holder, IInv, TypeOK
  <2>4. ASSUME NEW r \in Validated, lag[r] < Timeout
        PROVE  holder' = r /\ left' + lag[r] >= Timeout
    <3>1. holder = r /\ left + lag[r] >= Timeout
      BY <2>4 DEF IInv, LeaseCoversMoves
    <3>2. left # 0
      BY <2>4, <3>1, LeaseTimeAssumption DEF IInv, TypeOK, Validated
    <3> QED BY <1>2, <3>1, <3>2 DEF publish_twist, DropExpired, Holder
  <2>5. \A r \in Validated' : lag'[r] < Timeout => holder' = r /\ left' + lag'[r] >= Timeout
    BY <2>1, <2>2, <2>4 DEF Validated
  <2>6. \A r \in Sessions \ Validated' : lag'[r] = 0
    BY <2>1, <2>2 DEF IInv, LeaseCoversMoves
  <2>7. left' > 0 => holder' # None
    BY <1>2 DEF publish_twist, DropExpired, Holder, IInv, TypeOK, LeaseCoversMoves
  <2>8. ASSUME last' # None, quiet' + MaxLag < Timeout
        PROVE  holder' = last' /\ left' + quiet' + MaxLag >= Timeout
    <3>1. last' = s /\ quiet' = 0 BY <1>2, <2>8 DEF publish_twist
    <3>2. lag[s] \in 0..MaxLag BY DEF IInv, TypeOK
    <3>3. lag[s] < Timeout
      BY <2>8, <3>1, <3>2, LeaseTimeAssumption
    <3>4. holder' = s /\ left' + lag[s] >= Timeout
      BY <2>1, <2>4, <3>3
    <3>5. left' \in Nat /\ lag[s] \in Nat /\ lag[s] <= MaxLag
      BY <2>3, <3>2, LeaseTimeAssumption DEF TypeOK
    <3>6. \A l, g \in Nat : l + g >= Timeout /\ g <= MaxLag => l + 0 + MaxLag >= Timeout
      BY LeaseTimeAssumption
    <3> QED BY <3>1, <3>4, <3>5, <3>6
  <2> QED BY <2>3, <2>5, <2>6, <2>7, <2>8 DEF IInv, LeaseCoversMoves
<1>3. CASE PublishZero(s)
  BY <1>3, ZeroKeeps DEF PublishZero, IInv, TypeOK, States, Validated
<1> QED BY <1>1, <1>2, <1>3 DEF Answer

LEMMA TickKeeps == IInv /\ Tick => IInv'
<1> SUFFICES ASSUME IInv, Tick PROVE IInv'
  OBVIOUS
<1>1. TypeOK'
  <2>1. lag' \in [Sessions -> 0..MaxLag]
    BY LeaseTimeAssumption DEF Tick, IInv, TypeOK, Validated
  <2> QED BY <2>1, LeaseTimeAssumption DEF Tick, IInv, TypeOK
<1>2. Validated' = Validated
  BY DEF Tick, Validated
<1>3. ASSUME NEW s \in Validated, lag'[s] < Timeout
      PROVE  holder' = s /\ left' + lag'[s] >= Timeout
  <2>1. lag'[s] = lag[s] + 1 /\ lag[s] \in 0..MaxLag
    BY DEF Tick, Validated, IInv, TypeOK
  <2>2. lag[s] < Timeout
    BY <1>3, <2>1, LeaseTimeAssumption
  <2>3. holder = s /\ left + lag[s] >= Timeout
    BY <2>2 DEF IInv, LeaseCoversMoves
  <2>4. left' = left - 1 /\ left \in Nat
    BY <2>1, <2>2, <2>3, LeaseTimeAssumption DEF Tick, IInv, TypeOK
  <2> QED BY <2>1, <2>3, <2>4, LeaseTimeAssumption DEF Tick
<1>4. \A s \in Sessions \ Validated : lag'[s] = 0
  BY DEF Tick, IInv, LeaseCoversMoves
<1>5. left' > 0 => holder' # None
  BY DEF Tick, IInv, TypeOK, LeaseCoversMoves
<1>6. ASSUME last' # None, ~ZeroInFlight', quiet' + MaxLag < Timeout
      PROVE  holder' = last' /\ left' + quiet' + MaxLag >= Timeout
  <2>1. ~ZeroInFlight BY <1>6 DEF Tick, ZeroInFlight
  <2>2. quiet + MaxLag < Timeout /\ quiet' = quiet + 1
    BY <1>6, LeaseTimeAssumption DEF Tick, IInv, TypeOK
  <2>3. holder = last /\ left + quiet + MaxLag >= Timeout
    BY <1>6, <2>1, <2>2 DEF Tick, IInv, LeaseCoversMoves
  <2> QED BY <2>2, <2>3, LeaseTimeAssumption DEF Tick, IInv, TypeOK
<1> QED BY <1>1, <1>2, <1>3, <1>4, <1>5, <1>6 DEF IInv, LeaseCoversMoves

LEMMA StepKeepsIInv == IInv /\ [Next]_vars => IInv'
<1> SUFFICES ASSUME IInv, [Next]_vars PROVE IInv'
  OBVIOUS
<1>1. CASE UNCHANGED vars
  BY <1>1 DEF vars, IInv, TypeOK, LeaseCoversMoves, ZeroInFlight, Validated
<1>2. ASSUME NEW s \in Sessions, Request(s) \/ Answer(s) PROVE IInv'
  BY <1>2, RequestKeeps, AnswerKeeps
<1>3. CASE snapshot
  BY <1>3, DropKeeps DEF snapshot, IInv, TypeOK, ZeroInFlight, States, Validated
<1>4. CASE expire_control_lease
  <2>1. timer' \in {"ready", "expired"} /\ elapsed' \in 0..Period
    BY <1>4, LeaseTimeAssumption DEF expire_control_lease
  <2>2. ZeroInFlight => ZeroInFlight'
    BY <1>4 DEF expire_control_lease, ZeroInFlight
  <2> QED BY <1>4, <2>1, <2>2, DropKeeps DEF expire_control_lease, IInv, TypeOK, States, Validated
<1>5. CASE ExpiryZero
  BY <1>5, ZeroKeeps DEF ExpiryZero, IInv, TypeOK, States, Validated
<1>6. CASE Tick BY <1>6, TickKeeps
<1> QED BY <1>1, <1>2, <1>3, <1>4, <1>5, <1>6 DEF Next

THEOREM LeaseInvariant == Spec => []IInv
BY InitIInv, StepKeepsIInv, PTL DEF Spec

\* Two clients never drive at once: a motion command that is younger than the
\* lease time, less the longest time from check to twist, belongs to the
\* session that holds the lease, or a zero twist is on its way (move and
\* publish_twist, the lease checked under the lock of app_server.py and the
\* twist published after it).
THEOREM FreshMoveIsHolders == Spec => []FreshMoveHasHolder
<1>1. IInv => FreshMoveHasHolder
  BY DEF IInv, LeaseCoversMoves, FreshMoveHasHolder
<1> QED BY <1>1, LeaseInvariant, PTL

\* A session keeps a live lease until it gives it up itself: acquire, release
\* and the cleanup after a disconnection check the session.
THEOREM LeaseIsKept == Spec => HolderKeeps
<1>1. ASSUME IInv, [Next]_vars
      PROVE  [\A s \in Sessions : holder = s /\ holder' # s /\ left > 0
                => at'[s] \in {"released", "closing"}]_vars
  <2> SUFFICES ASSUME Next, NEW s \in Sessions, holder = s, holder' # s, left > 0
               PROVE  at'[s] \in {"released", "closing"}
    BY <1>1 DEF vars
  <2>1. Holder = s BY LeaseTimeAssumption, <1>1 DEF Holder, IInv, TypeOK
  <2>2. ~DropExpired BY <2>1 DEF DropExpired
  <2>3. ~UNCHANGED holder OBVIOUS
  <2>4. PICK r \in Sessions : Request(r) \/ Answer(r)
    BY <2>2, <2>3 DEF Next, snapshot, expire_control_lease, ExpiryZero, Tick
  <2>5. Request(r)
    BY <2>2, <2>4 DEF Answer, AnnounceLease, publish_twist, PublishZero
  <2>6. r = s
    BY <2>1, <2>2, <2>3, <2>5, SessionAssumption
       DEF Request, acquire, heartbeat, move, release, disconnect, Connect,
           FallSilent, legacy_stop, Owns, Grant, Renew
  <2>7. \/ disconnect(s)
        \/ \E right \in BOOLEAN : release(s, right)
    BY <2>2, <2>3, <2>5, <2>6
       DEF Request, acquire, heartbeat, move, Connect, FallSilent,
           legacy_stop, Grant, Renew
  <2> QED BY <1>1, <2>2, <2>7 DEF disconnect, release, IInv, TypeOK
<1> QED BY <1>1, LeaseInvariant, PTL DEF Spec, HolderKeeps
=============================================================================
