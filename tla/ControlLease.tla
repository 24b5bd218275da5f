---------------------------- MODULE ControlLease ----------------------------
(***************************************************************************)
(* Manual driving through the app bridge: car_app_bridge/control_lease.py  *)
(* and the teleop part of app_server.py.  One thread per TCP client        *)
(* handles its requests in turn; a timer of the ROS executor expires the   *)
(* lease.  The lease changes under a lock, what follows from the change is *)
(* published after the lock is released: "at" tells what a thread still    *)
(* has to publish.                                                         *)
(*                                                                         *)
(* Every method of ControlLeaseManager first drops a lease that has run    *)
(* out, and only the timer publishes the zero twist that goes with it.     *)
(* Time passes in Tick, at any point of any thread; how long a move may    *)
(* take from the check of its lease to its twist is bounded by MaxLag      *)
(* alone, a bound on the scheduler that the code does not enforce.         *)
(***************************************************************************)
EXTENDS Naturals

CONSTANTS
  Sessions,   \* TCP clients
  None,       \* no session: no lease, or a zero twist
  Timeout,    \* validity of a lease, in ticks
  Period,     \* longest time between two runs of the expiry timer
  MaxLag      \* longest time from the check of a move to its twist

ASSUME SessionAssumption == None \notin Sessions
ASSUME LeaseTimeAssumption ==
  Timeout \in Nat \ {0} /\ Period \in Nat \ {0} /\ MaxLag \in Nat

VARIABLES
  holder,   \* session of the lease
  left,     \* time until it expires; 0 when it has, or without a lease
  at,       \* what the thread of a session is about to publish
  lag,      \* time since the thread has checked the lease of a move
  timer,    \* the same for the expiry timer
  elapsed,  \* time since the timer ran
  last,     \* author of the last twist on /cmd_vel_manual; None: it was zero
  quiet     \* time since it, saturating at Timeout

vars == <<holder, left, at, lag, timer, elapsed, last, quiet>>

Init ==
  /\ holder = None /\ left = 0
  /\ at = [s \in Sessions |-> "ready"] /\ lag = [s \in Sessions |-> 0]
  /\ timer = "ready" /\ elapsed = 0
  /\ last = None /\ quiet = Timeout

-----------------------------------------------------------------------------
(* The lease manager.                                                      *)

\* Who holds the lease once expire(now) has run.
Holder == IF left = 0 THEN None ELSE holder

\* Mutant: any live lease will do.
SomeoneOwns(s, right) == Holder # None

\* _validate and release: the session matches, and so does the lease id.
Owns(s, right) == Holder = s /\ right

Grant(s) == holder' = s /\ left' = Timeout

\* Mutant: a move is checked but does not renew the lease.
LeaveLease(s) == UNCHANGED <<holder, left>>

\* heartbeat, which also validates a move.
Renew(s) == Grant(s)

DropExpired == holder' = Holder /\ UNCHANGED left

End == holder' = None /\ left' = 0

-----------------------------------------------------------------------------
(* Requests of a client.                                                   *)

acquire(s) ==
  /\ at[s] = "ready"
  /\ IF Holder \in {None, s}
     THEN Grant(s) /\ at' = [at EXCEPT ![s] = "acquired"]
     ELSE UNCHANGED <<holder, left, at>>
  /\ UNCHANGED <<lag, timer, elapsed, last, quiet>>

\* set_mode('manual') and the lease event, which drops an expired lease.
AnnounceLease(s) ==
  /\ at[s] = "acquired"
  /\ at' = [at EXCEPT ![s] = "ready"]
  /\ DropExpired
  /\ UNCHANGED <<lag, timer, elapsed, last, quiet>>

\* Also a move whose lease is in order and whose velocity is refused.
heartbeat(s, right) ==
  /\ at[s] = "ready"
  /\ IF Owns(s, right) THEN Renew(s) ELSE DropExpired
  /\ UNCHANGED <<at, lag, timer, elapsed, last, quiet>>

move(s, right) ==
  /\ at[s] = "ready"
  /\ IF Owns(s, right)
     THEN Renew(s) /\ at' = [at EXCEPT ![s] = "validated"]
     ELSE DropExpired /\ UNCHANGED at
  /\ UNCHANGED <<lag, timer, elapsed, last, quiet>>

\* The velocity of a move may be zero; the status sent with it takes a
\* snapshot of the lease.
publish_twist(s) ==
  /\ at[s] = "validated"
  /\ at' = [at EXCEPT ![s] = "ready"] /\ lag' = [lag EXCEPT ![s] = 0]
  /\ last' \in {s, None} /\ quiet' = 0
  /\ DropExpired
  /\ UNCHANGED <<timer, elapsed>>

\* A client that disconnects releases without naming a lease id.
release(s, right) ==
  /\ at[s] = "ready"
  /\ IF Owns(s, right)
     THEN End /\ at' = [at EXCEPT ![s] = "released"]
     ELSE DropExpired /\ UNCHANGED at
  /\ UNCHANGED <<lag, timer, elapsed, last, quiet>>

disconnect(s) ==
  /\ at[s] \in {"ready", "silent"}
  /\ IF Owns(s, TRUE)
     THEN End /\ at' = [at EXCEPT ![s] = "closing"]
     ELSE DropExpired /\ at' = [at EXCEPT ![s] = "closed"]
  /\ UNCHANGED <<lag, timer, elapsed, last, quiet>>

PublishZero(s) ==
  /\ at[s] \in {"released", "closing"}
  /\ at' = [at EXCEPT ![s] = IF at[s] = "closing" THEN "closed" ELSE "ready"]
  /\ last' = None /\ quiet' = 0
  /\ DropExpired
  /\ UNCHANGED <<lag, timer, elapsed>>

\* A new connection is a new session; "closed" sessions are free to be reused.
Connect(s) ==
  /\ at[s] = "closed" /\ at' = [at EXCEPT ![s] = "ready"]
  /\ UNCHANGED <<holder, left, lag, timer, elapsed, last, quiet>>

\* The network loses a client without closing its connection.
FallSilent(s) ==
  /\ at[s] = "ready" /\ at' = [at EXCEPT ![s] = "silent"]
  /\ UNCHANGED <<holder, left, lag, timer, elapsed, last, quiet>>

\* The text command stop, and keyboard clients: a zero twist without a lease.
legacy_stop(s) ==
  /\ at[s] = "ready"
  /\ last' = None /\ quiet' = 0
  /\ DropExpired
  /\ UNCHANGED <<at, lag, timer, elapsed>>

\* Every status request and status broadcast takes a snapshot.
snapshot ==
  /\ DropExpired
  /\ UNCHANGED <<at, lag, timer, elapsed, last, quiet, left>>

-----------------------------------------------------------------------------
(* The expiry timer, and time.                                             *)

\* Mutant: the timer takes no action on a lapsed lease.
IgnoreExpiry ==
  /\ timer = "ready" /\ elapsed > 0 /\ elapsed' = 0
  /\ UNCHANGED <<holder, left, at, lag, timer, last, quiet>>

expire_control_lease ==
  /\ timer = "ready" /\ elapsed > 0 /\ elapsed' = 0
  /\ timer' = IF holder # None /\ left = 0 THEN "expired" ELSE "ready"
  /\ DropExpired
  /\ UNCHANGED <<at, lag, last, quiet>>

ExpiryZero ==
  /\ timer = "expired" /\ timer' = "ready"
  /\ last' = None /\ quiet' = 0
  /\ DropExpired
  /\ UNCHANGED <<at, lag, elapsed>>

Validated == {s \in Sessions : at[s] = "validated"}

Tick ==
  /\ elapsed < Period /\ \A s \in Validated : lag[s] < MaxLag
  /\ elapsed' = elapsed + 1
  /\ lag' = [s \in Sessions |-> IF s \in Validated THEN lag[s] + 1 ELSE lag[s]]
  /\ left' = IF left > 0 THEN left - 1 ELSE 0
  /\ quiet' = IF quiet < Timeout THEN quiet + 1 ELSE Timeout
  /\ UNCHANGED <<holder, at, timer, last>>

Answer(s) == AnnounceLease(s) \/ publish_twist(s) \/ PublishZero(s)

Request(s) ==
  \/ acquire(s) \/ disconnect(s) \/ Connect(s) \/ FallSilent(s)
  \/ legacy_stop(s)
  \/ \E right \in BOOLEAN : heartbeat(s, right) \/ move(s, right) \/ release(s, right)

Next ==
  \/ \E s \in Sessions : Request(s) \/ Answer(s)
  \/ snapshot \/ expire_control_lease \/ ExpiryZero \/ Tick

Spec == Init /\ [][Next]_vars

\* Time passes, the executor runs its timer and threads finish what they do.
FairSpec ==
  /\ Spec /\ WF_vars(Tick) /\ WF_vars(expire_control_lease) /\ WF_vars(ExpiryZero)
  /\ \A s \in Sessions : WF_vars(Answer(s))
-----------------------------------------------------------------------------
(* Properties.                                                             *)

\* Every variable keeps to its range.
TypeOK ==
  /\ holder \in Sessions \cup {None} /\ left \in 0..Timeout
  /\ at \in [Sessions -> {"ready", "acquired", "validated", "released",
                          "closing", "closed", "silent"}]
  /\ lag \in [Sessions -> 0..MaxLag]
  /\ timer \in {"ready", "expired"} /\ elapsed \in 0..Period
  /\ last \in Sessions \cup {None} /\ quiet \in 0..Timeout

\* A thread is about to publish the zero twist of a lease that ended.
ZeroInFlight ==
  timer = "expired" \/ \E s \in Sessions : at[s] \in {"released", "closing"}

\* A motion command younger than the lease time, less the time it may have
\* taken from its check to its publication, belongs to the session that holds
\* the lease, or its zero twist is on the way: two clients never drive at
\* once, and a lapsed lease leaves only commands nearly as old as itself.
FreshMoveHasHolder ==
  last # None /\ quiet + MaxLag < Timeout => holder = last \/ ZeroInFlight

\* A session loses a lease that has not run out only through a request of its
\* own; no other client's release, acquisition or disconnection takes it away.
HolderKeeps ==
  [][\A s \in Sessions : holder = s /\ holder' # s /\ left > 0
       => at'[s] \in {"released", "closing"}]_vars

\* A client that the network has lost loses the lease.
SilentLosesLease ==
  \A s \in Sessions : <>[](at[s] = "silent") => <>[](holder # s)

\* What one would expect of the check: whoever moves the car holds the lease.
\* A thread held up for longer than the lease time between check and twist
\* moves the car after another client has acquired it.
OnlyHolderMoves ==
  [][\A s \in Validated : at'[s] = "ready" /\ last' = s => holder = s]_vars

\* What the protocol document says: when a lease has ended, through whatever
\* call, the last twist published is zero.  A lapsed lease that anything but
\* the timer notices first ends without one.
AtRest == timer = "ready" /\ \A s \in Sessions : at[s] \in {"ready", "silent", "closed"}

ZeroAfterLease == holder = None /\ AtRest => last = None
-----------------------------------------------------------------------------
(* The inductive invariant of the proofs.                                  *)

\* What is left of the lease of a validated move and the time since its check
\* add up to the lease time, and so do, with MaxLag, the age of the last
\* command and what is left of the lease that allowed it.
LeaseCoversMoves ==
  /\ \A s \in Validated : lag[s] < Timeout => holder = s /\ left + lag[s] >= Timeout
  /\ \A s \in Sessions \ Validated : lag[s] = 0
  /\ left > 0 => holder # None
  /\ last # None /\ ~ZeroInFlight /\ quiet + MaxLag < Timeout =>
       holder = last /\ left + quiet + MaxLag >= Timeout

IInv == TypeOK /\ LeaseCoversMoves
=============================================================================
