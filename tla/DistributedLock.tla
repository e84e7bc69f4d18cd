-------------------------- MODULE DistributedLock --------------------------
(***************************************************************************)
(* services/distributed_lock.py: a lock with a time to live, kept as one   *)
(* row of the table runtime_locks.  The worker uses it twice: as leader    *)
(* lease (the owner is the worker's id, the lease is renewed every few     *)
(* seconds) and as crawl lock (a new owner id for every acquisition).      *)
(*                                                                         *)
(* The row is two columns, rowOwner and rowExpires; rowOwner = NoOwner     *)
(* stands for "no such row".  A database statement with its commit is one  *)
(* step, so an acquisition takes up to three: reading the clock, the       *)
(* INSERT, and the UPDATE that is tried when the row was already there.    *)
(* Everybody else, and the clock, may move between them.                   *)
(*                                                                         *)
(* Each owner reads the clock of its own host: now + Skew[o].              *)
(***************************************************************************)
EXTENDS Integers

CONSTANTS Owners,    \* identities (uuid4().hex) that use the lock
          NoOwner,   \* the absent row
          TTL,       \* ttl_seconds
          MaxSkew,   \* how far two hosts' clocks may differ
          Skew,      \* [Owners -> 0..MaxSkew], the error of each owner's clock
          MaxTime    \* bound on the clock

ASSUME LockAssumption ==
    /\ NoOwner \notin Owners
    /\ TTL \in Nat
    /\ MaxSkew \in Nat
    /\ Skew \in [Owners -> 0..MaxSkew]
    /\ MaxTime \in Nat

VARIABLES now,         \* real time
          rowOwner,    \* column owner, or NoOwner when there is no row
          rowExpires,  \* column expires_at, 0 when there is no row
          pc,          \* where each owner's try_acquire is
          started,     \* the local `now` of a try_acquire under way, else 0
          held,        \* what the last try_acquire told the caller
          until        \* the expires_at it was granted, 0 when it holds nothing

vars == <<now, rowOwner, rowExpires, pc, started, held, until>>

TypeOK ==
    /\ now \in Nat
    /\ rowOwner \in Owners \cup {NoOwner}
    /\ rowExpires \in Nat
    /\ pc \in [Owners -> {"idle", "insert", "update", "dead"}]
    /\ started \in [Owners -> Nat]
    /\ held \in [Owners -> BOOLEAN]
    /\ until \in [Owners -> Nat]

Init ==
    /\ now = 0
    /\ rowOwner = NoOwner
    /\ rowExpires = 0
    /\ pc = [o \in Owners |-> "idle"]
    /\ started = [o \in Owners |-> 0]
    /\ held = [o \in Owners |-> FALSE]
    /\ until = [o \in Owners |-> 0]

----------------------------------------------------------------------------
(* try_acquire *)

\* now = utc_now(); expires_at = now + ttl
Begin(o) ==
    /\ pc[o] = "idle"
    /\ pc' = [pc EXCEPT ![o] = "insert"]
    /\ started' = [started EXCEPT ![o] = now + Skew[o]]
    /\ UNCHANGED <<now, rowOwner, rowExpires, held, until>>

\* The locals of try_acquire end with it.
Return(o) ==
    /\ pc' = [pc EXCEPT ![o] = "idle"]
    /\ started' = [started EXCEPT ![o] = 0]

\* The caller holds nothing.
Drop(o) ==
    /\ held' = [held EXCEPT ![o] = FALSE]
    /\ until' = [until EXCEPT ![o] = 0]

\* expires_at = now + timedelta(seconds=ttl_seconds), from the own reading,
\* which may be old by now.
ExpiryExtended(o) == rowExpires + started[o] + TTL  \* a mutation: added up
Expiry(o) == started[o] + TTL

Grant(o) ==
    /\ rowOwner' = o
    /\ rowExpires' = Expiry(o)
    /\ until' = [until EXCEPT ![o] = Expiry(o)]
    /\ held' = [held EXCEPT ![o] = TRUE]
    /\ Return(o)

Inserted(o) ==
    /\ pc[o] = "insert"
    /\ rowOwner = NoOwner
    /\ Grant(o)
    /\ UNCHANGED now

\* IntegrityError: the name is taken.
InsertRejected(o) ==
    /\ pc[o] = "insert"
    /\ rowOwner # NoOwner
    /\ pc' = [pc EXCEPT ![o] = "update"]
    /\ UNCHANGED <<now, rowOwner, rowExpires, started, held, until>>

\* Mutations: <= for <; no takeover.
UpdatableAtExpiry(o) ==
    rowOwner # NoOwner /\ (rowOwner = o \/ rowExpires <= started[o])
UpdatableOwn(o) == rowOwner = o

\* The WHERE clause of the UPDATE.
Updatable(o) ==
    /\ rowOwner # NoOwner
    /\ rowOwner = o \/ rowExpires < started[o]

Updated(o) ==
    /\ pc[o] = "update"
    /\ Updatable(o)
    /\ Grant(o)
    /\ UNCHANGED now

\* rowcount = 0: held by another owner, or released since the INSERT failed.
Refused(o) ==
    /\ pc[o] = "update"
    /\ ~Updatable(o)
    /\ Drop(o)
    /\ Return(o)
    /\ UNCHANGED <<now, rowOwner, rowExpires>>

----------------------------------------------------------------------------
\* The WHERE clause of the DELETE.
DeletableByName(o) == o # NoOwner  \* a mutation: without the owner
Deletable(o) == rowOwner = o

\* Only a caller that was granted the lock
\* releases it; the shutdown of a worker may do so while the same owner's
\* try_acquire is under way in the scheduler's thread.
Release(o) ==
    /\ pc[o] # "dead"
    /\ held[o]
    /\ rowOwner' = IF Deletable(o) THEN NoOwner ELSE rowOwner
    /\ rowExpires' = IF Deletable(o) THEN 0 ELSE rowExpires
    /\ Drop(o)
    /\ UNCHANGED <<now, pc, started>>

\* The process dies; its row stays, and its identity is never used again.
Crash(o) ==
    /\ pc[o] # "dead"
    /\ pc' = [pc EXCEPT ![o] = "dead"]
    /\ started' = [started EXCEPT ![o] = 0]
    /\ Drop(o)
    /\ UNCHANGED <<now, rowOwner, rowExpires>>

Tick ==
    /\ now < MaxTime
    /\ now' = now + 1
    /\ UNCHANGED <<rowOwner, rowExpires, pc, started, held, until>>

TryAcquire(o) ==
    Begin(o) \/ Inserted(o) \/ InsertRejected(o) \/ Updated(o) \/ Refused(o)

Next == Tick \/ \E o \in Owners : TryAcquire(o) \/ Release(o) \/ Crash(o)

Spec == Init /\ [][Next]_vars

\* The sync job calls try_acquire again and again as long as its process
\* lives, and time passes.
FairSpec ==
    /\ Spec
    /\ WF_vars(Tick)
    /\ \A o \in Owners : WF_vars(TryAcquire(o))

----------------------------------------------------------------------------
(* What the lock is for *)

\* o was told it holds the lock, and no clock in the system has passed the
\* expiry it wrote.
Holds(o) == held[o] /\ now + MaxSkew <= until[o]

\* Two owners never both hold an unexpired lock, although each decides with
\* a clock reading that may be arbitrarily old when its UPDATE runs.
MutualExclusion == \A o, p \in Owners : Holds(o) /\ Holds(p) => o = p

\* A lock left behind by a dead process expires no later than one TTL (plus
\* the clock error) from now: nothing ever locks the others out for longer.
BoundedOrphan == rowOwner # NoOwner => rowExpires <= now + MaxSkew + TTL

\* The row goes away only when the owner it names gives it up; a holder that
\* lost its lease and releases late does not delete its successor's row.
OnlyOwnerReleases ==
    [][rowOwner # NoOwner /\ rowOwner' = NoOwner
         => held[rowOwner] /\ ~held'[rowOwner]]_vars

\* The lock is a lease: whoever is valid stays so until it expires or is
\* given up, and a successor is never installed over a valid holder.
AbstractLease == INSTANCE Lease WITH
    holder <- IF rowOwner # NoOwner /\ now + MaxSkew <= rowExpires
              THEN rowOwner ELSE NoOwner

ImplementsLease == AbstractLease!Spec

\* The lock of a process that died is taken over as long as anybody is left
\* to try.  (The premise leaves the clock enough room before MaxTime.)
TakenOver ==
    \A o \in Owners :
        /\ rowOwner = o
        /\ pc[o] = "dead"
        /\ now + TTL + MaxSkew < MaxTime
        ~> \/ rowOwner # o
           \/ \A p \in Owners : pc[p] = "dead"
=============================================================================
