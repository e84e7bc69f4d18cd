----------------------- MODULE DistributedLockProofs -----------------------
(***************************************************************************)
(* Proofs about DistributedLock for any owners, lease time, clock errors   *)
(* and bound on the clock.                                                 *)
(*                                                                         *)
(* Mutual exclusion is not inductive by itself: nothing in it connects     *)
(* what the owners believe with the row.  The strengthening says that a    *)
(* holder's belief is backed by the row (Backed), and that no clock        *)
(* reading kept in a try_acquire is ahead of the fastest clock             *)
(* (StartedInPast).  An UPDATE that replaces another owner therefore finds *)
(* an expiry that every clock has passed, so that owner holds nothing.     *)
(***************************************************************************)
EXTENDS DistributedLock, TLAPS

\* A clock reading is never later than the fastest clock shows now.
StartedInPast == \A o \in Owners : started[o] <= now + MaxSkew

\* Who holds an unexpired lock is named by the row, with the same expiry.
Backed ==
    \A o \in Owners : Holds(o) => rowOwner = o /\ rowExpires = until[o]

IInv == TypeOK /\ StartedInPast /\ Backed /\ BoundedOrphan

----------------------------------------------------------------------------
\* Every variable keeps its type: the clock and the expiries stay natural
\* numbers and the row names an owner or nobody (Init, Next of the module).
THEOREM TypeCorrect == Spec => []TypeOK
<1>1. Init => TypeOK
  BY LockAssumption DEF Init, TypeOK
<1>2. TypeOK /\ [Next]_vars => TypeOK'
  <2> SUFFICES ASSUME TypeOK, [Next]_vars PROVE TypeOK'
    OBVIOUS
  <2> USE LockAssumption DEF TypeOK
  <2>1. CASE Tick
    BY <2>1 DEF Tick
  <2>2. ASSUME NEW o \in Owners, TryAcquire(o) PROVE TypeOK'
    <3>1. CASE Begin(o)
      <4>1. Skew[o] \in Nat
        OBVIOUS
      <4>2. now + Skew[o] \in Nat
        BY <4>1
      <4> QED BY <3>1, <4>2 DEF Begin
    <3>2. CASE Inserted(o)
      BY <3>2 DEF Inserted, Grant, Expiry, Return
    <3>3. CASE InsertRejected(o)
      BY <3>3 DEF InsertRejected
    <3>4. CASE Updated(o)
      BY <3>4 DEF Updated, Grant, Expiry, Return
    <3>5. CASE Refused(o)
      BY <3>5 DEF Refused, Drop, Return
    <3> QED BY <2>2, <3>1, <3>2, <3>3, <3>4, <3>5 DEF TryAcquire
  <2>3. ASSUME NEW o \in Owners, Release(o) PROVE TypeOK'
    BY <2>3 DEF Release, Deletable, Drop
  <2>4. ASSUME NEW o \in Owners, Crash(o) PROVE TypeOK'
    BY <2>4 DEF Crash, Drop
  <2>5. CASE UNCHANGED vars
    BY <2>5 DEF vars
  <2> QED BY <2>1, <2>2, <2>3, <2>4, <2>5 DEF Next
<1> QED BY <1>1, <1>2, PTL DEF Spec

\* The inductive invariant: beliefs are backed by the row, and readings and
\* expiries are bounded by the clocks.
THEOREM Inductive == Spec => []IInv
<1>1. Init => IInv
  BY LockAssumption
     DEF Init, IInv, TypeOK, StartedInPast, Backed, BoundedOrphan, Holds
<1>2. IInv /\ TypeOK' /\ [Next]_vars => IInv'
  <2> SUFFICES ASSUME IInv, TypeOK', [Next]_vars
               PROVE  StartedInPast' /\ Backed' /\ BoundedOrphan'
    BY DEF IInv
  <2> USE LockAssumption
      DEF IInv, TypeOK, StartedInPast, Backed, BoundedOrphan, Holds
  <2>1. CASE Tick
    BY <2>1 DEF Tick
  <2>2. ASSUME NEW o \in Owners, Begin(o)
        PROVE  StartedInPast' /\ Backed' /\ BoundedOrphan'
    <3>1. Skew[o] \in 0..MaxSkew
      OBVIOUS
    <3>2. StartedInPast'
      BY <2>2, <3>1 DEF Begin
    <3>3. Backed' /\ BoundedOrphan'
      BY <2>2 DEF Begin
    <3> QED BY <3>2, <3>3
  <2>3. ASSUME NEW o \in Owners, Grant(o), UNCHANGED now,
               rowOwner \in {NoOwner, o} \/ rowExpires < started[o]
        PROVE  StartedInPast' /\ Backed' /\ BoundedOrphan'
    <3>1. StartedInPast'
      BY <2>3 DEF Grant, Expiry, Return
    <3>2. ASSUME NEW p \in Owners, Holds(p)'
          PROVE  rowOwner' = p /\ rowExpires' = until'[p]
      <4>1. CASE p = o
        BY <2>3, <4>1 DEF Grant, Expiry
      <4>2. CASE p # o
        <5>1. Holds(p)
          BY <2>3, <3>2, <4>2 DEF Grant, Expiry
        <5>2. rowOwner = p /\ now + MaxSkew <= rowExpires
          BY <5>1
        <5>3. rowExpires < started[o]
          BY <2>3, <4>2, <5>2
        <5> QED BY <5>2, <5>3
      <4> QED BY <4>1, <4>2
    <3>3. BoundedOrphan'
      BY <2>3 DEF Grant, Expiry
    <3> QED BY <3>1, <3>2, <3>3
  <2>4. ASSUME NEW o \in Owners, Inserted(o)
        PROVE  StartedInPast' /\ Backed' /\ BoundedOrphan'
    BY <2>3, <2>4 DEF Inserted
  <2>5. ASSUME NEW o \in Owners, InsertRejected(o)
        PROVE  StartedInPast' /\ Backed' /\ BoundedOrphan'
    BY <2>5 DEF InsertRejected
  <2>6. ASSUME NEW o \in Owners, Updated(o)
        PROVE  StartedInPast' /\ Backed' /\ BoundedOrphan'
    BY <2>3, <2>6 DEF Updated, Updatable
  <2>7. ASSUME NEW o \in Owners, Drop(o), UNCHANGED now,
               started' = [started EXCEPT ![o] = 0] \/ UNCHANGED started,
               \/ UNCHANGED <<rowOwner, rowExpires>>
               \/ rowOwner = o /\ rowOwner' = NoOwner
        PROVE  StartedInPast' /\ Backed' /\ BoundedOrphan'
    <3>1. StartedInPast'
      BY <2>7
    <3>2. ASSUME NEW p \in Owners, Holds(p)'
          PROVE  rowOwner' = p /\ rowExpires' = until'[p]
      <4>1. p # o
        BY <2>7, <3>2 DEF Drop
      <4>2. Holds(p) /\ until'[p] = until[p]
        BY <2>7, <3>2, <4>1 DEF Drop
      <4> QED BY <2>7, <4>1, <4>2
    <3>3. BoundedOrphan'
      BY <2>7
    <3> QED BY <3>1, <3>2, <3>3
  <2>8. ASSUME NEW o \in Owners, Refused(o) \/ Release(o) \/ Crash(o)
        PROVE  StartedInPast' /\ Backed' /\ BoundedOrphan'
    BY <2>7, <2>8 DEF Refused, Return, Release, Deletable, Crash
  <2>9. CASE UNCHANGED vars
    BY <2>9 DEF vars
  <2> QED
    BY <2>1, <2>2, <2>4, <2>5, <2>6, <2>8, <2>9 DEF Next, TryAcquire
<1> QED BY <1>1, <1>2, TypeCorrect, PTL DEF Spec

----------------------------------------------------------------------------
\* At most one owner holds an unexpired lock, however the INSERTs, UPDATEs,
\* renewals, releases and crashes of all owners interleave.
THEOREM Exclusive == Spec => []MutualExclusion
<1>1. IInv => MutualExclusion
  BY DEF IInv, Backed, MutualExclusion
<1> QED BY <1>1, Inductive, PTL

\* No row outlives the clock by more than one TTL and the clock error.
THEOREM OrphanExpires == Spec => []BoundedOrphan
<1>1. IInv => BoundedOrphan
  BY DEF IInv
<1> QED BY <1>1, Inductive, PTL

\* A row is deleted only by the owner it names, who thereby stops holding.
THEOREM ReleaseIsOwn == Spec => OnlyOwnerReleases
<1>1. TypeOK /\ [Next]_vars
      => [rowOwner # NoOwner /\ rowOwner' = NoOwner
            => held[rowOwner] /\ ~held'[rowOwner]]_vars
  <2> SUFFICES ASSUME TypeOK, [Next]_vars,
                      rowOwner # NoOwner, rowOwner' = NoOwner
               PROVE  held[rowOwner] /\ ~held'[rowOwner]
    OBVIOUS
  <2> USE LockAssumption DEF TypeOK
  <2>1. PICK o \in Owners : Release(o)
    BY DEF Next, vars, Tick, TryAcquire, Begin, Inserted, InsertRejected,
           Updated, Refused, Grant, Crash
  <2> QED BY <2>1 DEF Release, Deletable, Drop
<1> QED BY <1>1, TypeCorrect, PTL DEF Spec, OnlyOwnerReleases

\* The lock implements the lease: every step starts one tenure, ends one, or
\* leaves the valid holder alone.
THEOREM Refinement == Spec => ImplementsLease
<1> DEFINE Valid == rowOwner # NoOwner /\ now + MaxSkew <= rowExpires
           h == IF Valid THEN rowOwner ELSE NoOwner
<1>1. Init => AbstractLease!Init
  BY DEF Init, AbstractLease!Init
<1>2. IInv /\ TypeOK' /\ [Next]_vars => [AbstractLease!Next]_h
  <2> SUFFICES ASSUME IInv, TypeOK', [Next]_vars, h' # h
               PROVE  AbstractLease!Next
    OBVIOUS
  <2> USE LockAssumption DEF IInv, TypeOK
  <2>1. ASSUME h' = NoOwner PROVE AbstractLease!Next
    BY <2>1 DEF AbstractLease!Next, AbstractLease!Lose
  <2>2. ASSUME NEW o \in Owners, Grant(o), UNCHANGED now,
               rowOwner \in {NoOwner, o} \/ rowExpires < started[o]
        PROVE  AbstractLease!Next
    <3>1. h' \in {o, NoOwner}
      BY <2>2 DEF Grant, Expiry
    <3>2. h \in {o, NoOwner}
      BY <2>2 DEF StartedInPast
    <3> QED
      BY <2>1, <3>1, <3>2 DEF AbstractLease!Next, AbstractLease!Acquire
  <2>3. CASE \E o \in Owners : Inserted(o) \/ Updated(o)
    BY <2>2, <2>3 DEF Inserted, Updated, Updatable
  <2>4. CASE Tick
    <3>1. h' = NoOwner
      BY <2>4 DEF Tick
    <3> QED BY <2>1, <3>1
  <2>5. CASE \E o \in Owners : Release(o)
    <3>1. h' = NoOwner
      BY <2>5 DEF Release, Deletable
    <3> QED BY <2>1, <3>1
  <2>6. CASE \/ UNCHANGED vars
             \/ \E o \in Owners : \/ Begin(o) \/ InsertRejected(o)
                                  \/ Refused(o) \/ Crash(o)
    BY <2>6 DEF vars, Begin, InsertRejected, Refused, Crash
  <2> QED BY <2>3, <2>4, <2>5, <2>6 DEF Next, TryAcquire
<1> QED
  BY <1>1, <1>2, Inductive, TypeCorrect, PTL
  DEF Spec, ImplementsLease, AbstractLease!Spec
=============================================================================
