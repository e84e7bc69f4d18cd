------------------------- MODULE PushDeliveryProofs -------------------------
(***************************************************************************)
(* Proofs about PushDelivery for any users, devices and matches, and any   *)
(* bound on faults.                                                        *)
(*                                                                         *)
(* Three things a run has in its hands carry the proofs.  Its rows: a      *)
(* subscription it has touched is still there unless it is in `gone`       *)
(* (Rows), so that a commit never disables a row that does not exist.  Its *)
(* successes: what it is going to mark the push service has accepted       *)
(* (Earned).  And, as long as nothing was lost, its record is complete:    *)
(* whatever was accepted is marked or is going to be, and nothing that is  *)
(* still to be sent was accepted for that device before (Complete).        *)
(***************************************************************************)
EXTENDS PushDelivery, TLAPS

\* Between its steps a run has in its hands only what its place says.
Hands ==
    /\ pc = "idle" => targets = Nowhere /\ marks = {} /\ touched = {} /\ gone = {}
    /\ pc # "send" => batch = {} /\ left = {} /\ success = FALSE

Rows ==
    /\ \A e \in left \cup touched : targets[e] # None
    /\ \A e \in Endpoints : targets[e] # None /\ e \notin gone => device[e] # None

WasAccepted(m) == \E e \in Endpoints : <<m, e>> \in accepted

Earned ==
    /\ \A m \in marks : WasAccepted(m)
    /\ success => \A m \in batch : WasAccepted(m)

DeadAreDead == dead \cap alive = {}

Complete ==
    /\ \A m \in marks \cup batch : OwnerOf[m] \notin visit
    /\ ~repeated
    /\ ~upset =>
          /\ \A s \in accepted :
                s[1] \in pushed \cup marks \cup (IF success THEN batch ELSE {})
          /\ (batch \X left) \cap accepted = {}

TInv == TypeOK /\ Hands /\ Rows

----------------------------------------------------------------------------
LEMMA InitTInv == Init => TInv
<1> SUFFICES ASSUME Init PROVE TInv
  OBVIOUS
<1> USE PushAssumption DEF Init
<1>1. 0 \in 0..MaxFaults /\ 0 \in 0..MaxMatches
  OBVIOUS
<1>2. TypeOK
  BY <1>1, Zenon DEF TypeOK, Nowhere, Arrived
<1>3. Hands /\ Rows
  BY DEF Hands, Rows, Nowhere
<1> QED BY <1>2, <1>3 DEF TInv

\* The steps of a run.
LEMMA RunTInv == TInv /\ (Begin \/ RunWork) => TInv'
<1> SUFFICES ASSUME TInv, Begin \/ RunWork PROVE TInv'
  OBVIOUS
<1> USE PushAssumption DEF TInv, TypeOK, Hands, Rows, Nowhere, db, history, Arrived
<1>1. CASE Begin
  BY <1>1 DEF Begin, EnabledOf
<1>2. ASSUME NEW u \in Users, SkipUser(u) PROVE TInv'
  BY <1>2 DEF SkipUser
<1>3. ASSUME NEW u \in Users, TakeUser(u) PROVE TInv'
  BY <1>3 DEF TakeUser, Pending
<1>4. ASSUME NEW e \in Endpoints, SendOk(e) PROVE TInv'
  BY <1>4 DEF SendOk, Sent, Accept
<1>5. ASSUME NEW e \in Endpoints, SendDead(e) PROVE TInv'
  BY <1>5 DEF SendDead, Sent
<1>6. CASE EndUser
  BY <1>6 DEF EndUser, Delivered
<1>7. CASE Commit
  BY <1>7 DEF Commit, Disable, Forget
<1>8. CASE CommitRefused
  BY <1>8 DEF CommitRefused, Forget
<1> QED BY <1>1, <1>2, <1>3, <1>4, <1>5, <1>6, <1>7, <1>8 DEF RunWork

\* All other steps.
LEMMA OtherTInv == TInv /\ [Next]_vars /\ ~(Begin \/ RunWork) => TInv'
<1> SUFFICES ASSUME TInv, [Next]_vars, ~(Begin \/ RunWork) PROVE TInv'
  OBVIOUS
<1> USE PushAssumption DEF TInv, TypeOK, Hands, Rows, Nowhere, db, history, local,
                           Arrived
<1>0. ASSUME faults < MaxFaults PROVE faults + 1 \in 0..MaxFaults
  BY <1>0
<1>1. CASE Crash
  <2>1. TypeOK'
    BY <1>0, <1>1 DEF Crash, Forget
  <2>2. Hands' /\ Rows'
    BY <1>1 DEF Crash, Forget
  <2> QED BY <2>1, <2>2
<1>2. ASSUME NEW e \in Endpoints, SendFails(e) PROVE TInv'
  <2>1. TypeOK'
    BY <1>0, <1>2 DEF SendFails, Sent, Accept
  <2>2. Hands' /\ Rows'
    BY <1>2 DEF SendFails, Sent
  <2> QED BY <2>1, <2>2
<1>3. ASSUME NEW e \in Endpoints, SaveCommit(e) PROVE TInv'
  <2>1. saving[e].user \in Users
    BY <1>3 DEF SaveCommit
  <2>2. device' \in [Endpoints -> {None} \cup [user : Users, enabled : BOOLEAN]]
    BY <1>3, <2>1 DEF SaveCommit
  <2>3. TypeOK'
    BY <1>3, <2>1, <2>2 DEF SaveCommit
  <2>4. \A f \in Endpoints : device[f] # None => device'[f] # None
    <3>1. [user |-> saving[e].user, enabled |-> TRUE]
             \in [user : Users, enabled : BOOLEAN]
      BY <2>1
    <3>2. device' = [device EXCEPT ![e] = [user |-> saving[e].user, enabled |-> TRUE]]
      BY <1>3 DEF SaveCommit
    <3> QED BY <3>1, <3>2
  <2>5. Hands' /\ Rows'
    BY <1>3, <2>4 DEF SaveCommit
  <2> QED BY <2>3, <2>5
<1>4. ASSUME NEW e \in Endpoints, SaveRefused(e) PROVE TInv'
  BY <1>4 DEF SaveRefused
<1>5. ASSUME NEW e \in Endpoints, Remove(e) PROVE TInv'
  BY <1>5 DEF Remove
<1>6. ASSUME NEW e \in Endpoints, Expire(e) PROVE TInv'
  BY <1>6 DEF Expire
<1>7. ASSUME NEW e \in Endpoints, NEW u \in Users, SaveRead(u, e) PROVE TInv'
  BY <1>7 DEF SaveRead
<1>8. CASE Arrive
  BY <1>8 DEF Arrive
<1>9. ASSUME NEW u \in Users, TestPush(u) PROVE TInv'
  <2>1. PICK found \in SUBSET {e \in Endpoints \ alive : EnabledOf({u})[e] = u} :
           Disable(found)
    BY <1>9 DEF TestPush
  <2>2. \A e \in found : device[e] # None
    BY DEF EnabledOf
  <2>3. ASSUME NEW e \in found
        PROVE  [device[e] EXCEPT !.enabled = FALSE] \in [user : Users, enabled : BOOLEAN]
    <3>1. device[e] \in [user : Users, enabled : BOOLEAN]
      BY <2>2
    <3> QED BY <3>1
  <2>4. /\ device' \in [Endpoints -> {None} \cup [user : Users, enabled : BOOLEAN]]
        /\ \A e \in Endpoints : device[e] # None => device'[e] # None
    BY <2>1, <2>3 DEF Disable
  <2> QED BY <1>9, <2>4 DEF TestPush
<1>10. ASSUME NEW u \in Users, ToggleRules(u) PROVE TInv'
  BY <1>10 DEF ToggleRules
<1>11. CASE UNCHANGED vars
  BY <1>11 DEF vars
<1> QED BY <1>1, <1>2, <1>3, <1>4, <1>5, <1>6, <1>7, <1>8, <1>9, <1>10, <1>11
        DEF Next

\* Every variable keeps its type.  For the commit this needs that the rows it
\* disables exist (UPDATE push_subscriptions).
THEOREM TypeCorrect == Spec => []TypeOK
<1>1. TInv /\ [Next]_vars => TInv'
  BY RunTInv, OtherTInv
<1>2. TInv => TypeOK
  BY DEF TInv
<1> QED BY InitTInv, <1>1, <1>2, PTL DEF Spec

\* With the types: a run has something in its hands only where its place says
\* so, and every row it has touched is there or counted as gone.
THEOREM RowsCorrect == Spec => []TInv
<1>1. TInv /\ [Next]_vars => TInv'
  BY RunTInv, OtherTInv
<1> QED BY InitTInv, <1>1, PTL DEF Spec

----------------------------------------------------------------------------
\* What a run has earned, it has earned by an accepted notification, and
\* accepted notifications are never taken back.
LEMMA EarnedAndAccepted == Spec => [](Earned /\ PushedWasAccepted)
<1> DEFINE Inv == Earned /\ PushedWasAccepted
<1>1. Init => Inv
  BY DEF Init, Earned, PushedWasAccepted
<1>2. TInv /\ Inv /\ [Next]_vars => Inv'
  <2> SUFFICES ASSUME TInv, Inv, [Next]_vars PROVE Inv'
    OBVIOUS
  <2> USE DEF db, history
  <2>1. accepted \subseteq accepted' /\ baseline \subseteq baseline'
    BY DEF Next, RunWork, vars, local, Begin, SkipUser, TakeUser, SendOk, SendDead,
           SendFails, Sent, Accept, EndUser, Commit, CommitRefused, Crash,
           SaveCommit, SaveRefused, SaveRead, Remove, Expire, Arrive, TestPush,
           ToggleRules
  <2>2. \A m : WasAccepted(m) => \E e \in Endpoints : <<m, e>> \in accepted'
    BY <2>1 DEF WasAccepted
  <2>3. ASSUME marks' \subseteq marks, batch' = batch, success' = success,
               pushed' \subseteq pushed \cup marks \cup baseline'
        PROVE  Inv'
    BY <2>1, <2>2, <2>3 DEF Earned, PushedWasAccepted, WasAccepted
  <2>4. ASSUME NEW u \in Users, TakeUser(u) PROVE Inv'
    BY <2>4 DEF TInv, Hands, TakeUser, Earned, PushedWasAccepted, WasAccepted
  <2>5. ASSUME NEW e \in Endpoints, SendOk(e) PROVE Inv'
    <3>1. \A m \in batch : <<m, e>> \in accepted'
      BY <2>5 DEF SendOk, Accept
    <3> QED BY <2>2, <2>5, <3>1 DEF SendOk, Earned, PushedWasAccepted, WasAccepted
  <2>6. CASE EndUser
    BY <2>6 DEF EndUser, Delivered, Earned, PushedWasAccepted, WasAccepted
  <2>7. CASE Commit \/ CommitRefused \/ Crash
    <3>1. marks' = {} /\ success' = FALSE
      BY <2>7 DEF Commit, CommitRefused, Crash, Forget
    <3>2. pushed' \subseteq pushed \cup marks
      BY <2>7 DEF Commit, CommitRefused, Crash
    <3> QED BY <2>1, <2>2, <3>1, <3>2 DEF Earned, PushedWasAccepted, WasAccepted
  <2>8. CASE Begin \/ Arrive \/ UNCHANGED vars
    BY <2>3, <2>8 DEF Begin, Arrive, local, vars
  <2>9. ASSUME NEW u \in Users, SkipUser(u) \/ TestPush(u) \/ ToggleRules(u)
        PROVE  Inv'
    BY <2>3, <2>9 DEF SkipUser, TestPush, ToggleRules, local
  <2>10. ASSUME NEW e \in Endpoints,
                SendDead(e) \/ SendFails(e) \/ SaveRefused(e) \/ Remove(e) \/ Expire(e)
                \/ \E u \in Users : SaveRead(u, e)
         PROVE  Inv'
    BY <2>3, <2>10 DEF SendDead, SendFails, Sent, SaveRefused, Remove, Expire,
                       SaveRead, local
  <2>11. ASSUME NEW e \in Endpoints, SaveCommit(e) PROVE Inv'
    BY <2>3, <2>11 DEF SaveCommit, local
  <2> QED BY <2>4, <2>5, <2>6, <2>7, <2>8, <2>9, <2>10, <2>11 DEF Next, RunWork
<1> QED BY <1>1, <1>2, RowsCorrect, PTL DEF Spec

\* What is marked the push service has accepted for some device, or an
\* activation has set aside: nothing is marked in passing, neither what arrives
\* while a run is sending nor what a failed or refused run had in hand.
THEOREM MarkedWasAccepted == Spec => []PushedWasAccepted
BY EarnedAndAccepted, PTL

\* A live device is never switched off: whoever is found dead stays dead, also
\* between the answer of the push service and the commit.
THEOREM LiveStaysOn == Spec => []DisabledIsDead
<1> DEFINE Inv == DeadAreDead /\ DisabledIsDead
<1>1. Init => Inv
  BY DEF Init, DeadAreDead, DisabledIsDead
<1>2. TInv /\ Inv /\ [Next]_vars => Inv'
  <2> SUFFICES ASSUME TInv, Inv, [Next]_vars PROVE Inv'
    OBVIOUS
  <2> USE DEF db, local
  <2>1. ASSUME alive' = alive, dead' \subseteq dead \cup (Endpoints \ alive),
               device' = device
        PROVE  Inv'
    BY <2>1 DEF DeadAreDead, DisabledIsDead
  <2>2. ASSUME NEW u \in Users,
               SkipUser(u) \/ TakeUser(u) \/ ToggleRules(u)
        PROVE  Inv'
    BY <2>1, <2>2 DEF SkipUser, TakeUser, ToggleRules
  <2>3. ASSUME NEW e \in Endpoints,
               SendOk(e) \/ SendDead(e) \/ SendFails(e) \/ SaveRefused(e)
               \/ \E u \in Users : SaveRead(u, e)
        PROVE  Inv'
    BY <2>1, <2>3 DEF SendOk, SendDead, SendFails, SaveRefused, SaveRead
  <2>4. CASE Begin \/ EndUser \/ CommitRefused \/ Crash \/ Arrive
             \/ UNCHANGED vars
    BY <2>1, <2>4 DEF Begin, EndUser, CommitRefused, Crash, Forget, Arrive,
                      vars
  <2>5. CASE Commit
    BY <2>5 DEF Commit, Disable, Forget, DeadAreDead, DisabledIsDead
  <2>6. ASSUME NEW u \in Users, TestPush(u) PROVE Inv'
    BY <2>6 DEF TestPush, Disable, DeadAreDead, DisabledIsDead
  <2>7. ASSUME NEW e \in Endpoints, SaveCommit(e) PROVE Inv'
    <3>1. \A f \in Endpoints : device'[f] # None /\ ~device'[f].enabled
                                 => device'[f] = device[f]
      BY <2>7 DEF SaveCommit, TInv, TypeOK
    <3> QED BY <2>7, <3>1 DEF SaveCommit, DeadAreDead, DisabledIsDead
  <2>8. ASSUME NEW e \in Endpoints, Remove(e) PROVE Inv'
    BY <2>8 DEF Remove, DeadAreDead, DisabledIsDead, TInv, TypeOK
  <2>9. ASSUME NEW e \in Endpoints, Expire(e) PROVE Inv'
    BY <2>9 DEF Expire, DeadAreDead, DisabledIsDead
  <2> QED BY <2>2, <2>3, <2>4, <2>5, <2>6, <2>7, <2>8, <2>9 DEF Next, RunWork
<1> QED BY <1>1, <1>2, RowsCorrect, PTL DEF Spec

\* Unless a run lost its marks, or could not know of an acceptance, nothing is
\* sent to a device twice: marks of earlier runs, of earlier users of this run
\* and of earlier devices of this user are all accounted for.
THEOREM NotRepeated == Spec => []AcceptedOnce
<1>1. Init => Complete
  BY DEF Init, Complete
<1>2. TInv /\ Complete /\ [Next]_vars => Complete'
  <2> SUFFICES ASSUME TInv, Complete, [Next]_vars PROVE Complete'
    OBVIOUS
  <2> USE DEF db, local
  \* Steps that deliver nothing and leave the run's account alone.
  <2>1. ASSUME UNCHANGED <<accepted, repeated, upset, marks, batch, success>>,
               pushed \subseteq pushed', left' \subseteq left, visit' \subseteq visit
        PROVE  Complete'
    BY <2>1 DEF Complete
  <2>2. CASE Begin
    BY <2>2 DEF Begin, Complete, TInv, Hands, history
  <2>3. ASSUME NEW u \in Users, TakeUser(u) PROVE Complete'
    <3> USE <2>3 DEF TakeUser, history
    <3>1. batch = {} /\ success = FALSE
      BY DEF TInv, Hands
    <3>2. \A m \in batch' : OwnerOf[m] = u /\ m \notin pushed
      BY DEF Pending
    <3>3. \A m \in marks \cup batch' : OwnerOf[m] \notin visit'
      BY <3>2 DEF Complete
    <3>4. \A m \in batch' : m \notin marks
      BY <3>2 DEF Complete
    <3>5. ~upset => (batch' \X left') \cap accepted = {}
      BY <3>1, <3>2, <3>4 DEF Complete
    <3> QED BY <3>1, <3>3, <3>5 DEF Complete
  <2>4. ASSUME NEW e \in Endpoints, SendOk(e) PROVE Complete'
    <3> USE <2>4 DEF SendOk, Sent, Accept
    <3>1. ~upset => (batch \X {e}) \cap accepted = {}
      BY DEF Complete
    <3>2. ~upset => (batch' \X left') \cap accepted' = {}
      BY DEF Complete
    <3> QED BY <3>1, <3>2 DEF Complete
  <2>5. ASSUME NEW e \in Endpoints, SendFails(e) PROVE Complete'
    <3>1. CASE upset' = TRUE /\ Accept(e)
      <4>1. ~repeated'
        BY <3>1 DEF Accept, Complete
      <4> QED BY <2>5, <3>1, <4>1 DEF SendFails, Sent, Complete
    <3>2. CASE UNCHANGED <<accepted, repeated, upset>>
      BY <2>1, <2>5, <3>2 DEF SendFails, Sent
    <3> QED BY <2>5, <3>1, <3>2 DEF SendFails
  <2>6. CASE EndUser
    BY <2>6 DEF EndUser, Delivered, Complete, history
  <2>7. CASE Commit
    BY <2>7 DEF Commit, Forget, Complete, TInv, Hands, history
  <2>8. CASE CommitRefused
    BY <2>8 DEF CommitRefused, Forget, Complete, TInv, Hands
  <2>9. CASE Crash
    BY <2>9 DEF Crash, Forget, Complete
  <2>10. ASSUME NEW u \in Users, SkipUser(u) \/ TestPush(u) \/ ToggleRules(u)
         PROVE  Complete'
    BY <2>1, <2>10 DEF SkipUser, TestPush, ToggleRules, history
  <2>11. ASSUME NEW e \in Endpoints,
                SendDead(e) \/ SaveCommit(e) \/ SaveRefused(e) \/ Remove(e) \/ Expire(e)
                \/ \E u \in Users : SaveRead(u, e)
         PROVE  Complete'
    BY <2>1, <2>11 DEF SendDead, Sent, SaveCommit, SaveRefused, Remove, Expire,
                       SaveRead, history
  <2>12. CASE Arrive \/ UNCHANGED vars
    BY <2>1, <2>12 DEF Arrive, vars, history
  <2> QED BY <2>2, <2>3, <2>4, <2>5, <2>6, <2>7, <2>8, <2>9, <2>10, <2>11, <2>12
          DEF Next, RunWork
<1>3. Complete => AcceptedOnce
  BY DEF Complete, AcceptedOnce
<1> QED BY <1>1, <1>2, <1>3, RowsCorrect, PTL DEF Spec

----------------------------------------------------------------------------
\* The delivery implements the outbox with one sender, whatever subscriptions,
\* tests, removals and activations happen during a run.  What the run has in
\* hand is the message it is sending and the marks it has not committed.
THEOREM Refinement == Spec => ImplementsOutbox
<1> DEFINE run == "run"
           hand == batch \cup marks
           taken == {m \in Matches : \E e \in Endpoints : <<m, e>> \in accepted}
<1> USE PushAssumption DEF db, history, local, Arrived
<1>1. Init => AbstractOutbox!Init
  <2> SUFFICES ASSUME Init PROVE AbstractOutbox!Init
    OBVIOUS
  <2>1. Arrived = {} /\ hand = {} /\ taken = {}
    BY DEF Init
  <2> QED BY <2>1 DEF Init, AbstractOutbox!Init
<1>2. TInv /\ Earned /\ TInv' /\ [Next]_vars
      => [AbstractOutbox!Next]_(AbstractOutbox!vars)
  <2> SUFFICES ASSUME TInv, Earned, TInv', [Next]_vars
               PROVE  AbstractOutbox!Next \/ UNCHANGED AbstractOutbox!vars
    OBVIOUS
  <2>0. /\ arrived \in 0..MaxMatches /\ Arrived \subseteq Matches
        /\ pushed \subseteq Arrived /\ baseline \subseteq pushed
        /\ hand \subseteq Arrived /\ taken \subseteq Arrived
    <3>1. arrived \in 0..MaxMatches /\ Arrived \subseteq Matches
      BY DEF TInv, TypeOK, Matches
    <3>2. pushed \subseteq Arrived /\ baseline \subseteq pushed /\ hand \subseteq Arrived
      BY DEF TInv, TypeOK
    <3>3. accepted \subseteq Arrived \X Endpoints
      BY DEF TInv, TypeOK
    <3>4. taken \subseteq Arrived
      BY <3>3
    <3> QED BY <3>1, <3>2, <3>4
  <2>1. ASSUME UNCHANGED <<arrived, pushed, baseline, accepted>>, hand' = hand
        PROVE  UNCHANGED AbstractOutbox!vars
    BY <2>1 DEF AbstractOutbox!vars
  <2>2. ASSUME UNCHANGED <<arrived, pushed, baseline, accepted>>, hand' \subseteq hand
        PROVE  AbstractOutbox!Next
    <3>1. hand' = hand \ (hand \ hand') /\ hand \ hand' \in SUBSET Matches
      BY <2>0, <2>2
    <3>2. AbstractOutbox!GiveUp(run, hand \ hand')
      BY <2>2, <3>1 DEF AbstractOutbox!GiveUp
    <3> QED BY <3>1, <3>2 DEF AbstractOutbox!Next
  <2>3. ASSUME NEW u \in Users, TakeUser(u) PROVE AbstractOutbox!Next
    <3>1. Pending(u) \subseteq Arrived \ pushed /\ Pending(u) \in SUBSET Matches
      BY <2>0 DEF Pending
    <3>2. hand' = hand \cup Pending(u)
      BY <2>3 DEF TakeUser, TInv, Hands
    <3>3. AbstractOutbox!Take(run, Pending(u))
      BY <2>3, <3>1, <3>2 DEF TakeUser, AbstractOutbox!Take
    <3> QED BY <3>1, <3>3 DEF AbstractOutbox!Next
  <2>4. ASSUME NEW e \in Endpoints, Accept(e), UNCHANGED <<arrived, pushed, baseline>>,
               UNCHANGED <<batch, marks>>
        PROVE  AbstractOutbox!Next
    <3>1. PICK some \in SUBSET Matches : some = batch
      BY <2>0
    <3>2. taken' = taken \cup some
      BY <2>0, <2>4, <3>1 DEF Accept
    <3>3. AbstractOutbox!Deliver(run, some)
      BY <2>4, <3>1, <3>2 DEF AbstractOutbox!Deliver, AbstractOutbox!KeepOrLose
    <3> QED BY <3>3 DEF AbstractOutbox!Next
  <2>5. ASSUME NEW e \in Endpoints, SendFails(e)
        PROVE  AbstractOutbox!Next \/ UNCHANGED AbstractOutbox!vars
    BY <2>1, <2>4, <2>5 DEF SendFails
  <2>6. ASSUME NEW e \in Endpoints, SendOk(e) PROVE AbstractOutbox!Next
    BY <2>4, <2>6 DEF SendOk
  <2>7. CASE EndUser
    <3>1. hand' \subseteq hand
      BY <2>7 DEF EndUser, Delivered
    <3> QED BY <2>2, <2>7, <3>1 DEF EndUser
  <2>8. CASE CommitRefused \/ Crash
    <3>1. hand' \subseteq hand
      BY <2>8 DEF CommitRefused, Crash, Forget
    <3> QED BY <2>2, <2>8, <3>1 DEF CommitRefused, Crash
  <2>9. CASE Commit
    <3>1. marks \subseteq hand \cap taken \cap Arrived /\ marks \in SUBSET Matches
      BY <2>0 DEF Earned, WasAccepted
    <3>2. hand' = {}
      BY <2>9 DEF Commit, Forget
    <3>3. AbstractOutbox!Settle(run, marks)
      BY <2>9, <3>1, <3>2
      DEF Commit, AbstractOutbox!Settle, AbstractOutbox!KeepOrLose
    <3> QED BY <3>1, <3>3 DEF AbstractOutbox!Next
  <2>10. ASSUME NEW e \in Endpoints, SaveCommit(e) PROVE AbstractOutbox!Next
    <3> DEFINE aside == IF saving[e].first
                        THEN {m \in Arrived \ pushed : OwnerOf[m] = saving[e].user}
                        ELSE {}
    <3>1. aside \subseteq Arrived \ pushed /\ aside \in SUBSET Matches
      BY <2>0
    <3>2. pushed' = pushed \cup aside /\ baseline' = baseline \cup aside
      BY <2>10 DEF SaveCommit
    <3>3. AbstractOutbox!Waive(aside)
      BY <2>10, <3>1, <3>2 DEF SaveCommit, AbstractOutbox!Waive
    <3> QED BY <3>1, <3>3 DEF AbstractOutbox!Next
  <2>11. CASE Arrive
    <3>1. arrived' = arrived + 1 /\ Arrived' = Arrived \cup {arrived'}
      BY <2>0, <2>11 DEF Arrive
    <3>2. arrived' \notin Arrived /\ {arrived'} \in SUBSET Matches
      BY <2>0, <2>11, <3>1 DEF Arrive, Matches
    <3>3. AbstractOutbox!Add({arrived'})
      BY <2>0, <2>11, <3>1, <3>2 DEF Arrive, AbstractOutbox!Add
    <3> QED BY <3>2, <3>3 DEF AbstractOutbox!Next
  <2>12. CASE \/ Begin
              \/ \E u \in Users : SkipUser(u) \/ TestPush(u) \/ ToggleRules(u)
              \/ UNCHANGED vars
    BY <2>1, <2>12 DEF Begin, SkipUser, TestPush, ToggleRules, vars
  <2>13. ASSUME NEW e \in Endpoints,
                \/ SendDead(e) \/ SaveRefused(e) \/ Remove(e) \/ Expire(e)
                \/ \E u \in Users : SaveRead(u, e)
         PROVE  UNCHANGED AbstractOutbox!vars
    BY <2>1, <2>13 DEF SendDead, SaveRefused, Remove, Expire, SaveRead
  <2> QED BY <2>3, <2>5, <2>6, <2>7, <2>8, <2>9, <2>10, <2>11, <2>12, <2>13
          DEF Next, RunWork
<1> QED
  BY <1>1, <1>2, RowsCorrect, EarnedAndAccepted, PTL
  DEF Spec, ImplementsOutbox, AbstractOutbox!Spec

----------------------------------------------------------------------------
(* When only the first activation sets matches aside *)

\* Whoever has activated push has an enabled device from then on.
KeepsDevice ==
    \A u \in activated : \E e \in Endpoints : EnabledOf({u})[e] = u

\* No user subscribes two devices at the same time.
OneSaveAtATime ==
    \A e, f \in Endpoints :
        saving[e] # None /\ saving[f] # None /\ saving[e].user = saving[f].user
        => e = f

\* Then a subscription that found no device is its user's first.
FirstIsFirst ==
    \A e \in Endpoints :
        saving[e] # None /\ saving[e].first => saving[e].user \notin activated

\* For users who keep an enabled device and subscribe one device at a time,
\* the documented promise holds: only the first activation sets matches aside.
\* Devices that go away and two subscriptions at once are the only exceptions.
THEOREM OnlyFirstActivationSetsAside ==
    Spec /\ []KeepsDevice /\ []OneSaveAtATime => BaselineOnlyFirst
<1> USE PushAssumption DEF db, history, local, Arrived
<1>1. Init => FirstIsFirst
  BY DEF Init, FirstIsFirst
<1>2. TInv /\ KeepsDevice /\ OneSaveAtATime /\ FirstIsFirst /\ [Next]_vars
      => FirstIsFirst' /\ [\A m \in baseline' \ baseline : OwnerOf[m] \notin activated]_vars
  <2> SUFFICES ASSUME TInv, KeepsDevice, OneSaveAtATime, FirstIsFirst, [Next]_vars
               PROVE  /\ FirstIsFirst'
                      /\ \A m \in baseline' \ baseline : OwnerOf[m] \notin activated
    OBVIOUS
  <2> DEFINE Goal == /\ FirstIsFirst'
                     /\ \A m \in baseline' \ baseline : OwnerOf[m] \notin activated
  <2>1. ASSUME UNCHANGED <<saving, activated, baseline>> PROVE Goal
    BY <2>1 DEF FirstIsFirst
  <2>2. ASSUME NEW u \in Users, NEW e \in Endpoints, SaveRead(u, e) PROVE Goal
    <3>1. saving'[e].first => u \notin activated
      BY <2>2 DEF SaveRead, KeepsDevice, TInv, TypeOK
    <3>2. /\ saving'[e].user = u /\ UNCHANGED <<activated, baseline>>
          /\ \A f \in Endpoints \ {e} : saving'[f] = saving[f]
      BY <2>2 DEF SaveRead, TInv, TypeOK
    <3> QED BY <3>1, <3>2 DEF FirstIsFirst
  <2>3. ASSUME NEW e \in Endpoints, SaveCommit(e) PROVE Goal
    <3> DEFINE u == saving[e].user
               aside == IF saving[e].first
                        THEN {m \in Arrived \ pushed : OwnerOf[m] = u}
                        ELSE {}
    <3>1. /\ saving[e] # None /\ saving' = [saving EXCEPT ![e] = None]
          /\ activated' = activated \cup {u}
          /\ baseline' = baseline \cup aside
      BY <2>3 DEF SaveCommit
    <3>2. saving'[e] = None /\ \A f \in Endpoints \ {e} : saving'[f] = saving[f]
      BY <3>1 DEF TInv, TypeOK
    <3>3. \A f \in Endpoints \ {e} : saving[f] # None => saving[f].user # u
      BY <3>1 DEF OneSaveAtATime
    <3>4. FirstIsFirst'
      BY <3>1, <3>2, <3>3 DEF FirstIsFirst
    <3>5. \A m \in aside : OwnerOf[m] \notin activated
      BY <3>1 DEF FirstIsFirst
    <3> QED BY <3>1, <3>4, <3>5
  <2>4. ASSUME NEW e \in Endpoints, SaveRefused(e) PROVE Goal
    BY <2>4 DEF SaveRefused, FirstIsFirst, TInv, TypeOK
  <2>5. CASE Begin \/ EndUser \/ Commit \/ CommitRefused \/ Crash \/ Arrive
    BY <2>1, <2>5 DEF Begin, EndUser, Commit, CommitRefused, Crash, Arrive
  <2>6. ASSUME NEW u \in Users,
               SkipUser(u) \/ TakeUser(u) \/ TestPush(u) \/ ToggleRules(u)
        PROVE  Goal
    BY <2>1, <2>6 DEF SkipUser, TakeUser, TestPush, ToggleRules
  <2>7. ASSUME NEW e \in Endpoints,
               SendOk(e) \/ SendDead(e) \/ SendFails(e) \/ Remove(e) \/ Expire(e)
        PROVE  Goal
    BY <2>1, <2>7 DEF SendOk, SendDead, SendFails, Remove, Expire
  <2>8. CASE UNCHANGED vars
    BY <2>1, <2>8 DEF vars
  <2> QED BY <2>2, <2>3, <2>4, <2>5, <2>6, <2>7, <2>8 DEF Next, RunWork
<1> QED BY <1>1, <1>2, RowsCorrect, PTL DEF Spec, BaselineOnlyFirst
=============================================================================
