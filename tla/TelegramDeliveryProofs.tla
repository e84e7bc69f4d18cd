----------------------- MODULE TelegramDeliveryProofs -----------------------
(***************************************************************************)
(* Proofs about TelegramDelivery for any rules, any bound on articles and  *)
(* faults and, except for ToldOnce, any number of runs at the same time.   *)
(*                                                                         *)
(* What a run has in its hands connects the moment of loading with the     *)
(* moment of marking: a message that was sent has been told (SentIsTold),  *)
(* and a message about to be sent has no gap before any of its articles    *)
(* that was not told already (NoGap).  A new match cannot open a gap,      *)
(* because its article is younger than everything loaded or told (Past).   *)
(***************************************************************************)
EXTENDS TelegramDelivery, TLAPS

\* A message that was sent has been told.
SentIsTold == \A n \in Runs : pc[n] = "mark" => batch[n] \subseteq told

\* m comes after no untold match of a rule that is left alone, apart from
\* those in ms.
Follows(m, ms) ==
    \A older \in matches :
        older[1] < m[1] /\ older[2] \in Steady => older \in told \cup ms

NoGap == \A n \in Runs : pc[n] = "send" => \A m \in batch[n] : Follows(m, batch[n])

\* Everything matched, loaded or told belongs to an article that has arrived.
Past ==
    /\ matches \subseteq (1..arrived) \X Rules
    /\ told \subseteq (1..arrived) \X Rules
    /\ \A n \in Runs : batch[n] \subseteq (1..arrived) \X Rules

\* The rules that are left alone stay enabled.
SteadyEnabled == Steady \subseteq enabled

IInv == TypeOK /\ Past /\ SteadyEnabled /\ SentIsTold /\ NotifiedWasSent
             /\ NoGap /\ OldestFirst

----------------------------------------------------------------------------

\* The variables keep their types: a mark is only ever on a row that exists
\* (UPDATE and DELETE of article_matches).
THEOREM TypeCorrect == Spec => []TypeOK
<1> USE TelegramAssumption DEF Articles
<1>1. Init => TypeOK
  BY DEF Init, TypeOK
<1>2. TypeOK /\ [Next]_vars => TypeOK'
  <2> SUFFICES ASSUME TypeOK, [Next]_vars PROVE TypeOK'
    OBVIOUS
  <2> USE DEF TypeOK, rows
  <2>1. ASSUME NEW n \in Runs, RunStart(n) PROVE TypeOK'
    BY <2>1 DEF RunStart
  <2>2. ASSUME NEW n \in Runs, NothingToSend(n) PROVE TypeOK'
    BY <2>2 DEF NothingToSend, Return
  <2>3. ASSUME NEW n \in Runs, LoadPending(n) PROVE TypeOK'
    BY <2>3 DEF LoadPending, UpTo, Pending
  <2>4. ASSUME NEW n \in Runs, SendOk(n) PROVE TypeOK'
    BY <2>4 DEF SendOk, Deliver
  <2>5. ASSUME NEW n \in Runs, MarkNotified(n) PROVE TypeOK'
    BY <2>5 DEF MarkNotified, Marked, Return
  <2>6. ASSUME NEW n \in Runs, SendFails(n) PROVE TypeOK'
    BY <2>6 DEF SendFails, Deliver, Return
  <2>7. ASSUME NEW n \in Runs, Crash(n) PROVE TypeOK'
    BY <2>7 DEF Crash, Return
  <2>8. ASSUME NEW rs \in (SUBSET Rules) \ {{}}, Arrive(rs) PROVE TypeOK'
    BY <2>8 DEF Arrive
  <2>9. ASSUME NEW r \in Rules \ Steady, ToggleRule(r) PROVE TypeOK'
    BY <2>9 DEF ToggleRule
  <2>10. ASSUME NEW r \in Rules \ Steady, DeleteRule(r) PROVE TypeOK'
    BY <2>10 DEF DeleteRule
  <2>11. CASE ToggleSetting
    BY <2>11 DEF ToggleSetting
  <2>12. CASE UNCHANGED vars
    BY <2>12 DEF vars
  <2> QED BY <2>1, <2>2, <2>3, <2>4, <2>5, <2>6, <2>7, <2>8, <2>9, <2>10, <2>11,
             <2>12 DEF Next, Work
<1> QED BY <1>1, <1>2, PTL DEF Spec

----------------------------------------------------------------------------
\* A step that neither adds nor removes a match, a mark or a delivery, and
\* gives no run a message: only runs may end, and switches change.
Quiet ==
    /\ UNCHANGED <<arrived, matches, notified, told>>
    /\ Steady \subseteq enabled'
    /\ \A n \in Runs : pc'[n] \in {"send", "mark"} =>
          pc[n] = pc'[n] /\ batch'[n] = batch[n]
    /\ \A n \in Runs : batch'[n] \subseteq batch[n]

LEMMA QuietKeeps ==
    ASSUME IInv, TypeOK', Quiet PROVE IInv'
<1> USE DEF IInv, Quiet
<1>1. Past'
  BY DEF Past
<1>2. SteadyEnabled'
  BY DEF SteadyEnabled
<1>3. SentIsTold' /\ NotifiedWasSent'
  BY DEF SentIsTold, NotifiedWasSent
<1>4. NoGap' /\ OldestFirst'
  BY DEF NoGap, Follows, OldestFirst
<1> QED BY <1>1, <1>2, <1>3, <1>4

\* All of it is inductive (one case per action of the module).
THEOREM Inductive == Spec => []IInv
<1> USE TelegramAssumption
<1>1. Init => IInv
  BY DEF Init, IInv, TypeOK, Articles, Past, SteadyEnabled, SentIsTold,
         NotifiedWasSent, NoGap, OldestFirst
<1>2. IInv /\ TypeOK' /\ [Next]_vars => IInv'
  <2> SUFFICES ASSUME IInv, TypeOK', [Next]_vars PROVE IInv'
    OBVIOUS
  <2>1. ASSUME NEW n \in Runs, RunStart(n) \/ NothingToSend(n) \/ Crash(n)
        PROVE  IInv'
    <3>1. Quiet
      BY <2>1 DEF IInv, TypeOK, SteadyEnabled, Quiet, RunStart, NothingToSend, Crash,
                  Return, rows
    <3> QED BY <3>1, QuietKeeps
  <2>2. ASSUME NEW n \in Runs, LoadPending(n) PROVE IInv'
    <3> USE <2>2 DEF IInv, LoadPending, rows
    <3>1. PICK last \in {m[1] : m \in Pending} :
             batch' = [batch EXCEPT ![n] = UpTo(last)]
      OBVIOUS
    <3>2. batch'[n] = UpTo(last) /\ \A k \in Runs \ {n} : batch'[k] = batch[k]
      BY <3>1 DEF TypeOK
    <3>3. \A k \in Runs \ {n} : pc'[k] = pc[k]
      BY DEF TypeOK
    <3>4. UpTo(last) \subseteq matches
      BY DEF UpTo, Pending
    <3>5. Past' /\ SteadyEnabled'
      BY <3>2, <3>4 DEF Past, SteadyEnabled
    <3>6. SentIsTold' /\ NotifiedWasSent' /\ OldestFirst'
      BY <3>2, <3>3 DEF TypeOK, SentIsTold, NotifiedWasSent, OldestFirst
    <3>7. ASSUME NEW m \in UpTo(last), NEW older \in matches,
                 older[1] < m[1], older[2] \in Steady
          PROVE  older \in told \cup UpTo(last)
      <4>1. CASE older \in notified
        BY <4>1 DEF NotifiedWasSent
      <4>2. CASE older \notin notified
        <5>1. older \in Pending
          BY <3>7, <4>2 DEF Pending, SteadyEnabled
        <5>2. older[1] \in Nat /\ m[1] \in Nat /\ last \in Nat
          BY <3>4, <3>7 DEF Past, Pending, TypeOK
        <5>3. m[1] <= last
          BY <3>7 DEF UpTo
        <5> QED BY <3>7, <5>1, <5>2, <5>3 DEF UpTo
      <4> QED BY <4>1, <4>2
    <3>8. NoGap'
      BY <3>2, <3>3, <3>7 DEF NoGap, Follows, TypeOK
    <3> QED BY <3>5, <3>6, <3>8
  <2>3. ASSUME NEW n \in Runs, SendOk(n) \/ (SendFails(n) /\ Deliver(batch[n]))
        PROVE  IInv'
    <3>1. /\ pc[n] = "send"
          /\ told' = told \cup batch[n]
          /\ UNCHANGED <<arrived, matches, notified, enabled>>
      BY <2>3 DEF SendOk, SendFails, Deliver, rows
    <3>2. \A k \in Runs : pc'[k] = "mark" => k = n \/ pc[k] = "mark"
      BY <2>3 DEF SendOk, SendFails, Return, IInv, TypeOK
    <3>3. \A k \in Runs : pc'[k] = "send" => pc[k] = "send"
      BY <2>3 DEF SendOk, SendFails, Return, IInv, TypeOK
    <3>4. \A k \in Runs : batch'[k] \subseteq batch[k]
                            /\ (pc'[k] = "send" => batch'[k] = batch[k])
      BY <2>3 DEF SendOk, SendFails, Return, IInv, TypeOK
    <3>5. Past' /\ SteadyEnabled'
      BY <3>1, <3>4 DEF IInv, Past, SteadyEnabled
    <3>6. SentIsTold' /\ NotifiedWasSent'
      BY <3>1, <3>2, <3>4 DEF IInv, SentIsTold, NotifiedWasSent
    <3>7. OldestFirst'
      BY <3>1 DEF IInv, OldestFirst, NoGap, Follows
    <3>8. NoGap'
      BY <3>1, <3>3, <3>4 DEF IInv, NoGap, Follows
    <3> QED BY <3>5, <3>6, <3>7, <3>8 DEF IInv
  <2>4. ASSUME NEW n \in Runs, SendFails(n), UNCHANGED <<told, twice>> PROVE IInv'
    <3>1. Quiet
      BY <2>4 DEF IInv, TypeOK, SteadyEnabled, Quiet, SendFails, Return, rows
    <3> QED BY <3>1, QuietKeeps
  <2>5. ASSUME NEW n \in Runs, MarkNotified(n) PROVE IInv'
    <3> USE <2>5 DEF IInv, MarkNotified, Return
    <3>1. notified' \subseteq notified \cup batch[n]
      BY DEF Marked
    <3>2. \A k \in Runs : pc'[k] # "idle" => pc'[k] = pc[k] /\ batch'[k] = batch[k]
      BY DEF TypeOK
    <3>3. \A k \in Runs : batch'[k] \subseteq batch[k]
      BY DEF TypeOK
    <3>4. Past' /\ SteadyEnabled'
      BY <3>3 DEF Past, SteadyEnabled
    <3>5. SentIsTold' /\ NotifiedWasSent'
      BY <3>1, <3>2 DEF SentIsTold, NotifiedWasSent
    <3>6. NoGap' /\ OldestFirst'
      BY <3>2 DEF NoGap, Follows, OldestFirst
    <3> QED BY <3>4, <3>5, <3>6
  <2>6. ASSUME NEW rs \in (SUBSET Rules) \ {{}}, Arrive(rs) PROVE IInv'
    <3> USE <2>6 DEF IInv, Arrive
    <3>1. arrived \in Nat /\ arrived' = arrived + 1
      BY DEF TypeOK
    <3>2. \A m \in matches' : m \in matches \/ m[1] = arrived + 1
      BY <3>1
    <3>3. Past' /\ SteadyEnabled'
      BY <3>1 DEF Past, SteadyEnabled
    <3>4. SentIsTold' /\ NotifiedWasSent'
      BY DEF SentIsTold, NotifiedWasSent
    <3>5. \A m \in (1..arrived) \X Rules, older \in matches' :
             older[1] < m[1] => older \in matches
      BY <3>1, <3>2
    <3>6. NoGap'
      BY <3>5 DEF NoGap, Follows, Past
    <3>7. OldestFirst'
      BY <3>5 DEF OldestFirst, Past
    <3> QED BY <3>3, <3>4, <3>6, <3>7
  <2>7. ASSUME NEW r \in Rules \ Steady, DeleteRule(r) PROVE IInv'
    <3> USE <2>7 DEF IInv, DeleteRule
    <3>1. Past' /\ SteadyEnabled'
      BY DEF Past, SteadyEnabled
    <3>2. SentIsTold' /\ NotifiedWasSent'
      BY DEF SentIsTold, NotifiedWasSent
    <3>3. NoGap' /\ OldestFirst'
      BY DEF NoGap, Follows, OldestFirst
    <3> QED BY <3>1, <3>2, <3>3
  <2>8. ASSUME NEW r \in Rules \ Steady, ToggleRule(r) PROVE IInv'
    <3>1. Quiet
      BY <2>8 DEF IInv, SteadyEnabled, Quiet, ToggleRule, rows
    <3> QED BY <3>1, QuietKeeps
  <2>9. CASE ToggleSetting \/ UNCHANGED vars
    <3>1. Quiet
      BY <2>9 DEF IInv, SteadyEnabled, Quiet, ToggleSetting, rows, vars
    <3> QED BY <3>1, QuietKeeps
  <2>10. ASSUME NEW n \in Runs, SendFails(n) PROVE IInv'
    BY <2>3, <2>4, <2>10 DEF SendFails
  <2> QED BY <2>1, <2>2, <2>3, <2>5, <2>6, <2>7, <2>8, <2>9, <2>10 DEF Next, Work
<1> QED BY <1>1, <1>2, TypeCorrect, PTL DEF Spec

\* A match is marked as notified only after Telegram accepted a message with
\* it, whatever arrives, fails or is deleted between loading and marking.
THEOREM MarkedWasSent == Spec => []NotifiedWasSent
<1>1. IInv => NotifiedWasSent
  BY DEF IInv
<1> QED BY <1>1, Inductive, PTL

\* Matches are told oldest first, for any size of the messages.
THEOREM InOrder == Spec => []OldestFirst
<1>1. IInv => OldestFirst
  BY DEF IInv
<1> QED BY <1>1, Inductive, PTL

----------------------------------------------------------------------------
\* As long as nothing has failed, a match that was told is marked, or the run
\* that told it is about to mark it; what a run is about to send is new.
Accounted(n) ==
    faults = 0 =>
        /\ twice = {}
        /\ pc[n] = "send" => batch[n] \cap told = {}
        /\ told \cap matches \subseteq
              notified \cup (IF pc[n] = "mark" THEN batch[n] ELSE {})

\* With one run at a time, which is what the crawl lock is for, Telegram is
\* never made to repeat anything unless something failed.
THEOREM NeverTwice ==
    ASSUME NEW n, Runs = {n} PROVE Spec => []ToldOnce
<1> USE TelegramAssumption
<1> DEFINE Inv == IInv /\ Accounted(n)
<1>1. Init => Inv
  <2> SUFFICES ASSUME Init PROVE Inv
    OBVIOUS
  <2>1. IInv
    BY DEF Init, IInv, TypeOK, Articles, Past, SteadyEnabled, SentIsTold,
           NotifiedWasSent, NoGap, OldestFirst
  <2> QED BY <2>1 DEF Init, Accounted
<1>2. Accounted(n) /\ IInv /\ IInv' /\ [Next]_vars => Accounted(n)'
  <2> SUFFICES ASSUME Accounted(n), IInv, IInv', [Next]_vars PROVE Accounted(n)'
    OBVIOUS
  <2> USE Runs = {n} DEF Accounted, IInv, TypeOK, rows
  <2>1. CASE RunStart(n)
    BY <2>1 DEF RunStart
  <2>2. CASE NothingToSend(n)
    BY <2>2 DEF NothingToSend, Return
  <2>3. CASE LoadPending(n)
    BY <2>3 DEF LoadPending, UpTo, Pending
  <2>4. CASE SendOk(n)
    BY <2>4 DEF SendOk, Deliver
  <2>5. CASE MarkNotified(n)
    BY <2>5 DEF MarkNotified, Marked, Return
  <2>6. CASE SendFails(n) \/ Crash(n)
    BY <2>6 DEF SendFails, Crash
  <2>7. ASSUME NEW rs \in (SUBSET Rules) \ {{}}, Arrive(rs) PROVE Accounted(n)'
    <3>1. \A m \in matches' : m \in matches \/ m \notin told
      BY <2>7 DEF Arrive, Past
    <3> QED BY <2>7, <3>1 DEF Arrive
  <2>8. ASSUME NEW r \in Rules \ Steady, ToggleRule(r) \/ DeleteRule(r)
        PROVE  Accounted(n)'
    BY <2>8 DEF ToggleRule, DeleteRule
  <2>9. CASE ToggleSetting \/ UNCHANGED vars
    BY <2>9 DEF ToggleSetting, vars
  <2> QED BY <2>1, <2>2, <2>3, <2>4, <2>5, <2>6, <2>7, <2>8, <2>9 DEF Next, Work
<1>3. Accounted(n) => ToldOnce
  BY DEF Accounted, ToldOnce
<1> QED BY <1>1, <1>2, <1>3, Inductive, PTL DEF Spec

----------------------------------------------------------------------------
\* Only a run that sends or marks has a message.
NothingLoaded == \A n \in Runs : pc[n] \in {"idle", "load"} => batch[n] = {}

LEMMA IdleHasNothing == Spec => []NothingLoaded
<1>1. Init => NothingLoaded
  BY DEF Init, NothingLoaded
<1>2. TypeOK /\ NothingLoaded /\ [Next]_vars => NothingLoaded'
  <2> SUFFICES ASSUME TypeOK, NothingLoaded, [Next]_vars PROVE NothingLoaded'
    OBVIOUS
  <2> USE DEF TypeOK, NothingLoaded
  <2>1. ASSUME NEW n \in Runs, RunStart(n) \/ LoadPending(n) \/ SendOk(n)
        PROVE  NothingLoaded'
    BY <2>1 DEF RunStart, LoadPending, SendOk
  <2>2. ASSUME NEW n \in Runs,
               NothingToSend(n) \/ MarkNotified(n) \/ SendFails(n) \/ Crash(n)
        PROVE  NothingLoaded'
    BY <2>2 DEF NothingToSend, MarkNotified, SendFails, Crash, Return
  <2>3. CASE \/ \E rs \in (SUBSET Rules) \ {{}} : Arrive(rs)
             \/ \E r \in Rules \ Steady : ToggleRule(r) \/ DeleteRule(r)
             \/ ToggleSetting
             \/ UNCHANGED vars
    BY <2>3 DEF Arrive, ToggleRule, DeleteRule, ToggleSetting, vars
  <2> QED BY <2>1, <2>2, <2>3 DEF Next, Work
<1> QED BY <1>1, <1>2, TypeCorrect, PTL DEF Spec

\* The delivery implements the outbox for any number of runs at once: every
\* step takes, delivers, settles or gives up as an outbox may, adds matches
\* nobody has met before, drops some, or leaves the outbox alone.
THEOREM Refinement == Spec => ImplementsOutbox
<1> USE TelegramAssumption
<1>1. Init => AbstractOutbox!Init
  BY DEF Init, AbstractOutbox!Init
<1>2. IInv /\ NothingLoaded /\ [Next]_vars
      => [AbstractOutbox!Next]_(AbstractOutbox!vars)
  <2> DEFINE Items == Articles \X Rules
  <2> SUFFICES ASSUME IInv, NothingLoaded, [Next]_vars
               PROVE  AbstractOutbox!Next \/ UNCHANGED AbstractOutbox!vars
    OBVIOUS
  <2> USE DEF IInv, TypeOK, rows
  <2>1. ASSUME UNCHANGED <<matches, notified, batch, told>>
        PROVE  UNCHANGED AbstractOutbox!vars
    BY <2>1 DEF AbstractOutbox!vars
  <2>2. ASSUME NEW n \in Runs, AbstractOutbox!GiveUp(n, batch[n])
        PROVE  AbstractOutbox!Next
    BY <2>2 DEF AbstractOutbox!Next
  <2>3. ASSUME NEW n \in Runs, NothingToSend(n) \/ Crash(n)
        PROVE  AbstractOutbox!Next
    <3>1. AbstractOutbox!GiveUp(n, batch[n])
      BY <2>3 DEF NothingToSend, Crash, Return, AbstractOutbox!GiveUp
    <3> QED BY <2>2, <3>1
  <2>4. ASSUME NEW n \in Runs, LoadPending(n) PROVE AbstractOutbox!Next
    <3>1. PICK last \in {m[1] : m \in Pending} :
             batch' = [batch EXCEPT ![n] = UpTo(last)]
      BY <2>4 DEF LoadPending
    <3>2. UpTo(last) \subseteq matches \ notified
      BY DEF UpTo, Pending
    <3>3. batch[n] = {}
      BY <2>4 DEF LoadPending, NothingLoaded
    <3>4. AbstractOutbox!Take(n, UpTo(last))
      BY <2>4, <3>1, <3>2, <3>3 DEF LoadPending, AbstractOutbox!Take
    <3> QED BY <3>2, <3>4 DEF AbstractOutbox!Next
  <2>5. ASSUME NEW n \in Runs, SendOk(n) \/ (SendFails(n) /\ Deliver(batch[n]))
        PROVE  AbstractOutbox!Next
    <3>1. AbstractOutbox!Deliver(n, batch[n])
      BY <2>5 DEF SendOk, SendFails, Deliver, Return,
                  AbstractOutbox!Deliver, AbstractOutbox!KeepOrLose
    <3> QED BY <3>1 DEF AbstractOutbox!Next
  <2>6. ASSUME NEW n \in Runs, SendFails(n), UNCHANGED <<told, twice>>
        PROVE  AbstractOutbox!Next
    <3>1. AbstractOutbox!GiveUp(n, batch[n])
      BY <2>6 DEF SendFails, Return, AbstractOutbox!GiveUp
    <3> QED BY <2>2, <3>1
  <2>7. ASSUME NEW n \in Runs, MarkNotified(n) PROVE AbstractOutbox!Next
    <3>1. Marked(n) \subseteq batch[n] \cap told \cap matches
      BY <2>7 DEF MarkNotified, Marked, SentIsTold
    <3>2. AbstractOutbox!Settle(n, Marked(n))
      BY <2>7, <3>1 DEF MarkNotified, Return,
                        AbstractOutbox!Settle, AbstractOutbox!KeepOrLose
    <3>3. Marked(n) \in SUBSET Items
      BY <3>1
    <3> QED BY <3>2, <3>3 DEF AbstractOutbox!Next
  <2>8. ASSUME NEW rs \in (SUBSET Rules) \ {{}}, Arrive(rs) PROVE AbstractOutbox!Next
    <3> DEFINE new == {arrived'} \X rs
    <3>1. new \in SUBSET Items
      BY <2>8 DEF Arrive, Articles
    <3>2. \A m \in (1..arrived) \X Rules : m \notin new
      BY <2>8 DEF Arrive
    <3>3. /\ new \cap (matches \cup told \cup {}) = {}
          /\ \A n \in Runs : new \cap batch[n] = {}
      BY <3>2 DEF Past
    <3>4. AbstractOutbox!Add(new)
      BY <2>8, <3>3 DEF Arrive, AbstractOutbox!Add
    <3> QED BY <3>1, <3>4 DEF AbstractOutbox!Next
  <2>9. ASSUME NEW r \in Rules \ Steady, DeleteRule(r) PROVE AbstractOutbox!Next
    <3> DEFINE lost == {m \in matches : m[2] = r}
    <3>1. matches' = matches \ lost /\ notified' = notified \ lost
      BY <2>9 DEF DeleteRule
    <3>2. AbstractOutbox!Drop(lost)
      BY <2>9, <3>1 DEF DeleteRule, AbstractOutbox!Drop
    <3>3. lost \in SUBSET Items
      OBVIOUS
    <3> QED BY <3>2, <3>3 DEF AbstractOutbox!Next
  <2>10. CASE \/ \E n \in Runs : RunStart(n)
              \/ \E r \in Rules \ Steady : ToggleRule(r)
              \/ ToggleSetting
              \/ UNCHANGED vars
    BY <2>1, <2>10 DEF RunStart, ToggleRule, ToggleSetting, vars
  <2>11. ASSUME NEW n \in Runs, SendFails(n) PROVE AbstractOutbox!Next
    BY <2>5, <2>6, <2>11 DEF SendFails
  <2> QED BY <2>3, <2>4, <2>5, <2>7, <2>8, <2>9, <2>10, <2>11 DEF Next, Work
<1> QED
  BY <1>1, <1>2, Inductive, IdleHasNothing, PTL
  DEF Spec, ImplementsOutbox, AbstractOutbox!Spec
=============================================================================
