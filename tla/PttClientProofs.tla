-------------------------- MODULE PttClientProofs --------------------------
(***************************************************************************)
(* Proofs about PttClient, for any number of threads and articles, any     *)
(* delay and whatever PTT asks to wait.                                    *)
(***************************************************************************)
EXTENDS PttClient, TLAPS

\* A thread that is in a call wants pages; one that is not has left no trace.
InCall ==
    \A t \in Threads :
        /\ at[t] # "out" => left[t] >= 1 /\ result[t] = "none"
        /\ at[t] = "out" => page[t] = 0

LEMMA InitType == ClientInit => ClientTypeOK /\ InCall
BY ClientAssumption DEF ClientInit, ClientTypeOK, InCall, Attempts

\* No step takes a variable out of its type or leaves a call half-done.
LEMMA StepType ==
    ClientTypeOK /\ InCall /\ [ClientNext]_clientVars => (ClientTypeOK /\ InCall)'
<1> SUFFICES ASSUME ClientTypeOK, InCall, [ClientNext]_clientVars
             PROVE  ClientTypeOK' /\ InCall'
    OBVIOUS
<1> USE ClientAssumption DEF ClientTypeOK, InCall, Attempts, board, call
<1>1. ASSUME NEW t \in Threads, NEW n \in 1..MaxPages, Crawl(t, n)
      PROVE  ClientTypeOK' /\ InCall'
      BY <1>1 DEF Crawl
<1>2. ASSUME NEW t \in Threads, Return(t)
      PROVE  ClientTypeOK' /\ InCall'
      BY <1>2 DEF Return
<1>3. ASSUME NEW t \in Threads, TakeLock(t)
      PROVE  ClientTypeOK' /\ InCall'
      BY <1>3 DEF TakeLock, AtLeast
<1>4. ASSUME NEW t \in Threads, Send(t)
      PROVE  ClientTypeOK' /\ InCall'
      BY <1>4 DEF Send
<1>5. ASSUME NEW t \in Threads, Answered(t)
      PROVE  ClientTypeOK' /\ InCall'
      BY <1>5 DEF Answered, Over, Leave, OnPages
<1>6. ASSUME NEW t \in Threads, Rejected(t)
      PROVE  ClientTypeOK' /\ InCall'
      BY <1>6 DEF Rejected, Over, Leave
<1>7. ASSUME NEW t \in Threads, Broken(t)
      PROVE  ClientTypeOK' /\ InCall'
      BY <1>7 DEF Broken, Over, Leave, Backoff, Waiting
<1>8. ASSUME NEW t \in Threads, Busy(t)
      PROVE  ClientTypeOK' /\ InCall'
      BY <1>8 DEF Busy, Over, Leave, Backoff, AtLeast, Waiting
<1>9. ASSUME NEW t \in Threads, TryAgain(t)
      PROVE  ClientTypeOK' /\ InCall'
      BY <1>9 DEF TryAgain, Waiting
<1>10. CASE Tick
      BY <1>10 DEF Tick, AtMost, AtLeast
<1>11. ASSUME NEW a \in Articles, Post(a) \/ Unlink(a)
      PROVE  ClientTypeOK' /\ InCall'
      BY <1>11 DEF Post, Unlink
<1>12. CASE UNCHANGED clientVars
      BY <1>12 DEF clientVars
<1> QED
    BY <1>1, <1>2, <1>3, <1>4, <1>5, <1>6, <1>7, <1>8, <1>9, <1>10, <1>11, <1>12
       DEF ClientNext, ClientStep, PttStep

\* Every variable of the client keeps its type, and a thread in a call wants
\* a page.
THEOREM ClientTypeCorrect == ClientSpec => [](ClientTypeOK /\ InCall)
<1> QED BY InitType, StepType, PTL DEF ClientSpec

----------------------------------------------------------------------------
(* The spacing of requests *)

\* The critical section has one thread at a time, quiet tells how long the
\* last request is over, and a thread in its pause waits for the remainder.
Spacing ==
    /\ \A t \in Threads : at[t] \in {"pause", "asked", "nap"} <=> holder = t
    /\ (\A t \in Threads : at[t] # "asked") => rest = quiet
    /\ \A t \in Threads : at[t] = "pause" => timer[t] >= Delay - quiet

LEMMA InitSpacing == ClientInit => Spacing
BY ClientAssumption DEF ClientInit, Spacing

LEMMA StepSpacing ==
    ClientTypeOK /\ Spacing /\ [ClientNext]_clientVars => Spacing'
<1> SUFFICES ASSUME ClientTypeOK, Spacing, [ClientNext]_clientVars
             PROVE  Spacing'
    OBVIOUS
<1> USE ClientAssumption DEF ClientTypeOK, Spacing, board, call, Waiting
<1>1. ASSUME NEW t \in Threads, NEW n \in 1..MaxPages, Crawl(t, n)
      PROVE  Spacing'
      BY <1>1 DEF Crawl
<1>2. ASSUME NEW t \in Threads, Return(t)
      PROVE  Spacing'
      BY <1>2 DEF Return
<1>3. ASSUME NEW t \in Threads, TakeLock(t)
      PROVE  Spacing'
      BY <1>3 DEF TakeLock, AtLeast
<1>4. ASSUME NEW t \in Threads, Send(t)
      PROVE  Spacing'
      BY <1>4 DEF Send
<1>5. ASSUME NEW t \in Threads, Answered(t)
      PROVE  Spacing'
      BY <1>5 DEF Answered, Over, Leave
<1>6. ASSUME NEW t \in Threads, Rejected(t)
      PROVE  Spacing'
      BY <1>6 DEF Rejected, Over, Leave
<1>7. ASSUME NEW t \in Threads, Broken(t)
      PROVE  Spacing'
      BY <1>7 DEF Broken, Over, Leave
<1>8. ASSUME NEW t \in Threads, Busy(t)
      PROVE  Spacing'
      BY <1>8 DEF Busy, Over, Leave
<1>9. ASSUME NEW t \in Threads, TryAgain(t)
      PROVE  Spacing'
      BY <1>9 DEF TryAgain
<1>10. CASE Tick
      BY <1>10 DEF Tick, AtMost, AtLeast
<1>11. ASSUME NEW a \in Articles, Post(a) \/ Unlink(a)
      PROVE  Spacing'
      BY <1>11 DEF Post, Unlink
<1>12. CASE UNCHANGED clientVars
      BY <1>12 DEF clientVars
<1> QED
    BY <1>1, <1>2, <1>3, <1>4, <1>5, <1>6, <1>7, <1>8, <1>9, <1>10, <1>11, <1>12
       DEF ClientNext, ClientStep, PttStep

\* The requests a process makes through _get keep their distance, whatever
\* fails and for any number of threads.
THEOREM RequestsAreSpaced == ClientSpec => Spaced
<1> DEFINE Apart(t) == at[t] # "asked" /\ at'[t] = "asked"
                       => rest = Delay /\ \A u \in Threads : at[u] # "asked"
<1>1. ClientTypeOK /\ Spacing /\ [ClientNext]_clientVars
      => [\A t \in Threads : Apart(t)]_clientVars
  <2> SUFFICES ASSUME ClientTypeOK, Spacing, [ClientNext]_clientVars,
                      NEW t \in Threads, at[t] # "asked", at'[t] = "asked"
               PROVE  rest = Delay /\ \A u \in Threads : at[u] # "asked"
    OBVIOUS
  <2>1. Send(t)
    BY ClientAssumption
       DEF ClientTypeOK, ClientNext, ClientStep, PttStep, clientVars, call, Waiting,
           Crawl, Return, TakeLock, Send, Answered, Rejected, Broken, Busy, TryAgain,
           Over, Leave, Tick, Post, Unlink
  <2>2. \A u \in Threads : at[u] # "asked"
    BY <2>1, ClientAssumption DEF Send, Spacing, ClientTypeOK
  <2>3. quiet = Delay
    BY <2>1, ClientAssumption DEF Send, Spacing, ClientTypeOK
  <2> QED BY <2>2, <2>3 DEF Spacing
<1>2. ClientSpec => [](ClientTypeOK /\ Spacing)
  BY InitType, StepType, InitSpacing, StepSpacing, PTL DEF ClientSpec
<1> QED BY <1>1, <1>2, PTL DEF ClientSpec, Spaced

----------------------------------------------------------------------------
(* What a crawl returns *)

\* While the call of t is under way: it has what there was on the pages above
\* the next one, and its window is what there was on those it is still to
\* read.  Nothing new appears on a page that is not the last.
Partial(t) ==
    /\ got[t] \subseteq window[t]
    /\ window[t] \subseteq posted
    /\ result[t] = "none" /\ page[t] = 0 => got[t] = {}
    /\ page[t] # 0 =>
          /\ page[t] < last
          /\ \A a \in window[t] : page[t] - left[t] < PageOf[a]
          /\ \A a \in window[t] \cap linked : page[t] < PageOf[a] => a \in got[t]
          /\ \A a \in linked :
                page[t] - left[t] < PageOf[a] /\ PageOf[a] <= page[t] => a \in window[t]

Snapshot ==
    /\ FetchIsSnapshot
    /\ \A t \in Threads : Partial(t)
    /\ \A a \in posted : PageOf[a] <= last

LEMMA InitSnapshot == ClientInit => Snapshot
BY DEF ClientInit, Snapshot, Partial, FetchIsSnapshot

\* A page that arrives keeps the call of t on its way to a snapshot.
LEMMA AnswerSnapshot ==
    ASSUME ClientTypeOK, InCall, Snapshot, NEW t \in Threads, Answered(t)
    PROVE  Snapshot'
<1> USE ClientAssumption
<1> DEFINE this == IF page[t] = 0 THEN last ELSE page[t]
           seen == IF page[t] = 0 THEN OnPages(this, left[t]) ELSE window[t]
<1>1. /\ this \in Nat /\ this >= 1 /\ this <= last /\ left[t] \in Nat /\ left[t] >= 1
      /\ last \in Nat
      /\ at[t] = "asked" /\ result[t] = "none"
  BY DEF Answered, Over, ClientTypeOK, InCall, Snapshot, Partial
<1>2. /\ UNCHANGED <<posted, linked, last>>
      /\ got' = [got EXCEPT ![t] = @ \cup OnPages(this, 1)]
      /\ window'[t] = seen
      /\ \A u \in Threads \ {t} :
            UNCHANGED <<at[u], left[u], page[u], got[u], window[u], result[u]>>
  BY DEF Answered, Over, Leave, ClientTypeOK, board
<1>3. got'[t] = got[t] \cup OnPages(this, 1)
  BY <1>2 DEF ClientTypeOK
<1>4. \A a \in Articles : PageOf[a] \in Nat /\ PageOf[a] >= 1
  OBVIOUS
<1>5. got'[t] \subseteq seen
  <2>1. CASE page[t] = 0
    BY <2>1, <1>1, <1>3, <1>4 DEF OnPages, Snapshot, Partial, ClientTypeOK
  <2>2. CASE page[t] # 0
    BY <2>2, <1>1, <1>3, <1>4 DEF OnPages, Snapshot, Partial, ClientTypeOK
  <2> QED BY <2>1, <2>2
<1>5a. seen \subseteq posted
  BY DEF OnPages, Snapshot, Partial, ClientTypeOK
<1>6. \A a \in seen : this - left[t] < PageOf[a]
  BY <1>1, <1>4 DEF OnPages, Snapshot, Partial, ClientTypeOK
<1>7. \A a \in seen \cap linked : this <= PageOf[a] => a \in got'[t]
  <2> SUFFICES ASSUME NEW a \in seen \cap linked, this <= PageOf[a]
               PROVE  a \in got'[t]
    OBVIOUS
  <2>1. a \in Articles
    BY DEF ClientTypeOK
  <2>2. CASE PageOf[a] = this
    BY <2>1, <2>2, <1>1, <1>3, <1>4 DEF OnPages
  <2>3. CASE PageOf[a] # this
    <3>1. page[t] # 0
      BY <2>1, <2>3, <1>1, <1>4 DEF OnPages
    <3> QED BY <3>1, <2>1, <2>3, <1>1, <1>3, <1>4 DEF Snapshot, Partial, ClientTypeOK
  <2> QED BY <2>2, <2>3
<1>8. \A a \in linked : this - left[t] < PageOf[a] /\ PageOf[a] <= this => a \in seen
  BY <1>1, <1>4 DEF OnPages, Snapshot, Partial, ClientTypeOK
<1>9. Partial(t)' /\ (result'[t] = "ok" => /\ got'[t] \subseteq window'[t]
                                          /\ window'[t] \cap linked' \subseteq got'[t])
  <2>1. CASE left[t] = 1 \/ this = 1
    <3>1. page'[t] = 0 /\ result'[t] = "ok"
      BY <2>1 DEF Answered, Leave, ClientTypeOK
    <3>2. \A a \in seen : this <= PageOf[a]
      BY <2>1, <1>1, <1>4, <1>6 DEF OnPages, ClientTypeOK
    <3> QED BY <3>1, <3>2, <1>2, <1>5, <1>5a, <1>7 DEF Partial
  <2>2. CASE ~(left[t] = 1 \/ this = 1)
    <3>1. page'[t] = this - 1 /\ left'[t] = left[t] - 1 /\ result'[t] = "none"
      BY <2>2, <1>1 DEF Answered, ClientTypeOK
    <3>2. /\ page'[t] # 0 /\ page'[t] < last
          /\ page'[t] - left'[t] = this - left[t]
      BY <3>1, <2>2, <1>1
    <3>3. \A a \in seen \cap linked : page'[t] < PageOf[a] => a \in got'[t]
      BY <3>1, <1>1, <1>4, <1>7 DEF ClientTypeOK
    <3>4. \A a \in linked : page'[t] - left'[t] < PageOf[a] /\ PageOf[a] <= page'[t]
                           => a \in seen
      BY <3>1, <3>2, <1>1, <1>4, <1>8 DEF ClientTypeOK
    <3> QED BY <3>1, <3>2, <3>3, <3>4, <1>2, <1>5, <1>5a, <1>6 DEF Partial
  <2> QED BY <2>1, <2>2
<1>10. \A u \in Threads \ {t} : Partial(u)'
  BY <1>2 DEF Snapshot, Partial
<1>11. FetchIsSnapshot'
  BY <1>2, <1>9 DEF Snapshot, FetchIsSnapshot
<1> QED BY <1>2, <1>9, <1>10, <1>11 DEF Snapshot

LEMMA StepSnapshot ==
    ClientTypeOK /\ InCall /\ Snapshot /\ [ClientNext]_clientVars => Snapshot'
<1> SUFFICES ASSUME ClientTypeOK, InCall, Snapshot, [ClientNext]_clientVars
             PROVE  Snapshot'
    OBVIOUS
<1> USE ClientAssumption DEF board, call
<1>1. ASSUME NEW t \in Threads, NEW n \in 1..MaxPages, Crawl(t, n)
      PROVE  Snapshot'
      BY <1>1 DEF Crawl, Snapshot, Partial, FetchIsSnapshot, InCall, ClientTypeOK
<1>2. ASSUME NEW t \in Threads, Return(t)
      PROVE  Snapshot'
      BY <1>2 DEF Return, Snapshot, Partial, FetchIsSnapshot, InCall, ClientTypeOK
<1>3. ASSUME NEW t \in Threads, TakeLock(t) \/ Send(t) \/ TryAgain(t)
      PROVE  Snapshot'
      BY <1>3 DEF TakeLock, Send, TryAgain, Snapshot, Partial, FetchIsSnapshot
<1>4. ASSUME NEW t \in Threads, Rejected(t) \/ Broken(t) \/ Busy(t)
      PROVE  Snapshot'
      BY <1>4 DEF Rejected, Broken, Busy, Leave, Snapshot, Partial, FetchIsSnapshot,
                  ClientTypeOK
<1>5. CASE Tick
      BY <1>5 DEF Tick, Snapshot, Partial, FetchIsSnapshot
<1>6. ASSUME NEW a \in Articles, Post(a)
      PROVE  Snapshot'
  <2>1. PageOf[a] >= last /\ PageOf[a] \in Nat /\ last \in Nat
    BY <1>6 DEF Post, ClientTypeOK
  <2>2. \A t \in Threads : Partial(t)'
    BY <1>6, <2>1 DEF Post, Snapshot, Partial, ClientTypeOK
  <2>3. \A b \in posted' : PageOf[b] <= last'
    BY <1>6, <2>1 DEF Post, Snapshot, ClientTypeOK
  <2>4. FetchIsSnapshot'
    BY <1>6 DEF Post, Snapshot, Partial, FetchIsSnapshot
  <2> QED BY <2>2, <2>3, <2>4 DEF Snapshot
<1>7. ASSUME NEW a \in Articles, Unlink(a)
      PROVE  Snapshot'
      BY <1>7 DEF Unlink, Snapshot, Partial, FetchIsSnapshot
<1>8. CASE UNCHANGED clientVars
      BY <1>8 DEF clientVars, Snapshot, Partial, FetchIsSnapshot
<1> QED
    BY <1>1, <1>2, <1>3, <1>4, <1>5, <1>6, <1>7, <1>8, AnswerSnapshot
       DEF ClientNext, ClientStep, PttStep

\* A crawl of several pages returns what one look at the board would have
\* shown, whatever is published or deleted between its requests.
THEOREM CrawlIsSnapshot == ClientSpec => []FetchIsSnapshot
<1>1. ClientSpec => []Snapshot
  BY InitType, StepType, InitSnapshot, StepSnapshot, PTL DEF ClientSpec
<1>2. Snapshot => FetchIsSnapshot
  BY DEF Snapshot
<1> QED BY <1>1, <1>2, PTL

----------------------------------------------------------------------------
(* A crawl is one look at the board *)

reads == [t \in Threads |-> Phase(t)]
answers == [t \in Threads |-> IF result[t] = "ok" THEN got[t] ELSE {}]
readVars == <<posted, linked, reads, window, answers>>

\* A step that concerns one thread leaves what the others read as it is.
LEMMA OthersRead ==
    ASSUME NEW t \in Threads,
           \A u \in Threads \ {t} : UNCHANGED <<at[u], page[u], got[u], result[u]>>
    PROVE  /\ reads' = [reads EXCEPT ![t] = Phase(t)']
           /\ answers' = [answers EXCEPT ![t] = IF result'[t] = "ok" THEN got'[t] ELSE {}]
<1>1. reads' = [reads EXCEPT ![t] = Phase(t)']
  BY DEF reads, Phase
<1>2. answers' = [answers EXCEPT ![t] = IF result'[t] = "ok" THEN got'[t] ELSE {}]
  BY DEF answers
<1> QED BY <1>1, <1>2

\* The first page of a crawl is its look; the last one, its answer.
LEMMA AnswerReads ==
    ASSUME ClientTypeOK, InCall, Snapshot, NEW t \in Threads, Answered(t)
    PROVE  AbstractRead!Next \/ UNCHANGED readVars
<1> USE ClientAssumption
<1> DEFINE this == IF page[t] = 0 THEN last ELSE page[t]
           done == left[t] = 1 \/ this = 1
<1>1. /\ at[t] = "asked" /\ result[t] = "none" /\ left[t] \in Nat /\ left[t] >= 1
      /\ this \in Nat \ {0} /\ last \in Nat /\ page[t] \in Nat
      /\ UNCHANGED <<posted, linked, last>>
      /\ \A u \in Threads \ {t} : UNCHANGED <<at[u], page[u], got[u], result[u]>>
  BY DEF Answered, Over, Leave, ClientTypeOK, InCall, board
<1>2. /\ reads' = [reads EXCEPT ![t] = Phase(t)']
      /\ answers' = [answers EXCEPT ![t] = IF result'[t] = "ok" THEN got'[t] ELSE {}]
  BY <1>1, OthersRead
<1>3. /\ done => Phase(t)' = "ok" /\ result'[t] = "ok"
      /\ ~done => Phase(t)' = "after" /\ result'[t] = "none"
  <2>1. CASE done
    BY <2>1, <1>1 DEF Answered, Leave, Phase, ClientTypeOK
  <2>2. CASE ~done
    BY <2>2, <1>1 DEF Answered, Phase, ClientTypeOK
  <2> QED BY <2>1, <2>2
<1>4. reads[t] = IF page[t] = 0 THEN "before" ELSE "after"
  BY <1>1 DEF reads, Phase
<1>5. answers[t] = {}
  BY <1>1 DEF answers
<1>6. CASE page[t] = 0
  <2> DEFINE some == OnPages(last, left[t])
  <2>1. some \in SUBSET Articles /\ AbstractRead!Newest(some)
    <3>1. \A a \in linked : PageOf[a] \in Nat /\ PageOf[a] <= last
      BY <1>1 DEF Snapshot, ClientTypeOK
    <3>2. some \in SUBSET linked /\ linked \subseteq Articles
      BY DEF OnPages, ClientTypeOK
    <3>3. \A a \in some : \A b \in linked \ some : PageOf[b] < PageOf[a]
      BY <1>1, <3>1 DEF OnPages
    <3> QED BY <3>2, <3>3 DEF AbstractRead!Newest
  <2>2. window' = [window EXCEPT ![t] = some]
    BY <1>6 DEF Answered
  <2>3. CASE done
    <3>1. got'[t] = some
      <4>1. got[t] = {}
        BY <1>1, <1>6 DEF Snapshot, Partial
      <4>2. got'[t] = OnPages(last, 1)
        BY <1>6, <4>1 DEF Answered, ClientTypeOK
      <4>3. \A a \in linked : PageOf[a] \in Nat \ {0}
        BY DEF ClientTypeOK
      <4>4. OnPages(last, 1) = some
        BY <2>3, <1>1, <1>6, <4>3 DEF OnPages
      <4> QED BY <4>2, <4>4
    <3>2. AbstractRead!Look(t)
      BY <2>1, <2>2, <2>3, <3>1, <1>1, <1>2, <1>3, <1>4, <1>6
         DEF AbstractRead!Look, reads, answers
    <3> QED BY <3>2 DEF AbstractRead!Next
  <2>4. CASE ~done
    <3>1. answers' = answers
      BY <2>4, <1>2, <1>3, <1>5 DEF answers
    <3>2. AbstractRead!Look(t)
      BY <2>1, <2>2, <2>4, <3>1, <1>1, <1>2, <1>3, <1>4, <1>6
         DEF AbstractRead!Look, reads, answers
    <3> QED BY <3>2 DEF AbstractRead!Next
  <2> QED BY <2>3, <2>4
<1>7. CASE page[t] # 0
  <2>1. window' = window
    BY <1>7 DEF Answered
  <2>2. CASE done
    <3>1. /\ got'[t] \subseteq window[t]
          /\ window[t] \cap linked \subseteq got'[t]
      BY <2>1, <2>2, <1>1, <1>3, AnswerSnapshot DEF Snapshot, FetchIsSnapshot
    <3>2. AbstractRead!Answer(t)
      BY <2>1, <2>2, <3>1, <1>1, <1>2, <1>3, <1>4, <1>7
         DEF AbstractRead!Answer, reads, answers
    <3> QED BY <3>2 DEF AbstractRead!Next
  <2>3. CASE ~done
    <3>1. reads' = reads
      BY <2>3, <1>2, <1>3, <1>4, <1>7 DEF reads
    <3>2. answers' = answers
      BY <2>3, <1>2, <1>3, <1>5 DEF answers
    <3> QED BY <3>1, <3>2, <2>1, <1>1 DEF readVars
  <2> QED BY <2>2, <2>3
<1> QED BY <1>6, <1>7

\* Every other step begins, fails or ends a call, changes the board, or is
\* not seen from outside.
LEMMA StepReads ==
    ClientTypeOK /\ InCall /\ Snapshot /\ [ClientNext]_clientVars
    => [AbstractRead!Next]_readVars
<1> SUFFICES ASSUME ClientTypeOK, InCall, Snapshot, [ClientNext]_clientVars
             PROVE  AbstractRead!Next \/ UNCHANGED readVars
    OBVIOUS
<1> USE ClientAssumption DEF board, call
<1>0. ASSUME NEW t \in Threads, Leave(t, "error"), Over(t), UNCHANGED <<got, window, board>>
      PROVE  AbstractRead!Next
  <2>1. /\ \A u \in Threads \ {t} : UNCHANGED <<at[u], page[u], got[u], result[u]>>
        /\ result[t] = "none" /\ at[t] = "asked" /\ Phase(t)' = "error" /\ result'[t] = "error"
    BY <1>0 DEF Leave, Over, Phase, InCall, ClientTypeOK
  <2>2. reads' = [reads EXCEPT ![t] = "error"] /\ answers' = answers
    BY <2>1, OthersRead DEF answers
  <2>3. reads[t] \in {"before", "after"}
    BY <2>1 DEF reads, Phase
  <2>4. AbstractRead!Fail(t)
    BY <1>0, <2>2, <2>3 DEF AbstractRead!Fail, reads, answers
  <2> QED BY <2>4 DEF AbstractRead!Next
<1>1. ASSUME NEW t \in Threads, NEW n \in 1..MaxPages, Crawl(t, n)
      PROVE  AbstractRead!Next
  <2>1. /\ \A u \in Threads \ {t} : UNCHANGED <<at[u], page[u], got[u], result[u]>>
        /\ reads[t] = "idle" /\ Phase(t)' = "before" /\ result'[t] = "none"
    BY <1>1 DEF Crawl, Phase, reads, InCall, ClientTypeOK
  <2>2. reads' = [reads EXCEPT ![t] = "before"] /\ answers' = answers
    BY <1>1, <2>1, OthersRead DEF answers, Crawl
  <2>3. AbstractRead!Begin(t)
    BY <1>1, <2>1, <2>2 DEF AbstractRead!Begin, Crawl, reads, answers
  <2> QED BY <2>3 DEF AbstractRead!Next
<1>2. ASSUME NEW t \in Threads, Return(t)
      PROVE  AbstractRead!Next
  <2>1. /\ \A u \in Threads \ {t} : UNCHANGED <<at[u], page[u], got[u], result[u]>>
        /\ reads[t] \in {"ok", "error"} /\ Phase(t)' = "idle" /\ result'[t] = "none"
    BY <1>2 DEF Return, Phase, reads, ClientTypeOK
  <2>2. /\ reads' = [reads EXCEPT ![t] = "idle"]
        /\ answers' = [answers EXCEPT ![t] = {}]
    BY <2>1, OthersRead
  <2>3. AbstractRead!End(t)
    BY <1>2, <2>1, <2>2 DEF AbstractRead!End, Return, reads, answers
  <2> QED BY <2>3 DEF AbstractRead!Next
<1>3. ASSUME NEW t \in Threads, TakeLock(t) \/ Send(t) \/ TryAgain(t)
      PROVE  UNCHANGED readVars
  <2>1. /\ UNCHANGED <<page, got, result, posted, linked, window>>
        /\ \A u \in Threads : at'[u] = "out" <=> at[u] = "out"
    BY <1>3 DEF TakeLock, Send, TryAgain, Waiting, ClientTypeOK
  <2> QED BY <2>1 DEF readVars, reads, answers, Phase
<1>4. ASSUME NEW t \in Threads, Rejected(t) \/ Broken(t) \/ Busy(t)
      PROVE  AbstractRead!Next \/ UNCHANGED readVars
  <2>1. CASE Leave(t, "error")
    BY <2>1, <1>0, <1>4 DEF Rejected, Broken, Busy
  <2>2. CASE ~Leave(t, "error")
    <3>1. /\ UNCHANGED <<page, got, result, posted, linked, window>>
          /\ \A u \in Threads : at'[u] = "out" <=> at[u] = "out"
      BY <1>4, <2>2 DEF Rejected, Broken, Busy, Over, ClientTypeOK
    <3> QED BY <3>1 DEF readVars, reads, answers, Phase
  <2> QED BY <2>1, <2>2
<1>5. CASE Tick
  BY <1>5 DEF Tick, readVars, reads, answers, Phase
<1>6. ASSUME NEW a \in Articles, Post(a)
      PROVE  AbstractRead!Next
  <2>1. \A b \in posted : PageOf[b] <= PageOf[a]
    BY <1>6 DEF Post, Snapshot, ClientTypeOK
  <2>2. reads' = reads /\ answers' = answers /\ window' = window
    BY <1>6 DEF Post, reads, answers, Phase
  <2>3. AbstractRead!Appear(a)
    BY <1>6, <2>1, <2>2 DEF Post, AbstractRead!Appear, reads, answers
  <2> QED BY <2>3 DEF AbstractRead!Next
<1>7. ASSUME NEW a \in Articles, Unlink(a)
      PROVE  AbstractRead!Next
  <2>1. reads' = reads /\ answers' = answers /\ window' = window
    BY <1>7 DEF Unlink, reads, answers, Phase
  <2>2. AbstractRead!Vanish(a)
    BY <1>7, <2>1 DEF Unlink, AbstractRead!Vanish, reads, answers
  <2> QED BY <2>2 DEF AbstractRead!Next
<1>8. CASE UNCHANGED clientVars
  BY <1>8 DEF clientVars, readVars, reads, answers, Phase
<1> QED
    BY <1>1, <1>2, <1>3, <1>4, <1>5, <1>6, <1>7, <1>8, AnswerReads
       DEF ClientNext, ClientStep, PttStep

\* However many requests, retries and pauses a crawl takes, and whatever the
\* other threads do, its callers see one look at the board.
THEOREM Refinement == ClientSpec => ImplementsBoardRead
<1>1. ClientInit => AbstractRead!Init
  BY DEF ClientInit, AbstractRead!Init, Phase
<1>2. ClientSpec => [](ClientTypeOK /\ InCall /\ Snapshot)
  BY InitType, StepType, InitSnapshot, StepSnapshot, PTL DEF ClientSpec
<1>3. ClientTypeOK /\ InCall /\ Snapshot /\ [ClientNext]_clientVars
      => [AbstractRead!Next]_readVars
  BY StepReads
<1> QED
  BY <1>1, <1>2, <1>3, PTL
     DEF ClientSpec, ImplementsBoardRead, AbstractRead!Spec, readVars, reads, answers
=============================================================================
