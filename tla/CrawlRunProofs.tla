--------------------------- MODULE CrawlRunProofs ---------------------------
(***************************************************************************)
(* Proofs about CrawlRun for any processes, boards, articles, rules and    *)
(* numbers of faults, with and without runs that outlast their lock.       *)
(*                                                                         *)
(* NoMissedMatch depends on what a run carries between its reads and its   *)
(* commit (Carried), on stamps that never change once an article is known  *)
(* (Known), and on ids that are never used twice (FreshIds).               *)
(***************************************************************************)
EXTENDS CrawlRun, TLAPS

----------------------------------------------------------------------------
\* Every step of runs, users and PTT keeps the type of every variable.
THEOREM TypeCorrect == Spec => []TypeOK
<1> USE CrawlAssumption
<1>1. Init => TypeOK
  BY DEF Init, TypeOK, NoRules, Rules
<1>2. TypeOK /\ [Next]_vars => TypeOK'
  <2> SUFFICES ASSUME TypeOK, [Next]_vars PROVE TypeOK'
    OBVIOUS
  <2> USE DEF TypeOK, tables, ptt, work
  <2>0. NoRules \in [Rules -> {None} \cup RuleRow]
    BY DEF NoRules
  <2>1. ASSUME NEW c \in Crawlers, RunStart(c) PROVE TypeOK'
    BY <2>1 DEF RunStart
  <2>2. ASSUME NEW c \in Crawlers, RunSkip(c) PROVE TypeOK'
    BY <2>2 DEF RunSkip
  <2>3. ASSUME NEW c \in Crawlers, Work(c) PROVE TypeOK'
    <3>1. CASE LoadRules(c)
      BY <3>1 DEF LoadRules, ActiveBoards
    <3>2. CASE PruneSnapshots(c)
      BY <3>2 DEF PruneSnapshots, Stale
    <3>3. CASE FetchBoard(c)
      BY <3>3 DEF FetchBoard, NextBoard
    <3>4. CASE ReadBoard(c)
      BY <3>4 DEF ReadBoard, Unseen
    <3>5. CASE CommitBoard(c)
      <4>1. Found(c) \subseteq Rules \X Articles
        BY DEF Found
      <4> QED BY <3>5, <4>1 DEF CommitBoard, LoseSnapshots
    <3>6. CASE WriteFails(c)
      BY <3>6, <2>0 DEF WriteFails, RollBack, ForgetWork
    <3>7. CASE RunFinish(c)
      BY <3>7, <2>0 DEF RunFinish, ForgetWork, LoseSnapshots
    <3>8. CASE RunRelease(c)
      BY <3>8 DEF RunRelease
    <3> QED
      BY <2>3, <3>1, <3>2, <3>3, <3>4, <3>5, <3>6, <3>7, <3>8 DEF Work
  <2>4. ASSUME NEW c \in Crawlers, FetchFails(c) PROVE TypeOK'
    BY <2>4 DEF FetchFails, NextBoard
  <2>5. ASSUME NEW c \in Crawlers, RunFails(c) PROVE TypeOK'
    BY <2>5, <2>0 DEF RunFails, RollBack, ForgetWork
  <2>6. ASSUME NEW c \in Crawlers, Crash(c) PROVE TypeOK'
    BY <2>6, <2>0 DEF Crash, ForgetWork
  <2>7. ASSUME NEW c \in Crawlers, LockOverrun(c) PROVE TypeOK'
    BY <2>7 DEF LockOverrun
  <2>8. ASSUME LockExpires PROVE TypeOK'
    BY <2>8 DEF LockExpires
  <2>9. ASSUME NEW row \in NewRules, CreateRule(row) PROVE TypeOK'
    BY <2>9 DEF CreateRule, Rules
  <2>10. ASSUME NEW r \in Rules, DeleteRule(r) PROVE TypeOK'
    BY <2>10 DEF DeleteRule
  <2>11. ASSUME NEW r \in Rules, NEW row \in EditedRules, UpdateRule(r, row)
         PROVE  TypeOK'
    BY <2>11 DEF UpdateRule
  <2>12. ASSUME NEW a \in Articles, Publish(a) PROVE TypeOK'
    BY <2>12 DEF Publish
  <2>13. ASSUME NEW a \in Articles, Unlist(a) PROVE TypeOK'
    BY <2>13 DEF Unlist
  <2>14. CASE UNCHANGED vars
    BY <2>14 DEF vars
  <2> QED
    BY <2>1, <2>2, <2>3, <2>4, <2>5, <2>6, <2>7, <2>8, <2>9, <2>10, <2>11,
       <2>12, <2>13, <2>14 DEF Next
<1> QED BY <1>1, <1>2, PTL DEF Spec

----------------------------------------------------------------------------
\* Whatever a run or the tables know of has been published, so that its
\* stamp is fixed.
Known ==
    /\ seen \subseteq Published
    /\ listed \subseteq Published
    /\ \A c \in Crawlers : fetched[c] \subseteq Published

\* What a run holds of its board: only articles of that board, and in
\* `fetched \ fresh` only articles that were processed when it looked.
Carried ==
    \A c \in Crawlers :
        /\ \A a \in fetched[c] : BoardOf[a] = cur[c]
        /\ fresh[c] \subseteq fetched[c]
        /\ pc[c] # "write" => fresh[c] = {}
        /\ pc[c] = "write" => fetched[c] \ fresh[c] \subseteq seen

\* Ids above `created` have never been a rule.
FreshIds == \A r \in Rules : rule[r] # None => r <= created

Bookkeeping == Known /\ Carried /\ FreshIds

THEOREM BookkeepingCorrect == Spec => []Bookkeeping
<1> USE CrawlAssumption
<1>1. Init => Bookkeeping
  BY DEF Init, NoRules, Bookkeeping, Known, Carried, FreshIds, Published
<1>2. TypeOK /\ TypeOK' /\ Bookkeeping /\ [Next]_vars => Bookkeeping'
  <2> SUFFICES ASSUME TypeOK, TypeOK', Bookkeeping, [Next]_vars
               PROVE  Bookkeeping'
    OBVIOUS
  <2> USE DEF Bookkeeping, Known, Carried, FreshIds, Published, tables, ptt, work
  <2>1. ASSUME NEW c \in Crawlers,
               UNCHANGED <<rule, created, seen, ptt, cur, fetched, fresh>>,
               \/ UNCHANGED pc
               \/ pc[c] # "write" /\ \E s : s # "write" /\ pc' = [pc EXCEPT ![c] = s]
        PROVE  Bookkeeping'
    BY <2>1 DEF TypeOK
  <2>13. ASSUME NEW c \in Crawlers,
               \/ RunStart(c) \/ RunSkip(c) \/ LoadRules(c) \/ PruneSnapshots(c)
               \/ FetchFails(c) \/ RunRelease(c) \/ LockOverrun(c)
        PROVE  Bookkeeping'
    <3>1. ASSUME RunStart(c) \/ RunSkip(c) \/ LockOverrun(c) PROVE Bookkeeping'
      BY <2>1, <3>1 DEF RunStart, RunSkip, LockOverrun
    <3>2. ASSUME LoadRules(c) \/ PruneSnapshots(c) PROVE Bookkeeping'
      BY <2>1, <3>2 DEF LoadRules, PruneSnapshots
    <3>3. ASSUME FetchFails(c) \/ RunRelease(c) PROVE Bookkeeping'
      BY <2>1, <3>3 DEF FetchFails, RunRelease
    <3> QED BY <2>13, <3>1, <3>2, <3>3
  <2>2. ASSUME NEW c \in Crawlers, FetchBoard(c) PROVE Bookkeeping'
    BY <2>2 DEF TypeOK, FetchBoard, NextBoard
  <2>3. ASSUME NEW c \in Crawlers, ReadBoard(c) PROVE Bookkeeping'
    BY <2>3 DEF TypeOK, ReadBoard, Unseen
  <2>4. ASSUME NEW c \in Crawlers, CommitBoard(c) PROVE Bookkeeping'
    BY <2>4 DEF TypeOK, CommitBoard
  <2>5. ASSUME NEW c \in Crawlers, NEW refs, ForgetWork(c, refs), pc'[c] # "write",
               \A d \in Crawlers \ {c} : pc'[d] = pc[d],
               UNCHANGED <<seen, ptt, rule, created>>
        PROVE  Bookkeeping'
    BY <2>5 DEF TypeOK, ForgetWork
  <2>6. ASSUME NEW c \in Crawlers,
               RunFinish(c) \/ WriteFails(c) \/ RunFails(c) \/ Crash(c)
        PROVE  Bookkeeping'
    <3>1. CASE RunFinish(c)
      BY <2>5, <3>1 DEF TypeOK, RunFinish
    <3>2. CASE WriteFails(c)
      BY <2>5, <3>2 DEF TypeOK, WriteFails, RollBack
    <3>3. CASE RunFails(c)
      BY <2>5, <3>3 DEF TypeOK, RunFails, RollBack
    <3>4. CASE Crash(c)
      BY <2>5, <3>4 DEF TypeOK, Crash
    <3> QED BY <2>6, <3>1, <3>2, <3>3, <3>4
  <2>7. CASE LockExpires
    BY <2>7 DEF LockExpires
  <2>8. ASSUME NEW row \in NewRules, CreateRule(row) PROVE Bookkeeping'
    BY <2>8 DEF TypeOK, CreateRule, Rules
  <2>9. ASSUME NEW r \in Rules,
               DeleteRule(r) \/ \E row \in EditedRules : UpdateRule(r, row)
        PROVE  Bookkeeping'
    BY <2>9 DEF TypeOK, DeleteRule, UpdateRule
  <2>10. ASSUME NEW a \in Articles, Publish(a) PROVE Bookkeeping'
    BY <2>10 DEF TypeOK, Publish
  <2>11. ASSUME NEW a \in Articles, Unlist(a) PROVE Bookkeeping'
    BY <2>11 DEF TypeOK, Unlist
  <2>12. CASE UNCHANGED vars
    BY <2>12 DEF vars
  <2> QED
    BY <2>13, <2>2, <2>3, <2>4, <2>6, <2>7, <2>8, <2>9, <2>10, <2>11, <2>12
    DEF Next, Work
<1> QED BY <1>1, <1>2, TypeCorrect, PTL DEF Spec

----------------------------------------------------------------------------
\* Steps that touch none of what the three invariants below speak of.
Elsewhere == UNCHANGED <<rule, created, seen, matches, born, exempt>>

LEMMA MostStepsElsewhere ==
  ASSUME [Next]_vars
  PROVE  \/ Elsewhere
         \/ \E c \in Crawlers : CommitBoard(c)
         \/ \E row \in NewRules : CreateRule(row)
         \/ \E r \in Rules : DeleteRule(r)
         \/ \E r \in Rules, row \in EditedRules : UpdateRule(r, row)
         \/ \E a \in Articles : Publish(a)
<1> USE DEF Elsewhere, tables, ptt, work
<1>1. ASSUME NEW c \in Crawlers,
             \/ RunStart(c) \/ RunSkip(c) \/ LoadRules(c) \/ PruneSnapshots(c)
             \/ FetchBoard(c) \/ FetchFails(c) \/ ReadBoard(c)
             \/ RunRelease(c) \/ LockOverrun(c)
      PROVE  Elsewhere
  BY <1>1 DEF RunStart, RunSkip, LoadRules, PruneSnapshots, FetchBoard,
              FetchFails, ReadBoard, RunRelease, LockOverrun
<1>2. ASSUME NEW c \in Crawlers,
             RunFinish(c) \/ WriteFails(c) \/ RunFails(c) \/ Crash(c)
      PROVE  Elsewhere
  BY <1>2 DEF RunFinish, WriteFails, RunFails, RollBack, Crash
<1>3. ASSUME LockExpires \/ \E a \in Articles : Unlist(a) PROVE Elsewhere
  BY <1>3 DEF LockExpires, Unlist
<1>4. ASSUME UNCHANGED vars PROVE Elsewhere
  BY <1>4 DEF vars
<1> QED BY <1>1, <1>2, <1>3, <1>4 DEF Next, Work

\* What CommitBoard inserts is wanted by rules that still exist, and is new.
LEMMA FoundIsJustified ==
  ASSUME TypeOK, Bookkeeping, NEW c \in Crawlers, CommitBoard(c), NEW m \in Found(c)
  PROVE  rule[m[1]] # None /\ m[2] \in seen' /\ Newer(m[2], m[1])
BY DEF CommitBoard, Conflict, Orphaned, Found, Matching

\* No match without its rule and its article, none older than its rule:
\* edits and deletions may come between the reads of a run and its commits.
THEOREM MatchesAreJustified == Spec => []MatchesJustified
<1> USE CrawlAssumption
<1>1. Init => MatchesJustified
  BY DEF Init, MatchesJustified
<1>2. TypeOK /\ Bookkeeping /\ MatchesJustified /\ [Next]_vars => MatchesJustified'
  <2> SUFFICES ASSUME TypeOK, Bookkeeping, MatchesJustified, [Next]_vars,
                      NEW m \in matches'
               PROVE  rule'[m[1]] # None /\ m[2] \in seen' /\ Newer(m[2], m[1])'
    BY DEF MatchesJustified
  <2> USE DEF MatchesJustified
  <2>1. CASE Elsewhere
    BY <2>1 DEF Elsewhere, Newer
  <2>2. ASSUME NEW c \in Crawlers, CommitBoard(c)
        PROVE  rule'[m[1]] # None /\ m[2] \in seen' /\ Newer(m[2], m[1])'
    <3>1. UNCHANGED <<rule, born>> /\ matches' = matches \cup Found(c)
          /\ seen \subseteq seen'
      BY <2>2 DEF CommitBoard, ptt
    <3>2. CASE m \in matches
      BY <3>1, <3>2 DEF Newer
    <3>3. CASE m \in Found(c)
      BY <2>2, <3>1, <3>3, FoundIsJustified DEF Newer
    <3> QED BY <3>1, <3>2, <3>3
  <2>3. ASSUME NEW row \in NewRules, CreateRule(row)
        PROVE  rule'[m[1]] # None /\ m[2] \in seen' /\ Newer(m[2], m[1])'
    BY <2>3 DEF CreateRule, TypeOK, Newer, ptt
  <2>4. ASSUME NEW r \in Rules, DeleteRule(r)
        PROVE  rule'[m[1]] # None /\ m[2] \in seen' /\ Newer(m[2], m[1])'
    BY <2>4 DEF DeleteRule, TypeOK, Newer, ptt
  <2>5. ASSUME NEW r \in Rules, NEW row \in EditedRules, UpdateRule(r, row)
        PROVE  rule'[m[1]] # None /\ m[2] \in seen' /\ Newer(m[2], m[1])'
    BY <2>5 DEF UpdateRule, TypeOK, Newer, ptt
  <2>6. ASSUME NEW a \in Articles, Publish(a)
        PROVE  rule'[m[1]] # None /\ m[2] \in seen' /\ Newer(m[2], m[1])'
    BY <2>6 DEF Publish, TypeOK, Newer, tables
  <2> QED
    BY <2>1, <2>2, <2>3, <2>4, <2>5, <2>6, MostStepsElsewhere
<1> QED BY <1>1, <1>2, TypeCorrect, BookkeepingCorrect, PTL DEF Spec

----------------------------------------------------------------------------
\* A processed article has its match for every rule that wants it, is not
\* younger than it and read the same by the run: no order of runs, commits,
\* failures and crashes loses one.
THEOREM NoneMissed == Spec => []NoMissedMatch
<1> USE CrawlAssumption
<1>1. Init => NoMissedMatch
  BY DEF Init, NoMissedMatch
<1>2. TypeOK /\ TypeOK' /\ Bookkeeping /\ NoMissedMatch /\ [Next]_vars
      => NoMissedMatch'
  <2> SUFFICES ASSUME TypeOK, TypeOK', Bookkeeping, NoMissedMatch, [Next]_vars,
                      NEW r \in Rules, NEW a \in seen', a \notin exempt'[r],
                      Wants(rule'[r], a), Newer(a, r)'
               PROVE  <<r, a>> \in matches'
    BY DEF NoMissedMatch, Wants
  <2> USE DEF NoMissedMatch
  <2>1. CASE Elsewhere
    BY <2>1 DEF Elsewhere, Newer
  <2>2. ASSUME NEW c \in Crawlers, CommitBoard(c) PROVE <<r, a>> \in matches'
    <3>1. UNCHANGED <<rule, born>> /\ matches' = matches \cup Found(c)
          /\ seen' = seen \cup fresh[c]
      BY <2>2 DEF CommitBoard, ptt
    <3>2. a \notin exempt[r]
      BY <2>2 DEF CommitBoard
    <3>3. CASE a \in seen
      BY <3>1, <3>2, <3>3 DEF Newer
    <3>4. CASE a \in fresh[c]
      <4>1. loaded[c][r] = rule[r]
        BY <2>2, <3>4 DEF CommitBoard
      <4>2. BoardOf[a] = cur[c]
        BY <3>4 DEF Bookkeeping, Carried
      <4>3. <<r, a>> \in Found(c)
        BY <3>1, <3>4, <4>1, <4>2 DEF Found, Matching, Wants, Newer
      <4> QED BY <3>1, <4>3
    <3> QED BY <3>1, <3>3, <3>4
  <2>3. ASSUME NEW row \in NewRules, CreateRule(row) PROVE <<r, a>> \in matches'
    BY <2>3 DEF CreateRule, TypeOK, Newer, ptt
  <2>4. ASSUME NEW s \in Rules, DeleteRule(s) PROVE <<r, a>> \in matches'
    <3>1. r # s
      BY <2>4 DEF DeleteRule, TypeOK, Wants
    <3> QED BY <2>4, <3>1 DEF DeleteRule, TypeOK, Newer, ptt
  <2>5. ASSUME NEW s \in Rules, NEW row \in EditedRules, UpdateRule(s, row)
        PROVE  <<r, a>> \in matches'
    BY <2>5 DEF UpdateRule, TypeOK, Newer, ptt
  <2>6. ASSUME NEW b \in Articles, Publish(b) PROVE <<r, a>> \in matches'
    <3>1. a # b
      BY <2>6 DEF Publish, tables, Bookkeeping, Known, Published
    <3> QED BY <2>6, <3>1 DEF Publish, TypeOK, Newer, tables
  <2> QED BY <2>1, <2>2, <2>3, <2>4, <2>5, <2>6, MostStepsElsewhere
<1> QED BY <1>1, <1>2, TypeCorrect, BookkeepingCorrect, PTL DEF Spec

----------------------------------------------------------------------------
\* The preview of a board never shows an article that no run has processed,
\* although snapshots are written from listings of any age.
THEOREM SnapshotsAreSeen == Spec => []SnapshotSeen
<1> USE CrawlAssumption
<1>1. Init => SnapshotSeen
  BY DEF Init, SnapshotSeen
<1>2. TypeOK /\ Bookkeeping /\ SnapshotSeen /\ [Next]_vars => SnapshotSeen'
  <2> SUFFICES ASSUME TypeOK, Bookkeeping, SnapshotSeen, [Next]_vars,
                      NEW b \in Boards, snap'[b] # None
               PROVE  snap'[b] \subseteq seen'
    BY DEF SnapshotSeen
  <2>1. CASE seen' = seen /\ snap'[b] = snap[b]
    BY <2>1 DEF SnapshotSeen
  <2>2. ASSUME NEW c \in Crawlers, CommitBoard(c) PROVE snap'[b] \subseteq seen'
    <3>1. seen' = seen \cup fresh[c] /\ fetched[c] \subseteq seen'
      BY <2>2 DEF CommitBoard, Bookkeeping, Carried
    <3>2. CASE b = cur[c]
      BY <2>2, <3>1, <3>2 DEF CommitBoard
    <3>3. CASE b # cur[c]
      BY <2>2, <3>1, <3>3 DEF CommitBoard, SnapshotSeen
    <3> QED BY <3>2, <3>3
  <2>3. ASSUME NEW c \in Crawlers, RunFinish(c) PROVE snap'[b] \subseteq seen'
    BY <2>3 DEF RunFinish, SnapshotSeen
  <2>4. CASE \/ UNCHANGED <<seen, snap>>
             \/ \E c \in Crawlers : CommitBoard(c) \/ RunFinish(c)
    BY <2>1, <2>2, <2>3, <2>4
  <2>5. \/ UNCHANGED <<seen, snap>>
        \/ \E c \in Crawlers : CommitBoard(c) \/ RunFinish(c)
    <3> USE DEF tables, ptt, work
    <3>1. ASSUME NEW c \in Crawlers,
                 \/ RunStart(c) \/ RunSkip(c) \/ LoadRules(c)
                 \/ PruneSnapshots(c) \/ FetchBoard(c) \/ FetchFails(c)
                 \/ ReadBoard(c) \/ RunRelease(c) \/ LockOverrun(c)
                 \/ WriteFails(c) \/ RunFails(c) \/ Crash(c)
          PROVE  UNCHANGED <<seen, snap>>
      BY <3>1 DEF RunStart, RunSkip, LoadRules, PruneSnapshots, FetchBoard,
                  FetchFails, ReadBoard, RunRelease, LockOverrun, WriteFails,
                  RunFails, RollBack, Crash
    <3>2. ASSUME \/ LockExpires
                 \/ \E row \in NewRules : CreateRule(row)
                 \/ \E r \in Rules : \/ DeleteRule(r)
                                     \/ \E row \in EditedRules : UpdateRule(r, row)
                 \/ \E a \in Articles : Publish(a) \/ Unlist(a)
                 \/ UNCHANGED vars
          PROVE  UNCHANGED <<seen, snap>>
      BY <3>2 DEF LockExpires, CreateRule, DeleteRule, UpdateRule, Publish,
                  Unlist, vars
    <3> QED BY <3>1, <3>2 DEF Next, Work
  <2> QED BY <2>4, <2>5
<1> QED BY <1>1, <1>2, TypeCorrect, BookkeepingCorrect, PTL DEF Spec

----------------------------------------------------------------------------
(* One run at a time *)

\* While no run outlasts its lease, the crawl lock belongs to whoever runs.
Holding == \A c \in Crawlers : pc[c] # "idle" => lock = c

LEMMA InitHolding == Init => Holding
BY DEF Init, Holding

LEMMA StepHolding == ~Overrun /\ TypeOK /\ Holding /\ [Next]_vars => Holding'
<1> SUFFICES ASSUME ~Overrun, TypeOK, Holding, [Next]_vars PROVE Holding'
  OBVIOUS
<1> USE DEF tables, ptt, work, TypeOK
<1>1. ASSUME NEW c \in Crawlers, RunStart(c) PROVE Holding'
  BY <1>1, CrawlAssumption DEF RunStart, LockFree, Holding
<1>2. ASSUME NEW c \in Crawlers, UNCHANGED lock, pc[c] # "idle",
             \A d \in Crawlers \ {c} : pc'[d] = pc[d]
      PROVE  Holding'
  BY <1>2 DEF Holding
<1>3. ASSUME NEW c \in Crawlers,
             LoadRules(c) \/ PruneSnapshots(c) \/ FetchBoard(c) \/ ReadBoard(c)
      PROVE  Holding'
  BY <1>2, <1>3 DEF LoadRules, PruneSnapshots, FetchBoard, NextBoard, ReadBoard
<1>4. ASSUME NEW c \in Crawlers, CommitBoard(c) \/ FetchFails(c) PROVE Holding'
  BY <1>2, <1>4 DEF CommitBoard, FetchFails, NextBoard
<1>5. ASSUME NEW c \in Crawlers,
             WriteFails(c) \/ RunFinish(c) \/ RunFails(c) \/ Crash(c)
      PROVE  Holding'
  BY <1>2, <1>5 DEF WriteFails, RunFinish, RunFails, RollBack, Crash
<1>6. ASSUME NEW c \in Crawlers, RunRelease(c) PROVE Holding'
  BY <1>6 DEF RunRelease, Holding
<1>7. ASSUME NEW c \in Crawlers, RunSkip(c) \/ LockOverrun(c) PROVE Holding'
  BY <1>7 DEF RunSkip, LockOverrun, Holding
<1>8. CASE LockExpires
  BY <1>8 DEF LockExpires, Holding
<1>9. CASE \/ \E row \in NewRules : CreateRule(row)
           \/ \E r \in Rules : DeleteRule(r) \/ \E row \in EditedRules : UpdateRule(r, row)
           \/ \E a \in Articles : Publish(a) \/ Unlist(a)
  BY <1>9 DEF CreateRule, DeleteRule, UpdateRule, Publish, Unlist, Holding
<1>10. CASE UNCHANGED vars
  BY <1>10 DEF vars, Holding
<1> QED
  BY <1>1, <1>3, <1>4, <1>5, <1>6, <1>7, <1>8, <1>9, <1>10 DEF Next, Work

\* As long as runs end before their lease does, only one works at any time,
\* for any number of processes, crashes and skipped runs.
THEOREM OneRun == ASSUME ~Overrun PROVE Spec => []OneRunAtATime
<1>1. Init => Holding
  BY InitHolding
<1>2. TypeOK /\ Holding /\ [Next]_vars => Holding'
  BY StepHolding
<1>3. Holding => OneRunAtATime
  BY DEF Holding, OneRunAtATime
<1> QED BY <1>1, <1>2, <1>3, TypeCorrect, PTL DEF Spec

----------------------------------------------------------------------------
(* What a successful run leaves behind *)

\* Only a run that reads or writes is at a board.
AtBoard == \A c \in Crawlers : pc[c] \notin {"read", "write"} => cur[c] = None

LEMMA InitAtBoard == Init => AtBoard
BY DEF Init, AtBoard

LEMMA StepAtBoard == TypeOK /\ AtBoard /\ [Next]_vars => AtBoard'
<1> SUFFICES ASSUME TypeOK, AtBoard, [Next]_vars PROVE AtBoard'
  OBVIOUS
<1> USE DEF AtBoard, tables, ptt, work
<1>1. ASSUME NEW c \in Crawlers,
             \/ RunStart(c) \/ RunSkip(c) \/ LoadRules(c) \/ PruneSnapshots(c)
             \/ ReadBoard(c) \/ RunRelease(c) \/ LockOverrun(c)
      PROVE  AtBoard'
  BY <1>1 DEF RunStart, RunSkip, LoadRules, PruneSnapshots, ReadBoard, RunRelease,
              LockOverrun, TypeOK
<1>2. ASSUME NEW c \in Crawlers, FetchBoard(c) \/ FetchFails(c) PROVE AtBoard'
  BY <1>2 DEF FetchBoard, FetchFails, TypeOK
<1>3. ASSUME NEW c \in Crawlers, CommitBoard(c) PROVE AtBoard'
  BY <1>3 DEF CommitBoard, TypeOK
<1>4. ASSUME NEW c \in Crawlers,
             WriteFails(c) \/ RunFinish(c) \/ RunFails(c) \/ Crash(c)
      PROVE  AtBoard'
  BY <1>4 DEF WriteFails, RunFinish, RunFails, RollBack, Crash, ForgetWork, TypeOK
<1>5. CASE \/ LockExpires
           \/ \E row \in NewRules : CreateRule(row)
           \/ \E r \in Rules : DeleteRule(r) \/ \E row \in EditedRules : UpdateRule(r, row)
           \/ \E a \in Articles : Publish(a) \/ Unlist(a)
  BY <1>5 DEF LockExpires, CreateRule, DeleteRule, UpdateRule, Publish, Unlist
<1>6. CASE UNCHANGED vars
  BY <1>6 DEF vars
<1> QED BY <1>1, <1>2, <1>3, <1>4, <1>5, <1>6 DEF Next, Work

\* What a run has done so far: the boards it has dealt with have snapshots,
\* unless it is in trouble, and those it has no rules for have none, or one
\* that goes with the next commit.
Covered(c) ==
    LET active == ActiveBoards(loaded[c]) IN
    /\ pc[c] = "prune" => todo[c] = active
    /\ pc[c] \in {"fetch", "read", "write"} =>
          /\ todo[c] \subseteq active
          /\ pc[c] # "fetch" => cur[c] \in active
          /\ \A b \in active : b \notin doomed[c]
          /\ \A b \in Boards \ active : snap[b] # None => b \in doomed[c]
          /\ ~troubled[c] => \A b \in active \ todo[c] : b # cur[c] => snap[b] # None

AllCovered == \A c \in Crawlers : Covered(c)

LEMMA InitCovered == Init => AllCovered
BY DEF Init, AllCovered, Covered

\* Nobody writes snapshots beside a run.
LEMMA AloneCovered ==
    ASSUME TypeOK, Holding, AllCovered, NEW c \in Crawlers, pc[c] # "idle",
           \A d \in Crawlers \ {c} : pc'[d] = pc[d], Covered(c)'
    PROVE  AllCovered'
<1> SUFFICES ASSUME NEW d \in Crawlers, d # c PROVE Covered(d)'
  BY DEF AllCovered
<1>1. pc'[d] = "idle"
  BY DEF Holding
<1> QED BY <1>1 DEF Covered

LEMMA StepCovered ==
    /\ ~Overrun /\ TypeOK /\ TypeOK' /\ Holding /\ AtBoard /\ AllCovered
    /\ [Next]_vars
    => AllCovered'
<1> SUFFICES ASSUME ~Overrun, TypeOK, TypeOK', Holding, AtBoard, AllCovered,
                    [Next]_vars
             PROVE  AllCovered'
  OBVIOUS
<1>0. \A rows : ActiveBoards(rows) \subseteq Boards
  BY DEF ActiveBoards
<1>0a. None \notin Boards
  BY CrawlAssumption
<1>1. ASSUME NEW c \in Crawlers, LoadRules(c) PROVE AllCovered'
  <2>1. Covered(c)'
    BY <1>1 DEF LoadRules, TypeOK, Covered
  <2> QED BY <1>1, <2>1, AloneCovered DEF LoadRules, TypeOK
<1>2. ASSUME NEW c \in Crawlers, PruneSnapshots(c) PROVE AllCovered'
  <2>1. /\ pc[c] = "prune" /\ pc' = [pc EXCEPT ![c] = "fetch"]
        /\ doomed' = [doomed EXCEPT ![c] = Stale(c)]
        /\ UNCHANGED <<snap, loaded, todo, cur, troubled>>
    BY <1>2 DEF PruneSnapshots, tables
  <2>2. cur[c] = None
    BY <1>2 DEF PruneSnapshots, AtBoard
  <2>3. Covered(c)'
    BY <1>0, <2>1, <2>2 DEF TypeOK, AtBoard, AllCovered, Covered, Stale
  <2> QED BY <2>1, <2>3, AloneCovered DEF TypeOK
<1>3. ASSUME NEW c \in Crawlers, FetchBoard(c) PROVE AllCovered'
  <2>1. PICK b \in Boards :
          /\ pc[c] = "fetch" /\ b \in todo[c]
          /\ cur' = [cur EXCEPT ![c] = b]
          /\ todo' = [todo EXCEPT ![c] = @ \ {b}]
          /\ pc' = [pc EXCEPT ![c] = "read"]
          /\ UNCHANGED <<snap, loaded, doomed, troubled>>
    BY <1>3 DEF FetchBoard, NextBoard, tables
  <2>2. /\ cur'[c] = b /\ todo'[c] = todo[c] \ {b} /\ pc'[c] = "read"
        /\ cur[c] = None /\ todo[c] \subseteq ActiveBoards(loaded[c])
    BY <2>1 DEF TypeOK, AtBoard, AllCovered, Covered
  <2>3. ~troubled[c] => \A x \in ActiveBoards(loaded[c]) \ todo[c] : snap[x] # None
    BY <1>0, <1>0a, <2>1, <2>2 DEF AllCovered, Covered
  <2>4. Covered(c)'
    BY <2>1, <2>2, <2>3 DEF AllCovered, Covered
  <2> QED BY <2>1, <2>4, AloneCovered DEF TypeOK
<1>4. ASSUME NEW c \in Crawlers, FetchFails(c) PROVE AllCovered'
  <2>1. PICK b \in Boards :
          /\ pc[c] = "fetch" /\ b \in todo[c]
          /\ todo' = [todo EXCEPT ![c] = @ \ {b}]
          /\ troubled' = [troubled EXCEPT ![c] = TRUE]
          /\ UNCHANGED <<snap, loaded, doomed, pc, cur>>
    BY <1>4 DEF FetchFails, NextBoard, tables
  <2>2. Covered(c)'
    BY <2>1 DEF TypeOK, AtBoard, AllCovered, Covered
  <2> QED BY <2>1, <2>2, AloneCovered DEF TypeOK
<1>5. ASSUME NEW c \in Crawlers, ReadBoard(c) PROVE AllCovered'
  <2>1. /\ pc[c] = "read" /\ pc' = [pc EXCEPT ![c] = "write"]
        /\ UNCHANGED <<snap, loaded, todo, cur, doomed, troubled>>
    BY <1>5 DEF ReadBoard, tables
  <2>2. Covered(c)'
    BY <2>1 DEF TypeOK, AtBoard, AllCovered, Covered
  <2> QED BY <2>1, <2>2, AloneCovered DEF TypeOK
<1>6. ASSUME NEW c \in Crawlers, CommitBoard(c) PROVE AllCovered'
  <2>1. /\ pc[c] = "write" /\ pc' = [pc EXCEPT ![c] = "fetch"]
        /\ doomed' = [doomed EXCEPT ![c] = {}]
        /\ cur' = [cur EXCEPT ![c] = None]
        /\ UNCHANGED <<loaded, todo, troubled>>
        /\ snap' = [b \in Boards |-> IF b = cur[c] THEN fetched[c]
                                     ELSE IF b \in doomed[c] THEN None
                                     ELSE snap[b]]
    BY <1>6 DEF CommitBoard
  <2>2. fetched[c] # None
    BY CrawlAssumption DEF TypeOK
  <2>3. /\ pc'[c] = "fetch" /\ cur'[c] = None /\ doomed'[c] = {}
        /\ \A d \in Crawlers \ {c} : pc'[d] = pc[d]
    BY <2>1 DEF TypeOK
  <2>4. LET active == ActiveBoards(loaded[c]) IN
        /\ \A b \in Boards \ active : snap'[b] = None
        /\ ~troubled[c] => \A b \in active \ todo[c] : snap'[b] # None
    BY <1>0, <2>1, <2>2 DEF AllCovered, Covered
  <2>5. Covered(c)'
    BY <2>1, <2>3, <2>4 DEF AllCovered, Covered
  <2> QED BY <2>1, <2>3, <2>5, AloneCovered
<1>7. ASSUME NEW c \in Crawlers, pc[c] # "idle", pc'[c] \in {"idle", "release"},
             \A d \in Crawlers \ {c} : pc'[d] = pc[d]
      PROVE  AllCovered'
  <2>1. Covered(c)'
    BY <1>7 DEF Covered
  <2> QED BY <1>7, <2>1, AloneCovered
<1>8. ASSUME NEW c \in Crawlers,
             \/ WriteFails(c) \/ RunFinish(c) \/ RunFails(c) \/ Crash(c) \/ RunRelease(c)
      PROVE  AllCovered'
  <2>1. /\ pc[c] # "idle" /\ pc'[c] \in {"idle", "release"}
        /\ \A d \in Crawlers \ {c} : pc'[d] = pc[d]
    BY <1>8 DEF WriteFails, RunFinish, RunFails, RollBack, Crash, RunRelease, TypeOK
  <2> QED BY <1>7, <2>1
<1>9. ASSUME UNCHANGED <<snap, work, pc>> PROVE AllCovered'
  BY <1>9 DEF AllCovered, Covered, work
<1>10. ASSUME NEW c \in Crawlers, RunStart(c) PROVE AllCovered'
  <2>1. UNCHANGED <<snap, work>> /\ pc' = [pc EXCEPT ![c] = "load"]
    BY <1>10 DEF RunStart
  <2> QED BY <2>1 DEF AllCovered, Covered, work, TypeOK
<1>11. ASSUME NEW c \in Crawlers, RunSkip(c) \/ LockOverrun(c) PROVE AllCovered'
  BY <1>9, <1>11 DEF RunSkip, LockOverrun, tables
<1>12. CASE \/ LockExpires
            \/ \E row \in NewRules : CreateRule(row)
            \/ \E r \in Rules : DeleteRule(r) \/ \E row \in EditedRules : UpdateRule(r, row)
            \/ \E a \in Articles : Publish(a) \/ Unlist(a)
  BY <1>9, <1>12 DEF LockExpires, CreateRule, DeleteRule, UpdateRule, Publish, Unlist, tables
<1>13. CASE UNCHANGED vars
  BY <1>9, <1>13 DEF vars, tables
<1> QED
  BY <1>1, <1>2, <1>3, <1>4, <1>5, <1>6, <1>8, <1>10, <1>11, <1>12, <1>13
  DEF Next, Work

\* While no run outlasts its lease, a run that reports success leaves exactly
\* the snapshots of the boards it found rules for, for any processes, boards
\* and rules and whatever happened to the runs before it.
THEOREM SuccessLeavesSnapshots == ASSUME ~Overrun PROVE Spec => SuccessIsComplete
<1> DEFINE Complete(c) == outcome[c] = "running" /\ outcome'[c] = "success"
               => {b \in Boards : snap'[b] # None} = ActiveBoards(loaded[c])
<1>1. TypeOK /\ AtBoard /\ AllCovered /\ [Next]_vars => [\A c \in Crawlers : Complete(c)]_vars
  <2> SUFFICES ASSUME TypeOK, AtBoard, AllCovered, [Next]_vars, NEW c \in Crawlers,
                      outcome[c] = "running", outcome'[c] = "success"
               PROVE  {b \in Boards : snap'[b] # None} = ActiveBoards(loaded[c])
    OBVIOUS
  <2> USE DEF tables, ptt, work
  <2>1. ASSUME NEW d \in Crawlers, RunFinish(d) PROVE RunFinish(c)
    BY <2>1 DEF RunFinish, TypeOK
  <2>2. ASSUME NEW d \in Crawlers,
               RunStart(d) \/ RunSkip(d) \/ WriteFails(d) \/ RunFails(d)
        PROVE  FALSE
    BY <2>2 DEF RunStart, RunSkip, WriteFails, RunFails, RollBack, TypeOK
  <2>3. ASSUME NEW d \in Crawlers,
               \/ LoadRules(d) \/ PruneSnapshots(d) \/ FetchBoard(d) \/ FetchFails(d)
               \/ ReadBoard(d) \/ CommitBoard(d) \/ RunRelease(d) \/ Crash(d)
               \/ LockOverrun(d)
        PROVE  FALSE
    BY <2>3 DEF LoadRules, PruneSnapshots, FetchBoard, FetchFails, ReadBoard,
                CommitBoard, RunRelease, Crash, LockOverrun
  <2>4. ASSUME \/ LockExpires
               \/ \E row \in NewRules : CreateRule(row)
               \/ \E r \in Rules : \/ DeleteRule(r)
                                   \/ \E row \in EditedRules : UpdateRule(r, row)
               \/ \E a \in Articles : Publish(a) \/ Unlist(a)
               \/ UNCHANGED vars
        PROVE  FALSE
    BY <2>4 DEF LockExpires, CreateRule, DeleteRule, UpdateRule, Publish, Unlist, vars
  <2>5. RunFinish(c)
    BY <2>1, <2>2, <2>3, <2>4 DEF Next, Work
  <2>6. /\ pc[c] = "fetch" /\ todo[c] = {}
        /\ snap' = [b \in Boards |-> IF b \in doomed[c] THEN None ELSE snap[b]]
        /\ ~troubled[c]
    BY <2>5 DEF RunFinish, TypeOK
  <2>7. ActiveBoards(loaded[c]) \subseteq Boards /\ None \notin Boards
    BY CrawlAssumption DEF ActiveBoards
  <2>8. \A b \in Boards : snap'[b] # None <=> b \in ActiveBoards(loaded[c])
    BY <2>6, <2>7 DEF AtBoard, AllCovered, Covered
  <2> QED BY <2>7, <2>8
<1>2. Init => Holding /\ AtBoard /\ AllCovered
  BY InitHolding, InitAtBoard, InitCovered
<1>3. TypeOK /\ TypeOK' /\ Holding /\ AtBoard /\ AllCovered /\ [Next]_vars
      => Holding' /\ AtBoard' /\ AllCovered'
  BY StepHolding, StepAtBoard, StepCovered
<1> QED BY <1>1, <1>2, <1>3, TypeCorrect, PTL DEF Spec, SuccessIsComplete

----------------------------------------------------------------------------
(* When the promise to users holds without exception *)

Working(c) == pc[c] \in {"prune", "fetch", "read", "write"}

\* No rule is created while a run works with the rules it has read.
CreatedBetweenRuns == created' # created => \A c \in Crawlers : ~Working(c)

\* Then what a run has read stays true, but for rules deleted meanwhile.
ViewsCurrent ==
    \A c \in Crawlers : Working(c) =>
        \A r \in Rules : rule[r] = None \/ loaded[c][r] = rule[r]

\* No article is stamped later than a rule that is still to come.
BornInTime == \A a \in Published : born[a] <= created

LEMMA InitViews == Init => ViewsCurrent /\ BornInTime
BY DEF Init, ViewsCurrent, Working, BornInTime, Published

LEMMA StepViews ==
    /\ EditedRules = {} /\ TypeOK /\ TypeOK' /\ ViewsCurrent
    /\ [Next]_vars /\ CreatedBetweenRuns
    => ViewsCurrent'
<1> SUFFICES ASSUME EditedRules = {}, TypeOK, TypeOK', ViewsCurrent,
                    [Next]_vars, CreatedBetweenRuns
             PROVE  ViewsCurrent'
  OBVIOUS
<1> USE DEF ViewsCurrent, Working, tables, ptt, work
<1>1. ASSUME NEW c \in Crawlers,
             \/ RunStart(c) \/ RunSkip(c) \/ PruneSnapshots(c) \/ FetchBoard(c)
             \/ FetchFails(c) \/ ReadBoard(c) \/ RunRelease(c) \/ LockOverrun(c)
      PROVE  ViewsCurrent'
  <2>1. UNCHANGED <<rule, loaded>>
    BY <1>1 DEF RunStart, RunSkip, PruneSnapshots, FetchBoard, FetchFails,
                ReadBoard, RunRelease, LockOverrun
  <2>2. /\ \A d \in Crawlers \ {c} : pc'[d] = pc[d]
        /\ Working(c)' => Working(c)
    <3>1. CASE RunStart(c) \/ RunRelease(c)
      BY <3>1 DEF TypeOK, RunStart, RunRelease
    <3>2. CASE PruneSnapshots(c) \/ FetchBoard(c) \/ ReadBoard(c)
      BY <3>2 DEF TypeOK, PruneSnapshots, FetchBoard, NextBoard, ReadBoard
    <3>3. CASE RunSkip(c) \/ FetchFails(c) \/ LockOverrun(c)
      BY <3>3 DEF RunSkip, FetchFails, LockOverrun
    <3> QED BY <1>1, <3>1, <3>2, <3>3
  <2> QED BY <2>1, <2>2
<1>2. ASSUME NEW c \in Crawlers, CommitBoard(c) PROVE ViewsCurrent'
  BY <1>2 DEF TypeOK, CommitBoard
<1>3. ASSUME NEW c \in Crawlers, LoadRules(c) PROVE ViewsCurrent'
  BY <1>3 DEF TypeOK, LoadRules
<1>4. ASSUME NEW c \in Crawlers,
             RunFinish(c) \/ WriteFails(c) \/ RunFails(c) \/ Crash(c)
      PROVE  ViewsCurrent'
  <2>1. /\ pc'[c] \in {"idle", "release"} /\ UNCHANGED rule
        /\ \A d \in Crawlers \ {c} : pc'[d] = pc[d] /\ loaded'[d] = loaded[d]
    BY <1>4 DEF TypeOK, RunFinish, WriteFails, RunFails, RollBack, Crash, ForgetWork
  <2> QED BY <2>1
<1>5. ASSUME NEW row \in NewRules, CreateRule(row) PROVE ViewsCurrent'
  <2>1. created' # created /\ UNCHANGED pc
    BY <1>5 DEF CreateRule, TypeOK
  <2> QED BY <2>1 DEF CreatedBetweenRuns
<1>6. ASSUME NEW r \in Rules, DeleteRule(r) PROVE ViewsCurrent'
  BY <1>6 DEF DeleteRule, TypeOK
<1>7. CASE \/ LockExpires
           \/ \E a \in Articles : Publish(a) \/ Unlist(a)
           \/ UNCHANGED vars
  BY <1>7 DEF LockExpires, Publish, Unlist, vars
<1> QED BY <1>1, <1>2, <1>3, <1>4, <1>5, <1>6, <1>7 DEF Next, Work

LEMMA StepBornInTime ==
    TypeOK /\ TypeOK' /\ BornInTime /\ [Next]_vars => BornInTime'
<1> SUFFICES ASSUME TypeOK, TypeOK', BornInTime, [Next]_vars PROVE BornInTime'
  OBVIOUS
<1> USE DEF BornInTime, Published
<1>1. ASSUME UNCHANGED <<born, created>> PROVE BornInTime'
  BY <1>1
<1>2. ASSUME NEW c \in Crawlers, CommitBoard(c) PROVE BornInTime'
  BY <1>1, <1>2 DEF CommitBoard, ptt
<1>3. ASSUME NEW row \in NewRules, CreateRule(row) PROVE BornInTime'
  BY <1>3, CrawlAssumption DEF CreateRule, ptt, TypeOK
<1>4. ASSUME NEW r \in Rules,
             DeleteRule(r) \/ \E row \in EditedRules : UpdateRule(r, row)
      PROVE  BornInTime'
  BY <1>1, <1>4 DEF DeleteRule, UpdateRule, ptt
<1>5. ASSUME NEW a \in Articles, Publish(a) PROVE BornInTime'
  BY <1>5, CrawlAssumption DEF Publish, tables, TypeOK
<1> QED BY <1>1, <1>2, <1>3, <1>4, <1>5, MostStepsElsewhere DEF Elsewhere

\* Where rules are only created and deleted, and none is created while a run
\* works, every article published after a rule was created gets its match:
\* rules created during a run, and edits, are the only exceptions to what the
\* rules page tells users.
THEOREM NewArticlesGetMatches ==
  ASSUME EditedRules = {}
  PROVE  Spec /\ [][CreatedBetweenRuns]_vars => []NewArticlesMatch
<1> USE CrawlAssumption
<1>1. Init => NewArticlesMatch
  BY DEF Init, NewArticlesMatch
<1>2. /\ TypeOK /\ TypeOK' /\ Bookkeeping /\ ViewsCurrent /\ BornInTime
      /\ NewArticlesMatch /\ [Next]_vars
      => NewArticlesMatch'
  <2> SUFFICES ASSUME TypeOK, TypeOK', Bookkeeping, ViewsCurrent, BornInTime,
                      NewArticlesMatch, [Next]_vars,
                      NEW r \in Rules, NEW a \in seen',
                      Wants(rule'[r], a), Newer(a, r)'
               PROVE  <<r, a>> \in matches'
    BY DEF NewArticlesMatch
  <2> USE DEF NewArticlesMatch
  <2>1. CASE Elsewhere
    BY <2>1 DEF Elsewhere, Newer
  <2>2. ASSUME NEW c \in Crawlers, CommitBoard(c) PROVE <<r, a>> \in matches'
    <3>1. UNCHANGED <<rule, born>> /\ matches' = matches \cup Found(c)
          /\ seen' = seen \cup fresh[c] /\ pc[c] = "write"
      BY <2>2 DEF CommitBoard, ptt
    <3>2. CASE a \in seen
      BY <3>1, <3>2 DEF Newer
    <3>3. CASE a \in fresh[c]
      <4>1. loaded[c][r] = rule[r]
        BY <3>1 DEF ViewsCurrent, Working, Wants
      <4>2. BoardOf[a] = cur[c]
        BY <3>3 DEF Bookkeeping, Carried
      <4>3. <<r, a>> \in Found(c)
        BY <3>1, <3>3, <4>1, <4>2 DEF Found, Matching, Wants, Newer
      <4> QED BY <3>1, <4>3
    <3> QED BY <3>1, <3>2, <3>3
  <2>3. ASSUME NEW row \in NewRules, CreateRule(row) PROVE <<r, a>> \in matches'
    <3>1. UNCHANGED <<seen, matches, born>> /\ a \in Published /\ r <= born[a]
          /\ created \in Nat /\ born[a] \in Nat
      BY <2>3 DEF CreateRule, ptt, Bookkeeping, Known, Published, Newer, TypeOK
    <3>2. r # created + 1
      BY <3>1 DEF BornInTime
    <3> QED BY <2>3, <3>1, <3>2 DEF CreateRule, TypeOK, Newer
  <2>4. ASSUME NEW s \in Rules, DeleteRule(s) PROVE <<r, a>> \in matches'
    <3>1. r # s
      BY <2>4 DEF DeleteRule, TypeOK, Wants
    <3> QED BY <2>4, <3>1 DEF DeleteRule, TypeOK, Newer, ptt
  <2>5. ASSUME NEW b \in Articles, Publish(b) PROVE <<r, a>> \in matches'
    <3>1. a # b
      BY <2>5 DEF Publish, tables, Bookkeeping, Known, Published
    <3> QED BY <2>5, <3>1 DEF Publish, TypeOK, Newer, tables
  <2> QED BY <2>1, <2>2, <2>3, <2>4, <2>5, MostStepsElsewhere
<1>3. /\ TypeOK /\ TypeOK' /\ ViewsCurrent /\ BornInTime /\ [Next]_vars
      /\ [CreatedBetweenRuns]_vars
      => ViewsCurrent' /\ BornInTime'
  <2>1. ASSUME UNCHANGED vars, ViewsCurrent PROVE ViewsCurrent'
    BY <2>1 DEF vars, work, tables, ViewsCurrent, Working
  <2> QED BY <2>1, StepViews, StepBornInTime
<1> QED
  BY <1>1, <1>2, <1>3, InitViews, TypeCorrect, BookkeepingCorrect, PTL DEF Spec

----------------------------------------------------------------------------
(* Whom a run can wait for *)

\* Uncommitted deletions belong to runs at work, and no two to the same row.
OneDeleter ==
    /\ \A c \in Crawlers : doomed[c] # {} => pc[c] \in {"fetch", "read", "write"}
    /\ \A c, d \in Crawlers : c # d => doomed[c] \cap doomed[d] = {}

WaitsForOne ==
    \A c, d \in Crawlers : Blocked(c, d) =>
        /\ pc[d] \in {"fetch", "read", "write"}
        /\ \A e \in Crawlers : Blocked(c, e) => e = d

\* A run that cannot write waits for exactly one other, which is at work:
\* a run that died or failed never holds anybody up, and runs that wait for
\* each other form a ring, which the database resolves.
THEOREM WaitsAreShort == Spec => []WaitsForOne
<1>1. Init => OneDeleter
  BY DEF Init, OneDeleter
<1>2. TypeOK /\ OneDeleter /\ [Next]_vars => OneDeleter'
  <2> SUFFICES ASSUME TypeOK, OneDeleter, [Next]_vars PROVE OneDeleter'
    OBVIOUS
  <2> USE DEF OneDeleter, tables, ptt, work
  <2>1. ASSUME NEW c \in Crawlers, UNCHANGED doomed,
               \A d \in Crawlers \ {c} : pc'[d] = pc[d],
               \/ doomed[c] = {}
               \/ pc'[c] \in {"fetch", "read", "write"}
               \/ pc'[c] = pc[c]
        PROVE  OneDeleter'
    BY <2>1
  <2>2. ASSUME NEW c \in Crawlers, doomed' = [doomed EXCEPT ![c] = {}],
               \A d \in Crawlers \ {c} : pc'[d] = pc[d]
        PROVE  OneDeleter'
    BY <2>2 DEF TypeOK
  <2>3. ASSUME NEW c \in Crawlers, PruneSnapshots(c) PROVE OneDeleter'
    BY <2>3 DEF TypeOK, PruneSnapshots
  <2>4. ASSUME NEW c \in Crawlers, FetchBoard(c) \/ ReadBoard(c) PROVE OneDeleter'
    BY <2>1, <2>4 DEF TypeOK, FetchBoard, NextBoard, ReadBoard
  <2>5. ASSUME NEW c \in Crawlers, RunStart(c) \/ LoadRules(c) \/ RunRelease(c)
        PROVE  OneDeleter'
    <3>1. doomed[c] = {}
      BY <2>5 DEF TypeOK, RunStart, LoadRules, RunRelease
    <3> QED BY <2>1, <2>5, <3>1 DEF TypeOK, RunStart, LoadRules, RunRelease
  <2>6. ASSUME NEW c \in Crawlers, RunSkip(c) \/ FetchFails(c) \/ LockOverrun(c)
        PROVE  OneDeleter'
    BY <2>1, <2>6 DEF RunSkip, FetchFails, LockOverrun
  <2>7. ASSUME NEW c \in Crawlers, CommitBoard(c) PROVE OneDeleter'
    BY <2>2, <2>7 DEF TypeOK, CommitBoard
  <2>8. ASSUME NEW c \in Crawlers,
               RunFinish(c) \/ WriteFails(c) \/ RunFails(c) \/ Crash(c)
        PROVE  OneDeleter'
    BY <2>2, <2>8 DEF TypeOK, RunFinish, WriteFails, RunFails, RollBack, Crash,
                      ForgetWork
  <2>9. CASE \/ LockExpires
             \/ \E row \in NewRules : CreateRule(row)
             \/ \E r \in Rules : \/ DeleteRule(r)
                                 \/ \E row \in EditedRules : UpdateRule(r, row)
             \/ \E a \in Articles : Publish(a) \/ Unlist(a)
             \/ UNCHANGED vars
    BY <2>9 DEF LockExpires, CreateRule, DeleteRule, UpdateRule, Publish, Unlist, vars
  <2> QED BY <2>3, <2>4, <2>5, <2>6, <2>7, <2>8, <2>9 DEF Next, Work
<1>3. OneDeleter => WaitsForOne
  BY DEF OneDeleter, WaitsForOne, Blocked
<1> QED BY <1>1, <1>2, <1>3, TypeCorrect, PTL DEF Spec

----------------------------------------------------------------------------
(* Runs keep the ledger *)

\* The rules a run has change only when it reads them and when it ends.
LEMMA LoadedChanges ==
  ASSUME [Next]_vars
  PROVE  \/ loaded' = loaded
         \/ \E c \in Crawlers : \/ loaded' = [loaded EXCEPT ![c] = rule]
                                \/ loaded' = [loaded EXCEPT ![c] = NoRules]
<1> USE DEF tables, ptt, work
<1>1. ASSUME NEW c \in Crawlers,
             \/ RunStart(c) \/ RunSkip(c) \/ PruneSnapshots(c) \/ FetchBoard(c)
             \/ FetchFails(c) \/ ReadBoard(c) \/ CommitBoard(c) \/ RunRelease(c)
             \/ LockOverrun(c)
      PROVE  loaded' = loaded
  BY <1>1 DEF RunStart, RunSkip, PruneSnapshots, FetchBoard, FetchFails,
              ReadBoard, CommitBoard, RunRelease, LockOverrun
<1>2. ASSUME NEW c \in Crawlers, LoadRules(c)
      PROVE  loaded' = [loaded EXCEPT ![c] = rule]
  BY <1>2 DEF LoadRules
<1>3. ASSUME NEW c \in Crawlers,
             RunFinish(c) \/ WriteFails(c) \/ RunFails(c) \/ Crash(c)
      PROVE  loaded' = [loaded EXCEPT ![c] = NoRules]
  BY <1>3 DEF RunFinish, WriteFails, RunFails, RollBack, Crash, ForgetWork
<1>4. ASSUME \/ LockExpires
             \/ \E row \in NewRules : CreateRule(row)
             \/ \E r \in Rules : \/ DeleteRule(r)
                                 \/ \E row \in EditedRules : UpdateRule(r, row)
             \/ \E a \in Articles : Publish(a) \/ Unlist(a)
             \/ UNCHANGED vars
      PROVE  loaded' = loaded
  BY <1>4 DEF LockExpires, CreateRule, DeleteRule, UpdateRule, Publish, Unlist, vars
<1> QED BY <1>1, <1>2, <1>3, <1>4 DEF Next, Work

\* No rule asks for nothing.
LEMMA AskedByNone == Asked(NoRules) = [r \in Rules |-> {}]
BY DEF Asked, NoRules, Wants

\* What a transaction inserts is what the ledger demands.
LEMMA FoundIsAsked ==
  ASSUME TypeOK, Bookkeeping, NEW c \in Crawlers
  PROVE  Found(c) = AbstractLedger!Found(c, fresh[c])
<1>1. \A r \in Rules, a \in fresh[c] :
        Matching(c, r, a) <=> Wants(loaded[c][r], a) /\ Newer(a, r)
  BY DEF Matching, Wants, Bookkeeping, Carried
<1> QED BY <1>1 DEF Found, AbstractLedger!Found, Asked, TypeOK

\* Runs implement the ledger, for any number of them at once, with and
\* without a crawl lock that holds.
THEOREM Refinement == Spec => ImplementsLedger
<1> USE CrawlAssumption
<1>1. Init => AbstractLedger!Init
  <2> SUFFICES ASSUME Init PROVE AbstractLedger!Init
    OBVIOUS
  <2>1. rule = NoRules /\ \A c \in Crawlers : loaded[c] = NoRules
    BY DEF Init
  <2>2. 1..created = {} /\ {r \in Rules : rule[r] # None} = {} /\ Published = {}
        /\ \A a \in Articles : {r \in Rules : Newer(a, r)} = {}
    BY DEF Init, NoRules, Published, Newer
  <2> QED
    BY <2>1, <2>2, AskedByNone DEF Init, AbstractLedger!Init, AbstractLedger!Nothing
<1>2. TypeOK /\ TypeOK' /\ Bookkeeping /\ [Next]_vars
      => [AbstractLedger!Next]_(AbstractLedger!vars)
  <2> SUFFICES ASSUME TypeOK, TypeOK', Bookkeeping, [Next]_vars
               PROVE  AbstractLedger!Next \/ UNCHANGED AbstractLedger!vars
    OBVIOUS
  <2> DEFINE fit == [a \in Articles |-> {r \in Rules : Newer(a, r)}]
             views == [c \in Crawlers |-> Asked(loaded[c])]
             there == {r \in Rules : rule[r] # None}
             wants(row) == {a \in Articles : Wants(row, a)}
  <2>0. \A row : wants(row) \in SUBSET Articles
    OBVIOUS
  <2>a. rule \in [Rules -> {None} \cup RuleRow]
    BY DEF TypeOK
  <2>1. ASSUME Elsewhere PROVE AbstractLedger!Next \/ UNCHANGED AbstractLedger!vars
    <3>1. /\ UNCHANGED <<created, seen, matches>> /\ Published' = Published
          /\ there' = there /\ Asked(rule') = Asked(rule) /\ fit' = fit
      BY <2>1 DEF Elsewhere, Published, Newer
    <3>2. CASE loaded' = loaded
      BY <3>1, <3>2 DEF AbstractLedger!vars
    <3>3. ASSUME NEW c \in Crawlers, loaded' = [loaded EXCEPT ![c] = rule]
          PROVE  AbstractLedger!Read(c)
      <4>1. views' = [views EXCEPT ![c] = Asked(rule)]
        BY <3>3 DEF TypeOK
      <4> QED BY <3>1, <4>1 DEF AbstractLedger!Read
    <3>4. ASSUME NEW c \in Crawlers, loaded' = [loaded EXCEPT ![c] = NoRules]
          PROVE  AbstractLedger!Forget(c)
      <4>1. views' = [views EXCEPT ![c] = Asked(NoRules)]
        BY <3>4 DEF TypeOK
      <4> QED
        BY <3>1, <4>1, AskedByNone DEF AbstractLedger!Forget, AbstractLedger!Nothing
    <3> QED BY <3>2, <3>3, <3>4, LoadedChanges DEF AbstractLedger!Next
  <2>2. ASSUME NEW c \in Crawlers, CommitBoard(c) PROVE AbstractLedger!Next
    <3>1. PICK new \in SUBSET Articles : new = fresh[c]
      BY DEF TypeOK
    <3>2. new \subseteq Published \ seen
      BY <2>2, <3>1 DEF CommitBoard, Conflict, Bookkeeping, Carried, Known
    <3>3. \A m \in Found(c) : rule[m[1]] # None /\ m[1] \in Rules
      BY <2>2, FoundIsJustified DEF Found
    <3>4. seen' = seen \cup new /\ matches' = matches \cup Found(c)
      BY <2>2, <3>1 DEF CommitBoard
    <3>5. UNCHANGED <<rule, created, loaded, born>>
      BY <2>2 DEF CommitBoard, ptt
    <3>6. /\ Published' = Published /\ there' = there /\ Asked(rule') = Asked(rule)
          /\ fit' = fit /\ views' = views
      BY <3>5 DEF Published, Newer
    <3>7. Found(c) = AbstractLedger!Found(c, new)
      BY <3>1, FoundIsAsked
    <3>8. AbstractLedger!Process(c, new)
      BY <3>2, <3>3, <3>4, <3>5, <3>6, <3>7 DEF AbstractLedger!Process
    <3> QED BY <3>8 DEF AbstractLedger!Next
  <2>3. ASSUME NEW row \in NewRules, CreateRule(row) PROVE AbstractLedger!Next
    <3>1. PICK r \in Rules : r = created + 1
      BY <2>3 DEF CreateRule, Rules, TypeOK
    <3>2. /\ rule' = [rule EXCEPT ![r] = row] /\ created' = created + 1
          /\ UNCHANGED <<seen, matches, born, loaded>>
      BY <2>3, <3>1 DEF CreateRule, ptt, work
    <3>3. r \notin 1..created /\ 1..created' = (1..created) \cup {r} /\ row # None
      BY <3>1, <3>2 DEF TypeOK
    <3>4. there' = there \cup {r}
      BY <3>2, <3>3 DEF TypeOK
    <3>5. Asked(rule') = [Asked(rule) EXCEPT ![r] = wants(row)]
      BY <2>a, <3>2 DEF Asked
    <3>6. Published' = Published /\ fit' = fit /\ views' = views
      BY <3>2 DEF Published, Newer
    <3>7. AbstractLedger!Create(r, wants(row))
      BY <3>2, <3>3, <3>4, <3>5, <3>6 DEF AbstractLedger!Create
    <3> QED BY <2>0, <3>7 DEF AbstractLedger!Next
  <2>4. ASSUME NEW r \in Rules, DeleteRule(r) PROVE AbstractLedger!Next
    <3>1. /\ rule' = [rule EXCEPT ![r] = None]
          /\ matches' = {m \in matches : m[1] # r}
          /\ UNCHANGED <<created, seen, born, loaded>>
      BY <2>4 DEF DeleteRule, ptt, work
    <3>2. there' = there \ {r}
      BY <3>1 DEF TypeOK
    <3>3. Asked(rule') = [Asked(rule) EXCEPT ![r] = {}]
      <4>1. wants(None) = {}
        BY DEF Wants
      <4> QED BY <2>a, <3>1, <4>1 DEF Asked
    <3>4. Published' = Published /\ fit' = fit /\ views' = views
      BY <3>1 DEF Published, Newer
    <3>5. AbstractLedger!Remove(r)
      BY <3>1, <3>2, <3>3, <3>4 DEF AbstractLedger!Remove
    <3> QED BY <3>5 DEF AbstractLedger!Next
  <2>5. ASSUME NEW r \in Rules, NEW row \in EditedRules, UpdateRule(r, row)
        PROVE  AbstractLedger!Next
    <3>1. /\ rule[r] # None /\ rule' = [rule EXCEPT ![r] = row]
          /\ UNCHANGED <<created, seen, matches, born, loaded>>
      BY <2>5 DEF UpdateRule, ptt, work
    <3>2. there' = there
      BY <3>1 DEF TypeOK
    <3>3. Asked(rule') = [Asked(rule) EXCEPT ![r] = wants(row)]
      BY <2>a, <3>1 DEF Asked
    <3>4. Published' = Published /\ fit' = fit /\ views' = views
      BY <3>1 DEF Published, Newer
    <3>5. AbstractLedger!Change(r, wants(row))
      BY <3>1, <3>2, <3>3, <3>4 DEF AbstractLedger!Change
    <3> QED BY <2>0, <3>5 DEF AbstractLedger!Next
  <2>6. ASSUME NEW a \in Articles, Publish(a) PROVE AbstractLedger!Next
    <3>1. PICK last \in 0..created : born' = [born EXCEPT ![a] = last]
      BY <2>6 DEF Publish
    <3>2. born[a] = None /\ UNCHANGED <<rule, created, seen, matches, loaded>>
      BY <2>6 DEF Publish, tables, work
    <3> DEFINE older == {r \in Rules : r <= last}
    <3>3. older \subseteq 1..created /\ older \in SUBSET Rules
      BY DEF Rules, TypeOK
    <3>4. a \notin Published /\ Published' = Published \cup {a}
      BY <3>1, <3>2 DEF Published, TypeOK
    <3>5. fit' = [fit EXCEPT ![a] = older]
      <4>1. \A b \in Articles : b # a => born'[b] = born[b]
        BY <3>1 DEF TypeOK
      <4>2. born'[a] = last /\ last # None
        BY <3>1 DEF TypeOK
      <4> QED BY <4>1, <4>2 DEF Newer
    <3>6. there' = there /\ Asked(rule') = Asked(rule) /\ views' = views
      BY <3>2
    <3>7. AbstractLedger!Appear(a, older)
      BY <3>2, <3>3, <3>4, <3>5, <3>6 DEF AbstractLedger!Appear
    <3> QED BY <3>3, <3>7 DEF AbstractLedger!Next
  <2> QED BY <2>1, <2>2, <2>3, <2>4, <2>5, <2>6, MostStepsElsewhere
<1> QED
  BY <1>1, <1>2, TypeCorrect, BookkeepingCorrect, PTL
  DEF Spec, ImplementsLedger, AbstractLedger!Spec
=============================================================================
