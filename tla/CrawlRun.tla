------------------------------ MODULE CrawlRun ------------------------------
(***************************************************************************)
(* services/crawl_service.py: one crawl run, from the crawl lock to the    *)
(* status of the run, with everything that may happen around it: other     *)
(* processes that run too, users who create, edit and delete rules, PTT    *)
(* that lists new articles and drops old ones, requests that fail and      *)
(* processes that die.                                                     *)
(*                                                                         *)
(* The database is PostgreSQL with READ COMMITTED transactions.  A run     *)
(* reads and writes in one session: it reads the rules once, and commits   *)
(* once per board.  What it read it keeps (expire_on_commit=False) while   *)
(* the rows change under it.                                               *)
(*                                                                         *)
(* Rules are numbered in the order of their creation, so that "the article *)
(* was published no earlier than the rule was created" is r <= born[a].    *)
(* Boards are numbered in the order in which a run visits them.            *)
(***************************************************************************)
EXTENDS Integers

CONSTANTS Crawlers,    \* processes that call CrawlService.run
          Boards,      \* a set of numbers
          Articles,
          BoardOf,     \* [Articles -> Boards]
          Patterns,    \* what the conditions of a rule amount to
          Hits,        \* the pairs <<pattern, article>> that match
          MaxRules,    \* bound on the rules ever created
          NewRules,    \* the contents users give to new rules
          EditedRules, \* the contents users change rules to
          MaxFaults,   \* bound on crashes, failed requests and database errors
          Overrun,     \* may a run take longer than crawl_lock_ttl_seconds?
          None         \* no row, no holder, no board

Rules == 1..MaxRules

\* A row of the table rules, as far as a run looks at it.
RuleRow == [board : Boards, pattern : Patterns, enabled : BOOLEAN]

ASSUME CrawlAssumption ==
    /\ Boards \subseteq Nat
    /\ BoardOf \in [Articles -> Boards]
    /\ Hits \subseteq Patterns \X Articles
    /\ MaxRules \in Nat
    /\ NewRules \subseteq RuleRow
    /\ EditedRules \subseteq RuleRow
    /\ MaxFaults \in Nat
    /\ Overrun \in BOOLEAN
    /\ None \notin Crawlers \cup Nat \cup RuleRow
    /\ \A listing \in SUBSET Articles : listing # None

VARIABLES
    \* the tables
    rule,      \* rules: the row of each id, or None
    created,   \* how many ids have been used
    seen,      \* seen_articles
    matches,   \* article_matches: pairs <<rule, article>>
    snap,      \* board_crawl_snapshots: the articles of each board, or None
    lock,      \* runtime_locks: the process whose run has the crawl lock
    \* PTT
    born,      \* per published article, the last rule not created after it
    listed,    \* the articles on the pages a run looks at
    \* one run per process
    pc,        \* where it is
    loaded,    \* the rules it read at its start
    todo,      \* the boards it has not visited
    cur,       \* the board it is at
    fetched,   \* the articles crawl_board returned for it
    fresh,     \* those of them it found no SeenArticle for
    base,      \* the snapshot row it read: absent, present, or deleted since
    doomed,    \* snapshots it deleted and has not committed
    troubled,  \* crawl_failed
    outcome,   \* the status column of the process's last run
    \* bookkeeping
    faults,    \* how many faults have happened
    exempt     \* per rule, articles processed before it had its present form

tables == <<rule, created, seen, matches, snap, lock>>
ptt == <<born, listed>>
work == <<loaded, todo, cur, fetched, fresh, base, doomed, troubled>>
vars == <<tables, ptt, pc, work, outcome, faults, exempt>>

Published == {a \in Articles : born[a] # None}

TypeOK ==
    /\ rule \in [Rules -> {None} \cup RuleRow]
    /\ created \in 0..MaxRules
    /\ seen \subseteq Articles
    /\ matches \subseteq Rules \X Articles
    /\ snap \in [Boards -> {None} \cup SUBSET Articles]
    /\ lock \in Crawlers \cup {None}
    /\ born \in [Articles -> {None} \cup 0..MaxRules]
    /\ listed \subseteq Articles
    /\ pc \in [Crawlers -> {"idle", "load", "prune", "fetch", "read", "write",
                          "release"}]
    /\ loaded \in [Crawlers -> [Rules -> {None} \cup RuleRow]]
    /\ todo \in [Crawlers -> SUBSET Boards]
    /\ cur \in [Crawlers -> Boards \cup {None}]
    /\ fetched \in [Crawlers -> SUBSET Articles]
    /\ fresh \in [Crawlers -> SUBSET Articles]
    /\ base \in [Crawlers -> {"absent", "present", "deleted"}]
    /\ doomed \in [Crawlers -> SUBSET Boards]
    /\ troubled \in [Crawlers -> BOOLEAN]
    /\ outcome \in [Crawlers -> {"none", "running", "success", "failed",
                               "skipped"}]
    /\ faults \in 0..MaxFaults
    /\ exempt \in [Rules -> SUBSET Articles]

NoRules == [r \in Rules |-> None]

Init ==
    /\ rule = NoRules
    /\ created = 0
    /\ seen = {}
    /\ matches = {}
    /\ snap = [b \in Boards |-> None]
    /\ lock = None
    /\ born = [a \in Articles |-> None]
    /\ listed = {}
    /\ pc = [c \in Crawlers |-> "idle"]
    /\ loaded = [c \in Crawlers |-> NoRules]
    /\ todo = [c \in Crawlers |-> {}]
    /\ cur = [c \in Crawlers |-> None]
    /\ fetched = [c \in Crawlers |-> {}]
    /\ fresh = [c \in Crawlers |-> {}]
    /\ base = [c \in Crawlers |-> "absent"]
    /\ doomed = [c \in Crawlers |-> {}]
    /\ troubled = [c \in Crawlers |-> FALSE]
    /\ outcome = [c \in Crawlers |-> "none"]
    /\ faults = 0
    /\ exempt = [r \in Rules |-> {}]

\* The locals of a run go with it, its uncommitted DELETE too; refs says what
\* becomes of the snapshot rows all runs have read.
ForgetWork(c, refs) ==
    /\ loaded' = [loaded EXCEPT ![c] = NoRules]
    /\ todo' = [todo EXCEPT ![c] = {}]
    /\ cur' = [cur EXCEPT ![c] = None]
    /\ fetched' = [fetched EXCEPT ![c] = {}]
    /\ fresh' = [fresh EXCEPT ![c] = {}]
    /\ base' = [refs EXCEPT ![c] = "absent"]
    /\ doomed' = [doomed EXCEPT ![c] = {}]
    /\ troubled' = [troubled EXCEPT ![c] = FALSE]

----------------------------------------------------------------------------
(* Starting: the local lock, the crawl lock, the row of the run *)

LockIgnored == TRUE  \* a mutation
LockFree == lock = None

\* Nobody has the crawl lock: the row of the run is committed as RUNNING.
RunStart(c) ==
    /\ pc[c] = "idle"
    /\ LockFree
    /\ lock' = c
    /\ pc' = [pc EXCEPT ![c] = "load"]
    /\ outcome' = [outcome EXCEPT ![c] = "running"]
    /\ UNCHANGED <<rule, created, seen, matches, snap, ptt, work, faults, exempt>>

\* Somebody has it, possibly a dead run of this very process: every run asks
\* under an owner id of its own.
RunSkip(c) ==
    /\ pc[c] = "idle"
    /\ ~LockFree
    /\ outcome' = [outcome EXCEPT ![c] = "skipped"]
    /\ UNCHANGED <<tables, ptt, pc, work, faults, exempt>>

\* A mutation of LockExpires: a lock without expiry.
LockStays == FALSE /\ UNCHANGED vars

\* The lease of a run that died comes to its end.
LockExpires ==
    /\ lock # None
    /\ pc[lock] = "idle"
    /\ lock' = None
    /\ UNCHANGED <<rule, created, seen, matches, snap, ptt, pc, work, outcome,
                   faults, exempt>>

\* A run that lasts longer than its lease loses it and does not notice.
LockOverrun(c) ==
    /\ Overrun
    /\ lock = c
    /\ pc[c] # "idle"
    /\ lock' = None
    /\ UNCHANGED <<rule, created, seen, matches, snap, ptt, pc, work, outcome,
                   faults, exempt>>

----------------------------------------------------------------------------
(* Running *)

ActiveBoards(rows) ==
    {b \in Boards : \E r \in Rules :
        rows[r] # None /\ rows[r].enabled /\ rows[r].board = b}

\* SELECT ... WHERE enabled, grouped by board.
LoadRules(c) ==
    /\ pc[c] = "load"
    /\ loaded' = [loaded EXCEPT ![c] = rule]
    /\ todo' = [todo EXCEPT ![c] = ActiveBoards(rule)]
    /\ pc' = [pc EXCEPT ![c] = "prune"]
    /\ UNCHANGED <<tables, ptt, cur, fetched, fresh, base, doomed, troubled,
                   outcome, faults, exempt>>

StaleIfBoards(c) ==  \* a mutation: without boards nothing is stale
    {b \in Boards \ todo[c] : snap[b] # None /\ todo[c] # {}}
Stale(c) == {b \in Boards \ todo[c] : snap[b] # None}

\* DELETE the snapshots of boards without rules, not yet committed.  It waits
\* for rows another transaction has deleted.
PruneSnapshots(c) ==
    /\ pc[c] = "prune"
    /\ \A d \in Crawlers \ {c} : doomed[d] \cap Stale(c) = {}
    /\ doomed' = [doomed EXCEPT ![c] = Stale(c)]
    /\ pc' = [pc EXCEPT ![c] = "fetch"]
    /\ UNCHANGED <<tables, ptt, loaded, todo, cur, fetched, fresh, base,
                   troubled, outcome, faults, exempt>>

NextBoard(c, b) ==
    /\ pc[c] = "fetch"
    /\ b \in todo[c]
    /\ \A other \in todo[c] : b <= other

FetchBoard(c) ==
    \E b \in Boards :
        /\ NextBoard(c, b)
        /\ cur' = [cur EXCEPT ![c] = b]
        /\ todo' = [todo EXCEPT ![c] = @ \ {b}]
        /\ fetched' = [fetched EXCEPT ![c] = {a \in listed : BoardOf[a] = b}]
        /\ pc' = [pc EXCEPT ![c] = "read"]
        /\ UNCHANGED <<tables, ptt, loaded, fresh, base, doomed, troubled,
                       outcome, faults, exempt>>

\* PttCrawlerError: the board is left for the next run.
FetchFails(c) ==
    \E b \in Boards :
        /\ NextBoard(c, b)
        /\ faults < MaxFaults
        /\ faults' = faults + 1
        /\ todo' = [todo EXCEPT ![c] = @ \ {b}]
        /\ troubled' = [troubled EXCEPT ![c] = TRUE]
        /\ UNCHANGED <<tables, ptt, pc, loaded, cur, fetched, fresh, base, doomed,
                       outcome, exempt>>

UnseenWanted(c) ==  \* a mutation: articles no rule asks for are not recorded
    {a \in fetched[c] \ seen : \E r \in Rules :
        loaded[c][r] # None /\ <<loaded[c][r].pattern, a>> \in Hits}
Unseen(c) == fetched[c] \ seen

\* SELECTs: the snapshot of the board, and which articles are known.
ReadBoard(c) ==
    /\ pc[c] = "read"
    /\ fresh' = [fresh EXCEPT ![c] = Unseen(c)]
    /\ base' = [base EXCEPT ![c] =
                  IF snap[cur[c]] = None THEN "absent" ELSE "present"]
    /\ pc' = [pc EXCEPT ![c] = "write"]
    /\ UNCHANGED <<tables, ptt, loaded, todo, cur, fetched, doomed, troubled,
                   outcome, faults, exempt>>

\* article_matches_rule and _article_is_newer_than_rule
Wants(row, a) ==
    /\ row # None
    /\ row.enabled
    /\ row.board = BoardOf[a]
    /\ <<row.pattern, a>> \in Hits

Newer(a, r) == born[a] # None /\ r <= born[a]

\* Does rule r, as run c read it, match article a of the board?
Matching(c, r, a) ==
    Wants(loaded[c][r], a) /\ loaded[c][r].board = cur[c] /\ Newer(a, r)

\* The matches a run inserts with the new articles of its board.
FoundFirst(c) ==  \* a mutation: the loop over the rules ends at a match
    {m \in Rules \X fresh[c] : Matching(c, m[1], m[2]) /\
        \A r \in 1..(m[1] - 1) : ~Matching(c, r, m[2])}
FoundAgain(c) ==  \* a mutation: known articles are matched again
    {m \in Rules \X fetched[c] : Matching(c, m[1], m[2])}
Found(c) == {m \in Rules \X fresh[c] : Matching(c, m[1], m[2])}

OrphanedNever(c) == c = None  \* a mutation: no foreign key
Orphaned(c) == \E m \in Found(c) : rule[m[1]] = None

\* An INSERT or UPDATE of the board's transaction fails: an article or the
\* snapshot was inserted by somebody else (UNIQUE), a matching rule was
\* deleted (FOREIGN KEY), or the snapshot row to update was.
Conflict(c) ==
    \/ fresh[c] \cap seen # {}
    \/ Orphaned(c)
    \/ base[c] = "absent" /\ snap[cur[c]] # None
    \/ base[c] = "deleted"

\* The snapshot row is locked by a run that deleted it.
Blocked(c, d) == d # c /\ base[c] = "present" /\ cur[c] \in doomed[d]

\* Snapshots of the boards in gone disappear; whoever read one holds a
\* reference to a row that is no more.
LoseSnapshots(gone) ==
    [d \in Crawlers |->
        IF pc[d] = "write" /\ cur[d] \in gone /\ base[d] = "present"
        THEN "deleted" ELSE base[d]]

\* One transaction: snapshot, articles, matches, and the DELETE of the start.
CommitBoard(c) ==
    /\ pc[c] = "write"
    /\ ~Conflict(c)
    /\ \A d \in Crawlers : ~Blocked(c, d)
    /\ snap' = [b \in Boards |-> IF b = cur[c] THEN fetched[c]
                                 ELSE IF b \in doomed[c] THEN None
                                 ELSE snap[b]]
    /\ seen' = seen \cup fresh[c]
    /\ matches' = matches \cup Found(c)
    /\ exempt' = [r \in Rules |-> IF rule[r] = loaded[c][r] THEN exempt[r]
                                  ELSE exempt[r] \cup fresh[c]]
    /\ base' = [LoseSnapshots(doomed[c]) EXCEPT ![c] = "absent"]
    /\ doomed' = [doomed EXCEPT ![c] = {}]
    /\ cur' = [cur EXCEPT ![c] = None]
    /\ fetched' = [fetched EXCEPT ![c] = {}]
    /\ fresh' = [fresh EXCEPT ![c] = {}]
    /\ pc' = [pc EXCEPT ![c] = "fetch"]
    /\ UNCHANGED <<rule, created, lock, ptt, loaded, todo, troubled, outcome, faults>>

----------------------------------------------------------------------------
(* Ending *)

\* After the last board come the notifications (TelegramDelivery, PushDelivery),
\* any of which may turn the run into a failed one, and the last commit.  When
\* no board was committed, the snapshots already go with the first commit of a
\* notification; here that is the same step.
RunFinish(c) ==
    /\ pc[c] = "fetch"
    /\ todo[c] = {}
    /\ snap' = [b \in Boards |-> IF b \in doomed[c] THEN None ELSE snap[b]]
    /\ \E notified \in BOOLEAN :
          outcome' = [outcome EXCEPT ![c] =
                        IF troubled[c] \/ ~notified THEN "failed" ELSE "success"]
    /\ pc' = [pc EXCEPT ![c] = "release"]
    /\ ForgetWork(c, LoseSnapshots(doomed[c]))
    /\ UNCHANGED <<rule, created, seen, matches, lock, ptt, faults, exempt>>

\* A mutation of RollBack: the articles were committed one by one.
RollBackMatchesOnly(c) ==
    /\ outcome' = [outcome EXCEPT ![c] = "failed"]
    /\ pc' = [pc EXCEPT ![c] = "release"]
    /\ seen' = seen \cup fresh[c]
    /\ ForgetWork(c, base)
    /\ UNCHANGED <<rule, created, matches, snap, lock, ptt, exempt>>

\* An exception: rollback, and the row of the run becomes FAILED.
RollBack(c) ==
    /\ outcome' = [outcome EXCEPT ![c] = "failed"]
    /\ pc' = [pc EXCEPT ![c] = "release"]
    /\ ForgetWork(c, base)
    /\ UNCHANGED <<tables, ptt, exempt>>

\* Runs that wait for each other in a ring.
Deadlocked(c) ==
    \E ring \in SUBSET Crawlers :
        /\ c \in ring
        /\ \A d \in ring :
              /\ pc[d] = "write"
              /\ \E e \in ring : Blocked(d, e)
              /\ \E e \in ring : Blocked(e, d)

\* The board's transaction is refused, or the database ends one of those that
\* wait for each other.
WriteFails(c) ==
    /\ pc[c] = "write"
    /\ Conflict(c) \/ Deadlocked(c)
    /\ RollBack(c)
    /\ UNCHANGED faults

\* Anything else that raises while the run works.
RunFails(c) ==
    /\ pc[c] \notin {"idle", "release"}
    /\ faults < MaxFaults
    /\ faults' = faults + 1
    /\ RollBack(c)

\* The crawl lock is released under the run's own owner id.
RunRelease(c) ==
    /\ pc[c] = "release"
    /\ lock' = IF lock = c THEN None ELSE lock
    /\ pc' = [pc EXCEPT ![c] = "idle"]
    /\ UNCHANGED <<rule, created, seen, matches, snap, ptt, work, outcome,
                   faults, exempt>>

\* The process dies and is restarted.  The lock and the RUNNING row stay.
Crash(c) ==
    /\ pc[c] # "idle"
    /\ faults < MaxFaults
    /\ faults' = faults + 1
    /\ pc' = [pc EXCEPT ![c] = "idle"]
    /\ ForgetWork(c, base)
    /\ UNCHANGED <<tables, ptt, outcome, exempt>>

----------------------------------------------------------------------------
(* api/rules.py *)

\* A new rule owes nothing to the articles processed before it.
CreateRule(row) ==
    /\ created < MaxRules
    /\ created' = created + 1
    /\ rule' = [rule EXCEPT ![created'] = row]
    /\ exempt' = [exempt EXCEPT ![created'] = seen]
    /\ UNCHANGED <<seen, matches, snap, lock, ptt, pc, work, outcome, faults>>

\* created_at stays what it was; articles processed before are not matched
\* again.
UpdateRule(r, row) ==
    /\ rule[r] # None
    /\ rule' = [rule EXCEPT ![r] = row]
    /\ exempt' = [exempt EXCEPT ![r] = @ \cup seen]
    /\ UNCHANGED <<created, seen, matches, snap, lock, ptt, pc, work, outcome,
                   faults>>

\* ON DELETE CASCADE takes its matches.
DeleteRule(r) ==
    /\ rule[r] # None
    /\ rule' = [rule EXCEPT ![r] = None]
    /\ matches' = {m \in matches : m[1] # r}
    /\ exempt' = [exempt EXCEPT ![r] = {}]
    /\ UNCHANGED <<created, seen, snap, lock, ptt, pc, work, outcome, faults>>

----------------------------------------------------------------------------
(* PTT *)

\* An article appears.  Its stamp, taken from its key in whole seconds, may
\* precede rules created just before it; without one (0) it precedes all.
Publish(a) ==
    /\ born[a] = None
    /\ \E last \in 0..created : born' = [born EXCEPT ![a] = last]
    /\ listed' = listed \cup {a}
    /\ UNCHANGED <<tables, pc, work, outcome, faults, exempt>>

\* It is deleted, or moves beyond the pages a run looks at.
Unlist(a) ==
    /\ a \in listed
    /\ listed' = listed \ {a}
    /\ UNCHANGED <<tables, born, pc, work, outcome, faults, exempt>>

----------------------------------------------------------------------------
Work(c) ==
    \/ LoadRules(c) \/ PruneSnapshots(c) \/ FetchBoard(c) \/ ReadBoard(c)
    \/ CommitBoard(c) \/ WriteFails(c) \/ RunFinish(c) \/ RunRelease(c)

Next ==
    \/ \E c \in Crawlers :
          \/ RunStart(c) \/ RunSkip(c) \/ Work(c)
          \/ FetchFails(c) \/ RunFails(c) \/ Crash(c) \/ LockOverrun(c)
    \/ LockExpires
    \/ \E row \in NewRules : CreateRule(row)
    \/ \E r \in Rules : DeleteRule(r) \/ \E row \in EditedRules : UpdateRule(r, row)
    \/ \E a \in Articles : Publish(a) \/ Unlist(a)

Spec == Init /\ [][Next]_vars

\* The scheduler starts a run at every interval, a run that is not disturbed
\* goes on, and the lease of a dead run ends.  Nothing obliges users and PTT.
FairSpec ==
    /\ Spec
    /\ WF_vars(LockExpires)
    /\ \A c \in Crawlers : WF_vars(RunStart(c)) /\ WF_vars(Work(c))

----------------------------------------------------------------------------
(* What a run must achieve *)

\* Whenever an article has been processed, every rule that wants it and is
\* not younger has its match.  The exceptions are the articles processed
\* before the rule had its present form, or by a run that read another form
\* of it: a failed board, a rollback, a crash or a competing run never eat a
\* match.
NoMissedMatch ==
    \A r \in Rules : \A a \in seen \ exempt[r] :
        Wants(rule[r], a) /\ Newer(a, r) => <<r, a>> \in matches

\* A match belongs to a rule that exists, to a processed article, and to one
\* that is not older than the rule: edits and deletions during a run do not
\* leave anything else behind.
MatchesJustified ==
    \A m \in matches : rule[m[1]] # None /\ m[2] \in seen /\ Newer(m[2], m[1])

\* The preview of a board shows only articles that have been processed, even
\* when listings read at different times overwrite each other.
SnapshotSeen == \A b \in Boards : snap[b] # None => snap[b] \subseteq seen

\* After a run that reports success, the snapshots are those of the boards
\* it found rules for: stale ones are gone and none is missing.
SuccessIsComplete ==
    [][\A c \in Crawlers :
          outcome[c] = "running" /\ outcome'[c] = "success"
          => {b \in Boards : snap'[b] # None} = ActiveBoards(loaded[c])]_vars

\* backend/README.md: only one job crawls PTT at any time.
OneRunAtATime ==
    \A c, d \in Crawlers :
        pc[c] \notin {"idle", "release"} /\ pc[d] \notin {"idle", "release"} => c = d

\* Telling users that a rule reports the articles published after its
\* creation, the rules page makes no exception for runs in progress.
NewArticlesMatch ==
    \A r \in Rules : \A a \in seen :
        Wants(rule[r], a) /\ Newer(a, r) => <<r, a>> \in matches

\* An article that stays listed on a board somebody has an enabled rule for
\* is processed in the end, whatever crashes and failures come in between.
Followed(a) ==
    a \in listed /\ \E r \in Rules :
        rule[r] # None /\ rule[r].enabled /\ rule[r].board = BoardOf[a]

EventuallySeen == \A a \in Articles : <>[]Followed(a) => <>(a \in seen)

Asked(rows) == [r \in Rules |-> {a \in Articles : Wants(rows[r], a)}]

AbstractLedger == INSTANCE Ledger WITH
    Processors <- Crawlers, used <- 1..created,
    exists <- {r \in Rules : rule[r] # None}, asks <- Asked(rule),
    appeared <- Published,
    eligible <- [a \in Articles |-> {r \in Rules : Newer(a, r)}],
    view <- [c \in Crawlers |-> Asked(loaded[c])]

\* Any number of runs at once keep the ledger: articles enter seen_articles
\* once, in one transaction with exactly the matches of the rules the run has
\* read (_execute_run), whatever users, PTT, failures and crashes do.
ImplementsLedger == AbstractLedger!Spec
=============================================================================
