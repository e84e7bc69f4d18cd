----------------------------- MODULE PttClient -----------------------------
(***************************************************************************)
(* services/ptt_crawler.py in one process: threads that read boards from   *)
(* PTT, page by page, with at least `Delay` between two of their requests, *)
(* retries, and pauses PTT asks for.  `A request' is here one that goes    *)
(* through _get; the pages of PTT's directory, which the same process      *)
(* reads with a client of its own (_get_html), are neither held apart nor  *)
(* counted.                                                                *)
(*                                                                         *)
(* Time is counted in ticks; a sleeper may wake late.  The board grows at  *)
(* its last page: pages are numbered from the oldest, every page links to  *)
(* the one before it, and index.html is the last one.  The page of an      *)
(* article never changes, but its entry may lose its link.                 *)
(***************************************************************************)
EXTENDS Integers

CONSTANTS Threads,
          Delay,       \* ptt_request_delay_seconds
          RetryAfter,  \* what PTT may say in that header; 0: nothing usable
          MaxPages,    \* bound on pages_per_board
          Articles,
          PageOf,      \* the page on which an article appears
          Deletable,   \* articles that may be deleted
          None         \* no thread

Attempts == 0..2

\* 2 ** attempt
Backoff(attempt) == CASE attempt = 0 -> 1 [] attempt = 1 -> 2 [] OTHER -> 4

ASSUME ClientAssumption ==
    /\ Delay \in Nat
    /\ RetryAfter \subseteq Nat
    /\ MaxPages \in Nat
    /\ PageOf \in [Articles -> Nat \ {0}]
    /\ None \notin Threads

VARIABLES
    quiet,    \* time since _last_request_at, as far as it matters
    holder,   \* the thread that has _request_lock
    at,       \* where each thread is
    attempt,  \* its attempt at the current page
    timer,    \* how long it still sleeps
    left,     \* how many pages it still wants
    page,     \* the next page, 0 for index.html
    got,      \* the articles it has
    result,   \* how its last call ended
    posted,   \* articles published so far
    linked,   \* those that can be read
    last,     \* the page that index.html shows
    rest,     \* history: time without a request through _get
    window    \* history: what a call should return

board == <<posted, linked, last>>
call == <<attempt, timer, left, page, got, result, window>>
clientVars == <<quiet, holder, at, call, board, rest>>

Waiting == {"nap", "backoff"}

ClientTypeOK ==
    /\ quiet \in 0..Delay
    /\ holder \in Threads \cup {None}
    /\ at \in [Threads -> {"out", "lock", "pause", "asked"} \cup Waiting]
    /\ attempt \in [Threads -> Attempts]
    /\ timer \in [Threads -> Nat]
    /\ left \in [Threads -> 0..MaxPages]
    /\ page \in [Threads -> Nat]
    /\ got \in [Threads -> SUBSET Articles]
    /\ result \in [Threads -> {"none", "ok", "error"}]
    /\ posted \subseteq Articles
    /\ linked \subseteq posted
    /\ last \in Nat \ {0}
    /\ rest \in 0..Delay
    /\ window \in [Threads -> SUBSET Articles]

ClientInit ==
    /\ quiet = Delay
    /\ holder = None
    /\ at = [t \in Threads |-> "out"]
    /\ attempt = [t \in Threads |-> 0]
    /\ timer = [t \in Threads |-> 0]
    /\ left = [t \in Threads |-> 0]
    /\ page = [t \in Threads |-> 0]
    /\ got = [t \in Threads |-> {}]
    /\ result = [t \in Threads |-> "none"]
    /\ posted = {}
    /\ linked = {}
    /\ last = 1
    /\ rest = Delay
    /\ window = [t \in Threads |-> {}]

AtMost(a, b) == IF a <= b THEN a ELSE b
AtLeast(a, b) == IF a >= b THEN a ELSE b

----------------------------------------------------------------------------
(* A call *)

\* crawl_board(board, pages); validate_board asks for one page.
Crawl(t, pages) ==
    /\ at[t] = "out"
    /\ result[t] = "none"
    /\ at' = [at EXCEPT ![t] = "lock"]
    /\ left' = [left EXCEPT ![t] = pages]
    /\ UNCHANGED <<quiet, holder, attempt, timer, page, got, result, window, board,
                   rest>>

\* The caller takes the articles, or the PttCrawlerError.
Return(t) ==
    /\ at[t] = "out"
    /\ result[t] # "none"
    /\ result' = [result EXCEPT ![t] = "none"]
    /\ got' = [got EXCEPT ![t] = {}]
    /\ window' = [window EXCEPT ![t] = {}]
    /\ UNCHANGED <<quiet, holder, at, attempt, timer, left, page, board, rest>>

\* With the lock, the thread waits until the last request is long enough ago.
TakeLock(t) ==
    /\ at[t] = "lock"
    /\ holder = None
    /\ holder' = t
    /\ at' = [at EXCEPT ![t] = "pause"]
    /\ timer' = [timer EXCEPT ![t] = AtLeast(Delay - quiet, 0)]
    /\ UNCHANGED <<quiet, attempt, left, page, got, result, window, board, rest>>

\* client.get begins.
Send(t) ==
    /\ at[t] = "pause"
    /\ timer[t] = 0
    /\ at' = [at EXCEPT ![t] = "asked"]
    /\ rest' = 0
    /\ UNCHANGED <<quiet, holder, call, board>>

\* The request of t is over, and so is the critical section, except for the
\* sleep after an exception.
Over(t) ==
    /\ at[t] = "asked"
    /\ quiet' = 0
    /\ rest' = 0

LeaveKeeping(t, outcome) ==  \* a mutation: the lock is not given back on errors
    /\ holder' = IF outcome = "ok" THEN None ELSE holder
    /\ at' = [at EXCEPT ![t] = "out"]
    /\ attempt' = [attempt EXCEPT ![t] = 0]
    /\ left' = [left EXCEPT ![t] = 0]
    /\ page' = [page EXCEPT ![t] = 0]
    /\ result' = [result EXCEPT ![t] = outcome]

\* The call ends, and its locals with it.
Leave(t, outcome) ==
    /\ holder' = None
    /\ at' = [at EXCEPT ![t] = "out"]
    /\ attempt' = [attempt EXCEPT ![t] = 0]
    /\ left' = [left EXCEPT ![t] = 0]
    /\ page' = [page EXCEPT ![t] = 0]
    /\ result' = [result EXCEPT ![t] = outcome]

OnPages(n, p) == {a \in linked : n - p < PageOf[a] /\ PageOf[a] <= n}

AnsweredBehind(t) ==  \* a mutation: the page before the one that is last now
    LET this == IF page[t] = 0 THEN last ELSE AtLeast(last - 1, 1) IN
    /\ Over(t)
    /\ got' = [got EXCEPT ![t] = @ \cup OnPages(this, 1)]
    /\ window' = IF page[t] = 0
                 THEN [window EXCEPT ![t] = OnPages(this, left[t])] ELSE window
    /\ IF left[t] = 1 \/ this = 1
       THEN Leave(t, "ok")
       ELSE /\ holder' = None
            /\ at' = [at EXCEPT ![t] = "lock"]
            /\ attempt' = [attempt EXCEPT ![t] = 0]
            /\ left' = [left EXCEPT ![t] = @ - 1]
            /\ page' = [page EXCEPT ![t] = this - 1]
            /\ UNCHANGED result
    /\ UNCHANGED <<timer, board>>

\* A page arrives: its articles are added, and the link leads to the page
\* before it, if there is one and it is wanted.
Answered(t) ==
    LET this == IF page[t] = 0 THEN last ELSE page[t] IN
    /\ Over(t)
    /\ got' = [got EXCEPT ![t] = @ \cup OnPages(this, 1)]
    /\ window' = IF page[t] = 0
                 THEN [window EXCEPT ![t] = OnPages(this, left[t])] ELSE window
    /\ IF left[t] = 1 \/ this = 1
       THEN Leave(t, "ok")
       ELSE /\ holder' = None
            /\ at' = [at EXCEPT ![t] = "lock"]
            /\ attempt' = [attempt EXCEPT ![t] = 0]
            /\ left' = [left EXCEPT ![t] = @ - 1]
            /\ page' = [page EXCEPT ![t] = this - 1]
            /\ UNCHANGED result
    /\ UNCHANGED <<timer, board>>

\* 404 and the like, or a first page that is no board's: no retry.
Rejected(t) ==
    /\ Over(t)
    /\ Leave(t, "error")
    /\ UNCHANGED <<timer, got, window, board>>

BrokenUnnoticed(t) ==  \* a mutation: a failed request does not count
    /\ at[t] = "asked"
    /\ rest' = 0
    /\ IF attempt[t] = 2
       THEN Leave(t, "error") /\ UNCHANGED timer
       ELSE /\ at' = [at EXCEPT ![t] = "nap"]
            /\ timer' = [timer EXCEPT ![t] = Backoff(attempt[t])]
            /\ attempt' = [attempt EXCEPT ![t] = @ + 1]
            /\ UNCHANGED <<holder, left, page, result>>
    /\ UNCHANGED <<quiet, got, window, board>>

\* No answer: the thread sleeps with the lock and tries again.
Broken(t) ==
    /\ Over(t)
    /\ IF attempt[t] = 2
       THEN Leave(t, "error") /\ UNCHANGED timer
       ELSE /\ at' = [at EXCEPT ![t] = "nap"]
            /\ timer' = [timer EXCEPT ![t] = Backoff(attempt[t])]
            /\ attempt' = [attempt EXCEPT ![t] = @ + 1]
            /\ UNCHANGED <<holder, left, page, result>>
    /\ UNCHANGED <<got, window, board>>

\* 429, 500, 502, 503 or 504: the thread gives the lock back and waits, as
\* long as PTT says.
Busy(t) ==
    /\ Over(t)
    /\ IF attempt[t] = 2
       THEN Leave(t, "error") /\ UNCHANGED timer
       ELSE /\ holder' = None
            /\ at' = [at EXCEPT ![t] = "backoff"]
            /\ \E r \in RetryAfter \cup {0} :
                  timer' = [timer EXCEPT ![t] =
                              AtLeast(Delay, IF r = 0 THEN Backoff(attempt[t]) ELSE r)]
            /\ attempt' = [attempt EXCEPT ![t] = @ + 1]
            /\ UNCHANGED <<left, page, result>>
    /\ UNCHANGED <<got, window, board>>

TryAgainAnew(t) ==  \* a mutation: the retry starts with index.html again
    /\ at[t] \in Waiting
    /\ timer[t] = 0
    /\ holder' = IF at[t] = "nap" THEN None ELSE holder
    /\ at' = [at EXCEPT ![t] = "lock"]
    /\ page' = [page EXCEPT ![t] = 0]
    /\ UNCHANGED <<quiet, attempt, timer, left, got, result, window, board, rest>>

\* The sleep before the next attempt is over.
TryAgain(t) ==
    /\ at[t] \in Waiting
    /\ timer[t] = 0
    /\ holder' = IF at[t] = "nap" THEN None ELSE holder
    /\ at' = [at EXCEPT ![t] = "lock"]
    /\ UNCHANGED <<quiet, call, board, rest>>

----------------------------------------------------------------------------
(* Time and PTT *)

Tick ==
    /\ quiet' = AtMost(quiet + 1, Delay)
    /\ rest' = IF \E t \in Threads : at[t] = "asked" THEN 0
               ELSE AtMost(rest + 1, Delay)
    /\ timer' = [t \in Threads |-> AtLeast(timer[t] - 1, 0)]
    /\ UNCHANGED <<holder, at, attempt, left, page, got, result, window, board>>

Post(a) ==
    /\ a \notin posted
    /\ PageOf[a] \in {last, last + 1}
    /\ posted' = posted \cup {a}
    /\ linked' = linked \cup {a}
    /\ last' = PageOf[a]
    /\ UNCHANGED <<quiet, holder, at, call, rest>>

\* An article is deleted: its entry stays, without a link.
Unlink(a) ==
    /\ a \in linked \cap Deletable
    /\ linked' = linked \ {a}
    /\ UNCHANGED <<quiet, holder, at, call, posted, last, rest>>

----------------------------------------------------------------------------
ClientStep(t) ==
    \/ TakeLock(t) \/ Send(t) \/ TryAgain(t)
    \/ Answered(t) \/ Rejected(t) \/ Broken(t) \/ Busy(t)

PttStep == \E a \in Articles : Post(a) \/ Unlink(a)

ClientNext ==
    \/ \E t \in Threads :
          ClientStep(t) \/ Return(t) \/ \E n \in 1..MaxPages : Crawl(t, n)
    \/ Tick
    \/ PttStep

ClientSpec == ClientInit /\ [][ClientNext]_clientVars

----------------------------------------------------------------------------
(* What its callers may rely on *)

\* However threads, retries and failures mix, a request through _get begins
\* only when the last request through _get in the process has been over for
\* ptt_request_delay_seconds (_request_lock, _last_request_at).
Spaced ==
    [][\A t \in Threads :
          at[t] # "asked" /\ at'[t] = "asked"
          => rest = Delay /\ \A u \in Threads : at[u] # "asked"]_clientVars

\* A crawl lasts for several requests while the board changes.  What it
\* returns is nevertheless what a single look at the board could have shown
\* when it read index.html: nothing else, and no article that is still there
\* is left out or was pushed to a page it did not read.
FetchIsSnapshot ==
    \A t \in Threads :
        result[t] = "ok" => /\ got[t] \subseteq window[t]
                            /\ window[t] \cap linked \subseteq got[t]

Phase(t) ==
    IF result[t] # "none" THEN result[t]
    ELSE IF at[t] = "out" THEN "idle"
    ELSE IF page[t] = 0 THEN "before" ELSE "after"

AbstractRead == INSTANCE BoardRead WITH
    Readers <- Threads, Rank <- PageOf, present <- linked, saw <- window,
    reading <- [t \in Threads |-> Phase(t)],
    answer <- [t \in Threads |-> IF result[t] = "ok" THEN got[t] ELSE {}]

\* The requests, retries and pauses of a crawl add up to one look at the board
\* and one answer; a call that fails tells nothing.
ImplementsBoardRead == AbstractRead!Spec
=============================================================================
