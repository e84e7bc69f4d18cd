--------------------------- MODULE BoardDirectory ---------------------------
(***************************************************************************)
(* services/board_directory.py in an API process, with the PTT client it   *)
(* shares with the rules API and manual runs: pages of PTT's directory     *)
(* (the popular boards and the categories), each cached for some time, and *)
(* the boards the process has ever come across.                            *)
(*                                                                         *)
(* A page of the directory gives the boards it lists a label each (their   *)
(* category and title; popularity is left out).  The process remembers one *)
(* label per board, and whoever stores last decides which.  Reading the    *)
(* clock and looking into the cache are one step; filling the cache takes  *)
(* several, and nothing keeps two threads from filling the same entry.     *)
(***************************************************************************)
EXTENDS PttClient

CONSTANTS Boards,
          Categories,
          Popular,     \* the page of popular boards
          Labels,      \* categories and titles
          Verified,    \* the label of a board PTT has confirmed
          Contents,    \* per page, what it may list
          Ttl,         \* how long a page is cached
          Queries,
          ByName,      \* pairs <<query, board>>: in its name or keywords
          ByLabel,     \* pairs <<query, label>>: in category or title
          Alias,       \* the board a query is an alias of, or None
          Demands      \* which kinds of requests come together

Directory == Categories \cup {Popular}
Kinds == {"crawl", "popular", "category", "search"}

\* What is known of each board: its label, or None.
Catalogs == [Boards -> Labels \cup {None}]

ASSUME DirectoryAssumption ==
    /\ Ttl \in [Directory -> Nat]
    /\ Contents \in [Directory -> SUBSET Catalogs]
    /\ Verified \in Labels
    /\ Popular \notin Categories
    /\ ByName \subseteq Queries \X Boards
    /\ ByLabel \subseteq Queries \X Labels
    /\ Alias \in [Queries -> Boards \cup {None}]
    /\ Demands \subseteq SUBSET Kinds
    /\ None \notin Boards \cup Labels \cup Queries \cup Directory
    /\ MaxPages >= 1

VARIABLES
    listing,  \* PTT's directory: what each page lists
    cache,    \* _popular_cache and _category_cache
    known,    \* _known_boards
    step,     \* where the request of each thread is
    dir,      \* the page it is about
    query,    \* what it searches for, or None
    since,    \* time since it looked into the cache
    copy,     \* what it has: the page, or the boards that match
    age,      \* history: the age of that page
    shown,    \* history: boards that have been in an answer
    demand    \* the kinds of requests of this behaviour

Entry == [boards : Catalogs, valid : Nat, age : Nat]

dirVars == <<cache, known, step, dir, query, since, copy, age, shown>>
vars == <<clientVars, listing, dirVars, demand>>

DirectoryTypeOK ==
    /\ listing \in [Directory -> Catalogs]
    /\ cache \in [Directory -> Entry \cup {None}]
    /\ known \in Catalogs
    /\ step \in [Threads -> {"free", "crawl", "fetch", "store", "collect", "check"}]
    /\ dir \in [Threads -> Directory]
    /\ query \in [Threads -> Queries \cup {None}]
    /\ since \in [Threads -> Nat]
    /\ copy \in [Threads -> Catalogs]
    /\ age \in [Threads -> Nat]
    /\ shown \subseteq Boards
    /\ demand \in Demands

TypeOK == ClientTypeOK /\ DirectoryTypeOK

Nothing == [b \in Boards |-> None]

Init ==
    /\ ClientInit
    /\ listing = [p \in Directory |-> Nothing]
    /\ cache = [p \in Directory |-> None]
    /\ known = Nothing
    /\ step = [t \in Threads |-> "free"]
    /\ dir = [t \in Threads |-> Popular]
    /\ query = [t \in Threads |-> None]
    /\ since = [t \in Threads |-> 0]
    /\ copy = [t \in Threads |-> Nothing]
    /\ age = [t \in Threads |-> 0]
    /\ shown = {}
    /\ demand \in Demands

Listed(catalog) == {b \in Boards : catalog[b] # None}

\* An assignment to each key of new.
Updated(old, new) == [b \in Boards |-> IF new[b] # None THEN new[b] ELSE old[b]]

\* What a limit of at least one leaves of boards: some of them, in an order
\* that is left out.
Cuts(boards) == {part \in SUBSET boards : part = {} => boards = {}}

\* A category is shown as it is.
PageCuts(p, catalog) ==
    IF p = Popular THEN Cuts(Listed(catalog)) ELSE {Listed(catalog)}

\* The request of t is answered with the boards in answer.
Answer(t, answer) ==
    /\ step' = [step EXCEPT ![t] = "free"]
    /\ dir' = [dir EXCEPT ![t] = Popular]
    /\ query' = [query EXCEPT ![t] = None]
    /\ since' = [since EXCEPT ![t] = 0]
    /\ copy' = [copy EXCEPT ![t] = Nothing]
    /\ age' = [age EXCEPT ![t] = 0]
    /\ shown' = shown \cup answer

----------------------------------------------------------------------------
(* Requests that go straight to the client: validation, manual runs *)

RequestCrawl(t, n) ==
    /\ "crawl" \in demand
    /\ step[t] = "free"
    /\ step' = [step EXCEPT ![t] = "crawl"]
    /\ Crawl(t, n)
    /\ UNCHANGED <<listing, cache, known, dir, query, since, copy, age, shown, demand>>

CrawlDone(t) ==
    /\ step[t] = "crawl"
    /\ Return(t)
    /\ step' = [step EXCEPT ![t] = "free"]
    /\ UNCHANGED <<listing, cache, known, dir, query, since, copy, age, shown, demand>>

----------------------------------------------------------------------------
(* Pages of the directory *)

\* A request needs page p: it is in the cache, or has to be fetched.
Look(t, p, q) ==
    /\ step[t] = "free"
    /\ IF cache[p] # None
       THEN IF q = None
            THEN \E part \in PageCuts(p, cache[p].boards) : Answer(t, part)
            ELSE /\ step' = [step EXCEPT ![t] = "collect"]
                 /\ query' = [query EXCEPT ![t] = q]
                 /\ copy' = [copy EXCEPT ![t] = cache[p].boards]
                 /\ UNCHANGED <<dir, since, age, shown>>
       ELSE /\ step' = [step EXCEPT ![t] = "fetch"]
            /\ dir' = [dir EXCEPT ![t] = p]
            /\ query' = [query EXCEPT ![t] = q]
            /\ UNCHANGED <<since, copy, age, shown>>
    /\ UNCHANGED <<clientVars, listing, cache, known, demand>>

GetPopular(t) == "popular" \in demand /\ Look(t, Popular, None)
GetCategory(t, c) == "category" \in demand /\ Look(t, c, None)
Search(t, q) == "search" \in demand /\ Look(t, Popular, q)

\* _get_html: the page as it is now.  It takes no part in the client's lock and
\* spacing.
Fetch(t) ==
    /\ step[t] = "fetch"
    /\ step' = [step EXCEPT ![t] = "store"]
    /\ copy' = [copy EXCEPT ![t] = listing[dir[t]]]
    /\ UNCHANGED <<clientVars, listing, cache, known, dir, query, since, age, shown,
                   demand>>

\* BoardDirectoryError: 502.
FetchFails(t) ==
    /\ step[t] = "fetch"
    /\ Answer(t, {})
    /\ UNCHANGED <<clientVars, listing, cache, known, demand>>

FilledLate(t) ==  \* a mutation: valid from the moment it is stored
    [boards |-> copy[t], valid |-> Ttl[dir[t]], age |-> age[t]]

\* The entry is valid from the moment the thread looked into the cache.
Filled(t) ==
    IF since[t] < Ttl[dir[t]]
    THEN [boards |-> copy[t], valid |-> Ttl[dir[t]] - since[t], age |-> age[t]]
    ELSE None

StoreOnly(t) ==  \* a mutation: the boards of categories are not remembered
    /\ step[t] = "store"
    /\ cache' = [cache EXCEPT ![dir[t]] = Filled(t)]
    /\ known' = IF dir[t] = Popular THEN Updated(known, copy[t]) ELSE known
    /\ IF query[t] = None
       THEN \E part \in PageCuts(dir[t], copy[t]) : Answer(t, part)
       ELSE /\ step' = [step EXCEPT ![t] = "collect"]
            /\ since' = [since EXCEPT ![t] = 0]
            /\ age' = [age EXCEPT ![t] = 0]
            /\ UNCHANGED <<dir, query, copy, shown>>
    /\ UNCHANGED <<clientVars, listing, demand>>

\* Whatever is in the cache by now is replaced, and so are the labels of the
\* boards on the page, also by a page that was read earlier.
Store(t) ==
    /\ step[t] = "store"
    /\ cache' = [cache EXCEPT ![dir[t]] = Filled(t)]
    /\ known' = Updated(known, copy[t])
    /\ IF query[t] = None
       THEN \E part \in PageCuts(dir[t], copy[t]) : Answer(t, part)
       ELSE /\ step' = [step EXCEPT ![t] = "collect"]
            /\ since' = [since EXCEPT ![t] = 0]
            /\ age' = [age EXCEPT ![t] = 0]
            /\ UNCHANGED <<dir, query, copy, shown>>
    /\ UNCHANGED <<clientVars, listing, demand>>

----------------------------------------------------------------------------
(* search_boards *)

Matches(q, b, label) == <<q, b>> \in ByName \/ <<q, label>> \in ByLabel

\* What is known of a board replaces what the page says of it.
Candidates(t) == Updated(copy[t], known)

Matched(t) ==
    {b \in Listed(Candidates(t)) : Matches(query[t], b, Candidates(t)[b])}

\* The same with their labels.
Hits(t) == [b \in Boards |-> IF b \in Matched(t) THEN Candidates(t)[b] ELSE None]

\* The popular page and all known boards are searched; an alias of a board
\* that is not among those found has that board read.
Collect(t) ==
    LET wanted == Alias[query[t]] IN
    /\ step[t] = "collect"
    /\ IF wanted \in {None} \cup Matched(t)
       THEN /\ \E part \in Cuts(Matched(t)) : Answer(t, part)
            /\ UNCHANGED clientVars
       ELSE /\ step' = [step EXCEPT ![t] = "check"]
            /\ copy' = [copy EXCEPT ![t] = Hits(t)]
            /\ Crawl(t, 1)
            /\ UNCHANGED <<dir, query, since, age, shown>>
    /\ UNCHANGED <<listing, cache, known, demand>>

\* validate_board returns: a board that exists is remembered as verified, in
\* place of the category and title it may have had.
Checked(t) ==
    LET found == IF result[t] = "ok" THEN {Alias[query[t]]} ELSE {} IN
    /\ step[t] = "check"
    /\ Return(t)
    /\ known' = [b \in Boards |-> IF b \in found THEN Verified ELSE known[b]]
    /\ \E part \in Cuts(Listed(copy[t]) \cup found) : Answer(t, part)
    /\ UNCHANGED <<listing, cache, demand>>

----------------------------------------------------------------------------
Client(t) ==
    /\ ClientStep(t)
    /\ UNCHANGED <<listing, dirVars, demand>>

\* PTT's pages change: a board, while somebody crawls it, and the directory.
BoardChanges ==
    /\ "crawl" \in demand
    /\ PttStep
    /\ UNCHANGED <<listing, dirVars, demand>>

Relist(p, boards) ==
    /\ demand # {"crawl"}
    /\ listing[p] # boards
    /\ listing' = [listing EXCEPT ![p] = boards]
    /\ UNCHANGED <<clientVars, dirVars, demand>>

\* It no longer matters how much later than the time to live t is.
Older(t, n) == AtMost(n + 1, Ttl[dir[t]])

\* Entries expire, and requests get late.
Time ==
    /\ Tick
    /\ cache' = [p \in Directory |->
                   IF cache[p] = None \/ cache[p].valid <= 1 THEN None
                   ELSE [cache[p] EXCEPT !.valid = @ - 1, !.age = @ + 1]]
    /\ since' = [t \in Threads |->
                   IF step[t] \in {"fetch", "store"} THEN Older(t, since[t]) ELSE since[t]]
    /\ age' = [t \in Threads |->
                   IF step[t] = "store" THEN Older(t, age[t]) ELSE age[t]]
    /\ UNCHANGED <<listing, known, step, dir, query, copy, shown, demand>>

Request(t) ==
    \/ \E n \in 1..MaxPages : RequestCrawl(t, n)
    \/ GetPopular(t)
    \/ \E c \in Categories : GetCategory(t, c)
    \/ \E q \in Queries : Search(t, q)

Serve(t) ==
    \/ CrawlDone(t) \/ Fetch(t) \/ FetchFails(t) \/ Store(t)
    \/ Collect(t) \/ Checked(t)

Next ==
    \/ \E t \in Threads : Request(t) \/ Client(t) \/ Serve(t)
    \/ BoardChanges
    \/ \E p \in Directory : \E boards \in Contents[p] : Relist(p, boards)
    \/ Time

Spec == Init /\ [][Next]_vars

\* Time passes, requests have timeouts, and no thread waits for the request
\* lock for ever.
FairSpec ==
    /\ Spec
    /\ WF_vars(Time)
    /\ \A t \in Threads : SF_vars(Client(t)) /\ WF_vars(Serve(t))

----------------------------------------------------------------------------
(* What the directory promises *)

\* No page is served from the cache when it was read from PTT longer ago than
\* its time to live, also when two threads fill the entry in either order.
CacheFresh == \A p \in Directory : cache[p] # None => cache[p].age < Ttl[p]

\* A search by name or keyword finds, before its limit, every board the process
\* has shown to anybody: on a page that has left the cache since, by an earlier
\* search, or because PTT confirmed an alias; and whatever has replaced its
\* category and title since (_known_boards).
ShownIsFound ==
    \A t \in Threads :
        step[t] = "collect" =>
            {b \in shown : <<query[t], b>> \in ByName} \subseteq Matched(t)

\* Every request is answered, however often PTT fails or asks to wait.
RequestsAnswered == \A t \in Threads : step[t] # "free" ~> step[t] = "free"
=============================================================================
