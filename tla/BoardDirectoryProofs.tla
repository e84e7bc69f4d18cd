------------------------ MODULE BoardDirectoryProofs ------------------------
(***************************************************************************)
(* Proofs about BoardDirectory, for any number of threads, pages, boards   *)
(* and queries and any times to live.                                      *)
(*                                                                         *)
(* The directory takes only steps of the PTT client, or none (UsesClient): *)
(* what PttClientProofs says of the client holds in the composition.       *)
(***************************************************************************)
EXTENDS BoardDirectory, PttClientProofs

\* The directory, the rules API and manual runs use the client the way it
\* wants to be used: one call at a time in each thread.
THEOREM UsesClient == Spec => ClientSpec
<1>1. Init => ClientInit
  BY DEF Init
<1>2. [Next]_vars => [ClientNext]_clientVars
  <2> SUFFICES ASSUME [Next]_vars PROVE ClientNext \/ UNCHANGED clientVars
    OBVIOUS
  <2>1. ASSUME NEW t \in Threads, Request(t)
        PROVE  ClientNext \/ UNCHANGED clientVars
    BY <2>1 DEF Request, RequestCrawl, GetPopular, GetCategory, Search, Look, ClientNext
  <2>2. ASSUME NEW t \in Threads, Client(t)
        PROVE  ClientNext
    BY <2>2 DEF Client, ClientNext
  <2>3. ASSUME NEW t \in Threads, CrawlDone(t) \/ Checked(t)
        PROVE  ClientNext
    BY <2>3 DEF CrawlDone, Checked, ClientNext
  <2>4. ASSUME NEW t \in Threads, Fetch(t) \/ FetchFails(t) \/ Store(t)
        PROVE  UNCHANGED clientVars
    BY <2>4 DEF Fetch, FetchFails, Store
  <2>5. ASSUME NEW t \in Threads, Collect(t)
        PROVE  ClientNext \/ UNCHANGED clientVars
    <3>1. UNCHANGED clientVars \/ Crawl(t, 1)
      BY <2>5 DEF Collect
    <3>2. 1 \in 1..MaxPages
      BY ClientAssumption, DirectoryAssumption
    <3> QED BY <3>1, <3>2 DEF ClientNext
  <2>6. CASE BoardChanges
    BY <2>6 DEF BoardChanges, ClientNext
  <2>7. ASSUME NEW p \in Directory, NEW boards \in Contents[p], Relist(p, boards)
        PROVE  UNCHANGED clientVars
    BY <2>7 DEF Relist
  <2>8. CASE Time
    BY <2>8 DEF Time, ClientNext
  <2>9. CASE UNCHANGED vars
    BY <2>9 DEF vars
  <2> QED BY <2>1, <2>2, <2>3, <2>4, <2>5, <2>6, <2>7, <2>8, <2>9 DEF Next, Serve
<1> QED BY <1>1, <1>2, PTL DEF Spec, ClientSpec

\* Also in the composition the requests through _get keep their distance from
\* each other; nothing is said of the directory's own (_get_html).
THEOREM RequestsAreSpacedHere == Spec => Spaced
BY UsesClient, RequestsAreSpaced

\* Also in the composition a crawl returns a snapshot of its board.
THEOREM CrawlIsSnapshotHere == Spec => []FetchIsSnapshot
BY UsesClient, CrawlIsSnapshot

\* Also in the composition every crawl and every validation is one look at
\* its board.
THEOREM ReadsAreLooksHere == Spec => ImplementsBoardRead
BY UsesClient, Refinement

----------------------------------------------------------------------------
(* Types *)

\* A request that searches has a query; one that checks, an alias.
Searching ==
    \A t \in Threads :
        /\ step[t] \in {"collect", "check"} => query[t] \in Queries
        /\ step[t] = "check" => Alias[query[t]] \in Boards

\* A dict that has taken over another has the keys of both.
LEMMA UpdatedCatalog ==
    ASSUME NEW old \in Catalogs, NEW new \in Catalogs
    PROVE  /\ Updated(old, new) \in Catalogs
           /\ Listed(Updated(old, new)) = Listed(old) \cup Listed(new)
BY DEF Updated, Listed, Catalogs

LEMMA NothingListed == Nothing \in Catalogs /\ Listed(Nothing) = {}
BY DEF Nothing, Listed, Catalogs

\* A limit adds nothing to an answer.
LEMMA CutsAreParts ==
    /\ \A boards, part : part \in Cuts(boards) => part \subseteq boards
    /\ \A p, c, part : part \in PageCuts(p, c) => part \subseteq Listed(c)
BY DEF Cuts, PageCuts

LEMMA InitDirectory == Init => DirectoryTypeOK /\ Searching
<1> SUFFICES ASSUME Init PROVE DirectoryTypeOK /\ Searching
    OBVIOUS
<1>1. Popular \in Directory
  BY DEF Directory
<1> QED BY <1>1, NothingListed DEF Init, DirectoryTypeOK, Searching

LEMMA LookType ==
    ASSUME DirectoryTypeOK, Searching,
           NEW t \in Threads, NEW p \in Directory, NEW q \in Queries \cup {None},
           Look(t, p, q)
    PROVE  (DirectoryTypeOK /\ Searching)'
<1> USE DirectoryAssumption, NothingListed DEF DirectoryTypeOK, Searching
<1>1. Popular \in Directory
  BY DEF Directory
<1>2. CASE cache[p] # None /\ q = None
  <2>1. Listed(cache[p].boards) \subseteq Boards
    BY DEF Listed
  <2>2. PICK part \in PageCuts(p, cache[p].boards) : Answer(t, part)
    BY <1>2 DEF Look
  <2>3. part \subseteq Boards
    BY <2>1, CutsAreParts
  <2> QED BY <1>1, <1>2, <2>2, <2>3 DEF Look, Answer
<1>3. CASE cache[p] # None /\ q # None
  <2>1. cache[p].boards \in Catalogs
    BY <1>3 DEF Entry
  <2> QED BY <1>1, <1>3, <2>1 DEF Look
<1>4. CASE cache[p] = None
  BY <1>1, <1>4 DEF Look
<1> QED BY <1>2, <1>3, <1>4

LEMMA FilledIsEntry ==
    ASSUME DirectoryTypeOK, NEW t \in Threads
    PROVE  Filled(t) \in Entry \cup {None}
BY DirectoryAssumption DEF DirectoryTypeOK, Filled, Entry

LEMMA HitsCatalog ==
    ASSUME DirectoryTypeOK, NEW t \in Threads
    PROVE  Hits(t) \in Catalogs /\ Listed(Hits(t)) = Matched(t)
<1>1. copy[t] \in Catalogs /\ known \in Catalogs
  BY DEF DirectoryTypeOK
<1>2. Candidates(t) \in Catalogs
  BY <1>1, UpdatedCatalog DEF Candidates
<1>3. Hits(t) \in Catalogs
  BY <1>2 DEF Hits, Catalogs
<1>4. Listed(Hits(t)) = Matched(t)
  BY DEF Hits, Matched, Listed
<1> QED BY <1>3, <1>4

LEMMA StepDirectory ==
    DirectoryTypeOK /\ Searching /\ [Next]_vars => (DirectoryTypeOK /\ Searching)'
<1> SUFFICES ASSUME DirectoryTypeOK, Searching, [Next]_vars
             PROVE  (DirectoryTypeOK /\ Searching)'
    OBVIOUS
<1> USE DirectoryAssumption
<1>0. Popular \in Directory
  BY DEF Directory
<1>1. ASSUME NEW t \in Threads, NEW n \in 1..MaxPages, RequestCrawl(t, n)
      PROVE  (DirectoryTypeOK /\ Searching)'
  BY <1>1 DEF RequestCrawl, DirectoryTypeOK, Searching
<1>2. ASSUME NEW t \in Threads, GetPopular(t)
      PROVE  (DirectoryTypeOK /\ Searching)'
  BY <1>0, <1>2, LookType DEF GetPopular
<1>3. ASSUME NEW t \in Threads, NEW c \in Categories, GetCategory(t, c)
      PROVE  (DirectoryTypeOK /\ Searching)'
  BY <1>3, LookType DEF GetCategory, Directory
<1>4. ASSUME NEW t \in Threads, NEW q \in Queries, Search(t, q)
      PROVE  (DirectoryTypeOK /\ Searching)'
  BY <1>0, <1>4, LookType DEF Search
<1>5. ASSUME NEW t \in Threads, CrawlDone(t)
      PROVE  (DirectoryTypeOK /\ Searching)'
  BY <1>5 DEF CrawlDone, DirectoryTypeOK, Searching
<1>6. ASSUME NEW t \in Threads, Fetch(t)
      PROVE  (DirectoryTypeOK /\ Searching)'
  BY <1>6 DEF Fetch, DirectoryTypeOK, Searching
<1>7. ASSUME NEW t \in Threads, FetchFails(t)
      PROVE  (DirectoryTypeOK /\ Searching)'
  BY <1>0, <1>7, NothingListed DEF FetchFails, Answer, DirectoryTypeOK, Searching
<1>8. ASSUME NEW t \in Threads, Store(t)
      PROVE  (DirectoryTypeOK /\ Searching)'
  <2>1. /\ step[t] = "store"
        /\ cache' = [cache EXCEPT ![dir[t]] = Filled(t)]
        /\ known' \in Catalogs
        /\ UNCHANGED <<listing, demand>>
    BY <1>8, UpdatedCatalog DEF Store, DirectoryTypeOK
  <2>2. cache' \in [Directory -> Entry \cup {None}]
    BY <2>1, FilledIsEntry DEF DirectoryTypeOK
  <2>3. CASE query[t] = None
    <3>1. PICK part \in PageCuts(dir[t], copy[t]) : Answer(t, part)
      BY <1>8, <2>3 DEF Store
    <3>2. part \subseteq Boards
      BY CutsAreParts DEF Listed
    <3> QED BY <1>0, <2>1, <2>2, <3>1, <3>2, NothingListed
            DEF Answer, DirectoryTypeOK, Searching
  <2>4. CASE query[t] # None
    <3>1. /\ step' = [step EXCEPT ![t] = "collect"]
          /\ since' = [since EXCEPT ![t] = 0]
          /\ age' = [age EXCEPT ![t] = 0]
          /\ UNCHANGED <<dir, query, copy, shown>>
      BY <1>8, <2>4 DEF Store
    <3> QED BY <2>1, <2>2, <2>4, <3>1 DEF DirectoryTypeOK, Searching
  <2> QED BY <2>3, <2>4
<1>9. ASSUME NEW t \in Threads, Collect(t)
      PROVE  (DirectoryTypeOK /\ Searching)'
  <2>1. query[t] \in Queries /\ Matched(t) \subseteq Boards
    BY <1>9 DEF Collect, Matched, Listed, DirectoryTypeOK, Searching
  <2>2. CASE Alias[query[t]] \in {None} \cup Matched(t)
    <3>1. PICK part \in Cuts(Matched(t)) : Answer(t, part)
      BY <1>9, <2>2 DEF Collect
    <3>2. part \subseteq Boards
      BY <2>1, CutsAreParts
    <3> QED BY <1>0, <1>9, <2>2, <3>1, <3>2, NothingListed
            DEF Collect, Answer, DirectoryTypeOK, Searching
  <2>3. CASE Alias[query[t]] \notin {None} \cup Matched(t)
    <3>1. /\ copy' = [copy EXCEPT ![t] = Hits(t)]
          /\ step' = [step EXCEPT ![t] = "check"]
          /\ UNCHANGED <<dir, query, since, age, shown, listing, cache, known, demand>>
      BY <1>9, <2>3 DEF Collect
    <3>2. copy' \in [Threads -> Catalogs]
      BY <3>1, HitsCatalog DEF DirectoryTypeOK
    <3> QED BY <2>1, <2>3, <3>1, <3>2 DEF DirectoryTypeOK, Searching
  <2> QED BY <2>2, <2>3
<1>10. ASSUME NEW t \in Threads, Checked(t)
      PROVE  (DirectoryTypeOK /\ Searching)'
  <2> DEFINE found == IF result[t] = "ok" THEN {Alias[query[t]]} ELSE {}
  <2>1. found \subseteq Boards
    BY <1>10 DEF Checked, Searching
  <2>2. PICK part \in Cuts(Listed(copy[t]) \cup found) : Answer(t, part)
    BY <1>10 DEF Checked
  <2>3. part \subseteq Boards
    BY <2>1, CutsAreParts DEF Listed
  <2>4. known' \in Catalogs
    BY <1>10 DEF Checked, Catalogs, DirectoryTypeOK
  <2> QED BY <1>0, <1>10, <2>2, <2>3, <2>4, NothingListed
          DEF Checked, Answer, DirectoryTypeOK, Searching
<1>11. ASSUME NEW t \in Threads, Client(t)
      PROVE  (DirectoryTypeOK /\ Searching)'
  BY <1>11 DEF Client, dirVars, DirectoryTypeOK, Searching
<1>12. CASE BoardChanges
  BY <1>12 DEF BoardChanges, dirVars, DirectoryTypeOK, Searching
<1>13. ASSUME NEW p \in Directory, NEW boards \in Contents[p], Relist(p, boards)
      PROVE  (DirectoryTypeOK /\ Searching)'
  BY <1>13 DEF Relist, dirVars, DirectoryTypeOK, Searching
<1>14. CASE Time
  <2>1. cache' \in [Directory -> Entry \cup {None}]
    <3>1. /\ cache' = [p \in Directory |->
                         IF cache[p] = None \/ cache[p].valid <= 1 THEN None
                         ELSE [cache[p] EXCEPT !.valid = @ - 1, !.age = @ + 1]]
      BY <1>14 DEF Time
    <3>2. ASSUME NEW p \in Directory, cache[p] # None, ~(cache[p].valid <= 1)
          PROVE  [cache[p] EXCEPT !.valid = @ - 1, !.age = @ + 1] \in Entry
      <4>1. cache[p] \in Entry
        BY <3>2 DEF DirectoryTypeOK
      <4>2. cache[p].valid - 1 \in Nat /\ cache[p].age + 1 \in Nat
        BY <3>2, <4>1 DEF Entry
      <4> QED BY <4>1, <4>2 DEF Entry
    <3> QED BY <3>1, <3>2
  <2>2. \A t \in Threads, n \in Nat : Older(t, n) \in Nat
    BY DEF Older, AtMost, DirectoryTypeOK
  <2>3. /\ since' \in [Threads -> Nat]
        /\ age' \in [Threads -> Nat]
        /\ UNCHANGED <<listing, known, step, dir, query, copy, shown, demand>>
    BY <1>14, <2>2 DEF Time, DirectoryTypeOK
  <2> QED BY <2>1, <2>3 DEF DirectoryTypeOK, Searching
<1>15. CASE UNCHANGED vars
  BY <1>15 DEF vars, dirVars, DirectoryTypeOK, Searching
<1>16. ASSUME NEW t \in Threads, Request(t)
       PROVE  (DirectoryTypeOK /\ Searching)'
  BY <1>1, <1>2, <1>3, <1>4, <1>16 DEF Request
<1>17. ASSUME NEW t \in Threads, Serve(t)
       PROVE  (DirectoryTypeOK /\ Searching)'
  BY <1>5, <1>6, <1>7, <1>8, <1>9, <1>10, <1>17 DEF Serve
<1> QED
  BY <1>11, <1>12, <1>13, <1>14, <1>15, <1>16, <1>17 DEF Next

\* Every variable of the client and of the directory keeps its type.
THEOREM TypeCorrect == Spec => []TypeOK
<1>1. Spec => [](DirectoryTypeOK /\ Searching)
  BY InitDirectory, StepDirectory, PTL DEF Spec
<1>2. Spec => [](ClientTypeOK /\ InCall)
  BY UsesClient, ClientTypeCorrect
<1> QED BY <1>1, <1>2, PTL DEF TypeOK

----------------------------------------------------------------------------
(* The caches and what is known *)

\* A page that is being stored is no older than the look into the cache that
\* started its request, and an entry expires in time.
Fresh ==
    /\ \A p \in Directory :
          cache[p] # None => cache[p].valid >= 1 /\ cache[p].age + cache[p].valid <= Ttl[p]
    /\ \A t \in Threads : step[t] = "store" => age[t] <= since[t]

\* Only a page that was read has an age.
Idle ==
    \A t \in Threads :
        /\ step[t] # "store" => age[t] = 0
        /\ step[t] \notin {"fetch", "store"} => since[t] = 0

\* No answer leaves the boards the process remembers; nor does what the cache
\* and searches hold.
Remembered ==
    /\ shown \subseteq Listed(known)
    /\ \A p \in Directory :
          cache[p] # None => Listed(cache[p].boards) \subseteq Listed(known)
    /\ \A t \in Threads :
          step[t] \in {"collect", "check"} => Listed(copy[t]) \subseteq Listed(known)

LEMMA InitCaches == Init => Fresh /\ Idle /\ Remembered
BY DEF Init, Fresh, Idle, Remembered

LEMMA LookCaches ==
    ASSUME DirectoryTypeOK, Fresh, Idle, Remembered,
           NEW t \in Threads, NEW p \in Directory, NEW q \in Queries \cup {None},
           Look(t, p, q)
    PROVE  (Fresh /\ Idle /\ Remembered)'
<1>1. CASE cache[p] # None /\ q = None
  <2>1. PICK part \in PageCuts(p, cache[p].boards) : Answer(t, part)
    BY <1>1 DEF Look
  <2>2. part \subseteq Listed(known)
    BY <1>1, CutsAreParts DEF Remembered
  <2> QED BY <1>1, <2>1, <2>2 DEF Look, Answer, DirectoryTypeOK, Fresh, Idle, Remembered
<1>2. CASE cache[p] # None /\ q # None
  BY <1>2 DEF Look, DirectoryTypeOK, Fresh, Idle, Remembered
<1>3. CASE cache[p] = None
  BY <1>3 DEF Look, DirectoryTypeOK, Fresh, Idle, Remembered
<1> QED BY <1>1, <1>2, <1>3

\* An entry does not outlive the page in it, however late it is stored.
LEMMA FilledIsFresh ==
    ASSUME DirectoryTypeOK, Fresh, NEW t \in Threads, step[t] = "store",
           Filled(t) # None
    PROVE  /\ Filled(t).boards = copy[t]
           /\ Filled(t).valid >= 1
           /\ Filled(t).age + Filled(t).valid <= Ttl[dir[t]]
BY DirectoryAssumption DEF DirectoryTypeOK, Fresh, Filled

LEMMA StepCaches ==
    DirectoryTypeOK /\ Searching /\ Fresh /\ Idle /\ Remembered /\ [Next]_vars
    => (Fresh /\ Idle /\ Remembered)'
<1> SUFFICES ASSUME DirectoryTypeOK, Searching, Fresh, Idle, Remembered, [Next]_vars
             PROVE  (Fresh /\ Idle /\ Remembered)'
    OBVIOUS
<1>0. Popular \in Directory
  BY DEF Directory
<1>1. ASSUME NEW t \in Threads, NEW n \in 1..MaxPages, RequestCrawl(t, n)
      PROVE  (Fresh /\ Idle /\ Remembered)'
  BY <1>1 DEF RequestCrawl, DirectoryTypeOK, Fresh, Idle, Remembered
<1>2. ASSUME NEW t \in Threads, GetPopular(t)
      PROVE  (Fresh /\ Idle /\ Remembered)'
  BY <1>0, <1>2, LookCaches DEF GetPopular
<1>3. ASSUME NEW t \in Threads, NEW c \in Categories, GetCategory(t, c)
      PROVE  (Fresh /\ Idle /\ Remembered)'
  BY <1>3, LookCaches DEF GetCategory, Directory
<1>4. ASSUME NEW t \in Threads, NEW q \in Queries, Search(t, q)
      PROVE  (Fresh /\ Idle /\ Remembered)'
  BY <1>0, <1>4, LookCaches DEF Search
<1>5. ASSUME NEW t \in Threads, CrawlDone(t)
      PROVE  (Fresh /\ Idle /\ Remembered)'
  BY <1>5 DEF CrawlDone, DirectoryTypeOK, Fresh, Idle, Remembered
<1>6. ASSUME NEW t \in Threads, Fetch(t)
      PROVE  (Fresh /\ Idle /\ Remembered)'
  BY <1>6 DEF Fetch, DirectoryTypeOK, Fresh, Idle, Remembered
<1>7. ASSUME NEW t \in Threads, FetchFails(t)
      PROVE  (Fresh /\ Idle /\ Remembered)'
  BY <1>7 DEF FetchFails, Answer, DirectoryTypeOK, Fresh, Idle, Remembered
<1>8. ASSUME NEW t \in Threads, Store(t)
      PROVE  (Fresh /\ Idle /\ Remembered)'
  <2>1. /\ step[t] = "store"
        /\ cache' = [cache EXCEPT ![dir[t]] = Filled(t)]
        /\ Listed(known') = Listed(known) \cup Listed(copy[t])
    BY <1>8, UpdatedCatalog DEF Store, DirectoryTypeOK
  <2>2. /\ step' \in {[step EXCEPT ![t] = "free"], [step EXCEPT ![t] = "collect"]}
        /\ since' = [since EXCEPT ![t] = 0]
        /\ age' = [age EXCEPT ![t] = 0]
        /\ shown' \subseteq shown \cup Listed(copy[t])
        /\ step'[t] = "collect" => copy' = copy
        /\ \A u \in Threads \ {t} : copy'[u] = copy[u]
    <3>1. CASE query[t] = None
      <4>1. PICK part \in PageCuts(dir[t], copy[t]) : Answer(t, part)
        BY <1>8, <3>1 DEF Store
      <4>2. part \subseteq Listed(copy[t])
        BY CutsAreParts
      <4> QED BY <4>1, <4>2 DEF Answer, DirectoryTypeOK
    <3>2. CASE query[t] # None
      BY <1>8, <3>2 DEF Store, DirectoryTypeOK
    <3> QED BY <3>1, <3>2
  <2>3. \A p \in Directory :
           cache'[p] # None =>
             /\ cache'[p].valid >= 1 /\ cache'[p].age + cache'[p].valid <= Ttl[p]
             /\ Listed(cache'[p].boards) \subseteq Listed(known')
    BY <2>1, FilledIsFresh DEF DirectoryTypeOK, Fresh, Remembered
  <2>4. Fresh' /\ Idle'
    BY <2>2, <2>3 DEF DirectoryTypeOK, Fresh, Idle
  <2>5. Remembered'
    BY <2>1, <2>2, <2>3 DEF DirectoryTypeOK, Remembered
  <2> QED BY <2>4, <2>5
<1>9. ASSUME NEW t \in Threads, Collect(t)
      PROVE  (Fresh /\ Idle /\ Remembered)'
  <2>1. Matched(t) \subseteq Listed(known)
    <3>1. Listed(Candidates(t)) = Listed(copy[t]) \cup Listed(known)
      BY UpdatedCatalog DEF Candidates, DirectoryTypeOK
    <3> QED BY <1>9, <3>1 DEF Collect, Matched, Remembered
  <2>2. CASE Alias[query[t]] \in {None} \cup Matched(t)
    <3>1. PICK part \in Cuts(Matched(t)) : Answer(t, part)
      BY <1>9, <2>2 DEF Collect
    <3>2. part \subseteq Listed(known)
      BY <2>1, CutsAreParts
    <3> QED BY <1>9, <2>2, <3>1, <3>2
            DEF Collect, Answer, DirectoryTypeOK, Fresh, Idle, Remembered
  <2>3. CASE Alias[query[t]] \notin {None} \cup Matched(t)
    <3>1. /\ copy' = [copy EXCEPT ![t] = Hits(t)]
          /\ step' = [step EXCEPT ![t] = "check"]
          /\ step[t] = "collect"
          /\ UNCHANGED <<dir, since, age, shown, cache, known>>
      BY <1>9, <2>3 DEF Collect
    <3>2. Listed(Hits(t)) \subseteq Listed(known)
      BY <2>1, HitsCatalog
    <3> QED BY <3>1, <3>2 DEF DirectoryTypeOK, Fresh, Idle, Remembered
  <2> QED BY <2>2, <2>3
<1>10. ASSUME NEW t \in Threads, Checked(t)
      PROVE  (Fresh /\ Idle /\ Remembered)'
  <2> DEFINE found == IF result[t] = "ok" THEN {Alias[query[t]]} ELSE {}
  <2>1. PICK part \in Cuts(Listed(copy[t]) \cup found) : Answer(t, part)
    BY <1>10 DEF Checked
  <2>2. part \subseteq Listed(copy[t]) \cup found
    BY CutsAreParts
  <2>3. Listed(known) \cup found \subseteq Listed(known')
    <3>1. found \subseteq Boards /\ Verified # None
      BY <1>10, DirectoryAssumption DEF Checked, Searching
    <3> QED BY <1>10, <3>1 DEF Checked, Listed
  <2>4. shown' \subseteq Listed(known')
    BY <1>10, <2>1, <2>2, <2>3 DEF Checked, Answer, Remembered
  <2> QED BY <1>10, <2>1, <2>3, <2>4
          DEF Checked, Answer, DirectoryTypeOK, Fresh, Idle, Remembered
<1>11. ASSUME NEW t \in Threads, Client(t)
      PROVE  (Fresh /\ Idle /\ Remembered)'
  BY <1>11 DEF Client, dirVars, Fresh, Idle, Remembered
<1>12. CASE BoardChanges
  BY <1>12 DEF BoardChanges, dirVars, Fresh, Idle, Remembered
<1>13. ASSUME NEW p \in Directory, NEW boards \in Contents[p], Relist(p, boards)
      PROVE  (Fresh /\ Idle /\ Remembered)'
  BY <1>13 DEF Relist, dirVars, Fresh, Idle, Remembered
<1>14. CASE Time
  <2>1. /\ \A p \in Directory :
              cache'[p] # None =>
                /\ cache[p] # None /\ ~(cache[p].valid <= 1)
                /\ cache'[p] = [cache[p] EXCEPT !.valid = @ - 1, !.age = @ + 1]
        /\ UNCHANGED <<known, step, copy, shown, dir>>
    BY <1>14 DEF Time
  <2>2. \A p \in Directory :
          cache'[p] # None =>
            /\ cache'[p].valid >= 1 /\ cache'[p].age + cache'[p].valid <= Ttl[p]
            /\ Listed(cache'[p].boards) \subseteq Listed(known')
    <3> SUFFICES ASSUME NEW p \in Directory, cache'[p] # None
                 PROVE  /\ cache'[p].valid >= 1
                        /\ cache'[p].age + cache'[p].valid <= Ttl[p]
                        /\ Listed(cache'[p].boards) \subseteq Listed(known')
      OBVIOUS
    <3>1. cache[p] \in Entry /\ Ttl[p] \in Nat
      BY <2>1, DirectoryAssumption DEF DirectoryTypeOK
    <3>2. /\ cache'[p].boards = cache[p].boards
          /\ cache'[p].valid = cache[p].valid - 1
          /\ cache'[p].age = cache[p].age + 1
      BY <2>1, <3>1 DEF Entry
    <3>3. /\ cache[p].valid \in Nat /\ cache[p].valid > 1 /\ cache[p].age \in Nat
          /\ cache[p].age + cache[p].valid <= Ttl[p]
          /\ Listed(cache[p].boards) \subseteq Listed(known) /\ known' = known
      <4>1. cache[p] # None /\ ~(cache[p].valid <= 1) /\ known' = known
        BY <2>1
      <4>2. /\ cache[p].age + cache[p].valid <= Ttl[p]
            /\ Listed(cache[p].boards) \subseteq Listed(known)
        BY <4>1 DEF Fresh, Remembered
      <4>3. cache[p].valid \in Nat /\ cache[p].age \in Nat
        BY <3>1 DEF Entry
      <4> QED BY <4>1, <4>2, <4>3
    <3> QED BY <3>1, <3>2, <3>3
  <2>3. \A t \in Threads :
          /\ step[t] = "store" => age'[t] <= since'[t]
          /\ step[t] # "store" => age'[t] = 0
          /\ step[t] \notin {"fetch", "store"} => since'[t] = 0
    <3> SUFFICES ASSUME NEW t \in Threads
                 PROVE  /\ step[t] = "store" => age'[t] <= since'[t]
                        /\ step[t] # "store" => age'[t] = 0
                        /\ step[t] \notin {"fetch", "store"} => since'[t] = 0
      OBVIOUS
    <3>1. Ttl[dir[t]] \in Nat /\ age[t] \in Nat /\ since[t] \in Nat
      BY DirectoryAssumption DEF DirectoryTypeOK
    <3>2. /\ since'[t] = IF step[t] \in {"fetch", "store"} THEN Older(t, since[t])
                         ELSE since[t]
          /\ age'[t] = IF step[t] = "store" THEN Older(t, age[t]) ELSE age[t]
      BY <1>14 DEF Time
    <3>3. CASE step[t] = "store"
      BY <3>1, <3>2, <3>3 DEF Older, AtMost, Fresh
    <3>4. CASE step[t] # "store"
      BY <3>2, <3>4 DEF Idle
    <3> QED BY <3>3, <3>4
  <2> QED BY <2>1, <2>2, <2>3 DEF Fresh, Idle, Remembered
<1>15. CASE UNCHANGED vars
  BY <1>15 DEF vars, dirVars, Fresh, Idle, Remembered
<1>16. ASSUME NEW t \in Threads, Request(t)
       PROVE  (Fresh /\ Idle /\ Remembered)'
  BY <1>1, <1>2, <1>3, <1>4, <1>16 DEF Request
<1>17. ASSUME NEW t \in Threads, Serve(t)
       PROVE  (Fresh /\ Idle /\ Remembered)'
  BY <1>5, <1>6, <1>7, <1>8, <1>9, <1>10, <1>17 DEF Serve
<1> QED
  BY <1>11, <1>12, <1>13, <1>14, <1>15, <1>16, <1>17 DEF Next

LEMMA Caches == Spec => [](DirectoryTypeOK /\ Fresh /\ Remembered)
BY InitDirectory, StepDirectory, InitCaches, StepCaches, PTL DEF Spec

\* No page is served after its time to live, for any number of threads that
\* fill the same entry in any order.
THEOREM CachesAreFresh == Spec => []CacheFresh
<1>1. DirectoryTypeOK /\ Fresh => CacheFresh
  <2> SUFFICES ASSUME DirectoryTypeOK, Fresh, NEW p \in Directory, cache[p] # None
               PROVE  cache[p].age < Ttl[p]
    BY DEF CacheFresh
  <2>1. cache[p].age \in Nat /\ cache[p].valid \in Nat /\ Ttl[p] \in Nat
    BY DirectoryAssumption DEF DirectoryTypeOK, Entry
  <2> QED BY <2>1 DEF Fresh
<1> QED BY <1>1, Caches, PTL

\* Searches by name or keyword find what has been shown before, for any boards,
\* pages and aliases: remembering a board anew replaces what is said of it, but
\* never loses it.
THEOREM ShownBoardsAreFound == Spec => []ShownIsFound
<1>1. DirectoryTypeOK /\ Remembered => ShownIsFound
  <2> SUFFICES ASSUME DirectoryTypeOK, Remembered, NEW t \in Threads, NEW b \in shown,
                      <<query[t], b>> \in ByName
               PROVE  b \in Matched(t)
    BY DEF ShownIsFound
  <2>1. b \in Listed(known)
    BY DEF Remembered
  <2>2. Listed(Candidates(t)) = Listed(copy[t]) \cup Listed(known)
    BY UpdatedCatalog DEF Candidates, DirectoryTypeOK
  <2> QED BY <2>1, <2>2 DEF Matched, Matches
<1> QED BY <1>1, Caches, PTL
=============================================================================
