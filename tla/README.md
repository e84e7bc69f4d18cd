# PTT Alert Hub: TLA+ specifications

PTT Alert Hub watches boards of the bulletin board PTT and notifies its users
of new articles that match their rules, by Telegram and by Web Push.  This
directory models the parts of it in which something can go wrong that a unit
test hardly reaches: processes that share a lock with an expiry, a crawl run
that works for minutes on rules and rows that change under it, deliveries that
fail half-way, processes that start together on a database of any age, and
threads that share one slow connection to PTT and two caches.

## The system

Two kinds of processes run the same Python package on one PostgreSQL database:
API processes (FastAPI, several threads) and crawler workers (APScheduler).
Browsers run the React frontend and its service worker.

| Part | State | Operations | Interaction |
|---|---|---|---|
| Distributed lock (`distributed_lock.py`) | a row of `runtime_locks` per lock | `try_acquire`, `release`, `acquire` | used by the scheduler (leader lease) and by every crawl run (crawl lock) |
| Crawl run (`crawl_service.py`, `matcher.py`) | `seen_articles`, `article_matches`, `board_crawl_snapshots`, `crawl_runs` | `run`, called by the scheduler's job and by `POST /api/crawl/run` | reads `rules`, fetches from PTT, ends with both deliveries |
| Rules (`api/rules.py`) | `rules` | create, update, delete | at any moment, also during a run |
| Telegram (`crawl_service.py`, `notifier.py`) | `article_matches.notified_at` | load, send, mark | inside a run |
| Web Push (`web_push.py`, `api/push.py`) | `push_subscriptions`, `article_matches.push_notified_at` | `send_pending`, `send_test`, subscribe, remove | inside a run; API threads; the push services |
| Scheduler and worker (`scheduler_service.py`, `worker.py`) | leader flag, crawl job, `worker_state` | `start`, `_sync_worker`, `shutdown` | leader lease, settings, runs; the dashboard reads `worker_state` |
| Settings (`app_settings.py`, `api/settings.py`) | one row of `app_settings` | get or create, update | read by scheduler and runs |
| PTT client (`ptt_crawler.py`) | time of the last request, per process | `crawl_board`, `validate_board` | runs, rules API, board search |
| Board directory (`board_directory.py`) | two caches, known boards, per process | popular, search, category | API threads |
| Accounts (`account_service.py`, `security.py`) | `users` | register, log in, bootstrap | JWT in the browser |
| Start-up (`database.py`, `main.py`) | the schema | `initialize_database` | all processes, one advisory lock |
| Frontend (`client.ts`, `App.tsx`, pages) | token, user, page state | requests and their late answers | API |
| PWA shell (`sw.js`, `PwaManager.tsx`) | caches, waiting worker | install, activate, fetch, push | browser |

What is hard about it: everything between two commits is interleaved with
other processes; the lock can expire while its holder works; a run may die, or
its database statement be refused, at any point; rules, devices and settings
are read once and used later; requests time out after they took effect.
`PROJECT.json` lists these hazards at their lines, with the properties aimed at
each.

What makes each part correct:

* lock: one valid holder at most; a dead holder locks nobody out for longer
  than the lease; only the owner's row is deleted;
* run: no match is lost and none is unjustified, whatever is rolled back; the
  snapshots show processed articles and match the rules after a success; every
  article is processed in the end; one run at a time;
* deliveries: what is marked was accepted by Telegram or the push service; what
  was not is tried again; order; duplicates only after faults; no live device is
  switched off;
* scheduler: a dead or deposed leader stops crawling, a live one continues, and
  the dashboard tells the truth within the heartbeat timeout;
* start-up: whoever serves finds columns, administrator, owners and settings,
  whoever else starts or dies meanwhile; starts take nothing back;
* settings: the limit on pages for frequent runs holds for what is stored;
* PTT client: its requests are spaced within a process; a crawl of several pages
  is what one look could have shown;
* board directory: no page is served after its time to live; a board once
  shown is found by its name, whatever is remembered of it by then; every
  request is answered;
* frontend: a late answer does not replace a newer one (not modelled).

## Modules

| Module | Models | Notes |
|---|---|---|
| `Lease` | what a lock with expiry promises | abstract |
| `DistributedLock` | `distributed_lock.py` | implements `Lease` |
| `DistributedLockProofs` | | theorems about it |
| `Ledger` | what crawl runs promise about articles and matches | abstract |
| `CrawlRun` | `crawl_service.py` with `rules.py`, the tables' keys, PTT | implements `Ledger` |
| `CrawlRunProofs` | | theorems about it |
| `Outbox` | what both deliveries promise about the rows they deliver | abstract |
| `TelegramDelivery` | `_send_pending_notification`, `notifier.py` | implements `Outbox` |
| `TelegramDeliveryProofs` | | theorems about it |
| `PushDelivery` | `web_push.py`, `api/push.py` | implements `Outbox` |
| `PushDeliveryProofs` | | theorems about it |
| `WorkerFleet` | `scheduler_service.py`, `worker.py`, the interval setting, the dashboard's reading of `worker_state` | uses the lease as `DistributedLock` shows it, and is a `Lease` again |
| `WorkerFleetProofs` | | theorems about it |
| `Startup` | `database.py`, `account_service.py`, `app_settings.py`, `api/settings.py`, registration | |
| `StartupProofs` | | theorems about it |
| `BoardRead` | what reading a board promises | abstract |
| `PttClient` | `ptt_crawler.py` in one process, with PTT | implements `BoardRead` |
| `PttClientProofs` | | theorems about it |
| `BoardDirectory` | `board_directory.py`, `api/boards.py`, board validation | extends `PttClient`, whose steps its callers cause |
| `BoardDirectoryProofs` | | theorems about it, one that its steps are steps of `PttClient` |
| `MC*` | the instances TLC checks | one `.cfg` per run |

### DistributedLock

The row is `rowOwner` and `rowExpires`.  A statement with its commit is one
step, so `try_acquire` is `Begin` (reads the clock), `Inserted` or
`InsertRejected`, and `Updated` or `Refused`; anything may happen in between.
Every owner has its own clock, off by at most `MaxSkew`.  `held` and `until`
are what the caller believes.  `Holds(o)` asks that no clock in the system has
passed the expiry: that is when the row still protects the owner.

### CrawlRun

One run per process, with the program counter `pc`: `load` the rules, `prune`
the snapshots (a DELETE that stays uncommitted and locks its rows), then for
each board `fetch`, `read` and `write`, and `release`.  `CommitBoard` is the
transaction of one board.  PostgreSQL's part in it is `Conflict` (unique and
foreign keys, a snapshot row that is gone) and `Blocked` (row locks); runs that
wait for each other in a ring (`Deadlocked`) end with the rollback of one
(`WriteFails`).

Which title matches which rule is the relation `Hits`.  Rules are numbered in
the order of their creation and an article is `born` after the last rule whose
`created_at` its stamp is not before; the stamp has whole seconds, so it may
precede rules that were created just before.  `exempt[r]` is bookkeeping: the
articles that were processed before rule `r` had its present form, or by a run
that had read another form of it.  The properties make an exception for those;
`NewArticlesMatch` does not, and fails.

The crawl lock is here what `DistributedLock` shows it to be: taken by one,
released by its owner, free again when a dead owner's lease has ended.  With
`Overrun` a run may outlive its lease.

`ImplementsLedger` forgets boards, transactions, locks and snapshots: a rule is
what it asks for (`Asked`), a run is what it has read of the rules, and the
commit of a board is one `Process` of the ledger.

### TelegramDelivery

`Arrive` adds the matches of a new article.  A run reads the switch, loads what
is pending for enabled rules of administrators, takes as many articles as fit
(`UpTo(last)` for any `last`: titles decide), sends, and marks.  `told` and
`twice` record what Telegram delivered.  As an `Outbox`, a run takes its batch
when it has put the message together, and settles it with `notified_at`.

### PushDelivery

A run goes from user to user and from device to device, and commits once.
`gone` are the rows it has read that were deleted since: updating one is a
StaleDataError, and the whole commit is refused.  `SaveRead` and `SaveCommit`
are the two halves of the subscription request.  As an `Outbox`, a run takes the
matches of a user when it reads them, and what a subscription sets aside is
waived.

What the server learns of a notification is that the push service has accepted
it, and that is what `accepted` records and the properties speak of.  The push
service drops what a device does not fetch within 300 seconds (`ttl=300`,
`web_push.py:146`): a match may be marked as pushed that no device ever displays.
Display is the business of push service, browser and `sw.js`, and outside.

### WorkerFleet

Each worker has two threads: `sync` is the place in `_sync_worker`, `main` the
place in `main()` and `shutdown()`.  Between two statements anything may happen
elsewhere, so a sync may outlive the shutdown of its scheduler, take the lease
again and write `active = TRUE` after the row was marked as stopped, and the
mark, an UPDATE by key, may hit the row of the successor.  After
`scheduler.shutdown()` APScheduler finds no job and leaves an added one pending
without `next_run_time`; the sync ends there with an exception
(`EnsureTooLate`).  SQLAlchemy updates only columns that differ from the row as
it was read, which is why `Update` and `MarkStopped` speak of `seen`.

`try_acquire` is one step here, because `DistributedLock` implements `Lease`
and takes an expired row over.  Time passes in ticks; a tick needs every worker
to have done what is due, unless it is `stalled`.  APScheduler drops a job that is
more than a second late (`misfire_grace_time`) or due while the one before still
runs (`max_instances=1`): after a stall the next sync may be a period away
(`Resume`).  Ages stop counting where
they make no difference.  `lost`, `behind` and `vacant` are history: how long a
worker has had a job without the lease or with an old interval, and how long
nobody has been in charge.

`Leaseholder` is the worker named by a leader row that has not expired: with
syncs that act late, releases of stopping workers and takeovers in between, it
is the holder of a `Lease`, as the owner in `DistributedLock` is.

### Startup

Every process goes through `initialize_database` (`lock`, `inspect`, `migrate`,
`unlock`), `ensure_bootstrap_admin` (`admin`, then `insert`, `promote` or
nothing, then `claim`) and `get_or_create_app_settings` (`settings`, `create`);
`pc` says where it is.  A table is `absent`, `old` (columns are missing) or
`current`.  What a process alters is what it found missing when it looked
(`saw`), in one transaction with `create_all`; if anything raises, or the
process dies, transaction and advisory lock are gone (`Fail`) and the container
starts again.  An `IntegrityError` at an insert means that the row is there.
`Inspect` stands for the inspector's queries, all of them under the lock.

While a previous deployment, or a process that is up, serves, people register
and administrators save settings.  `ReadSetting` and `SaveSetting` are the two
halves of `update_app_settings`: SQLAlchemy updates only columns that differ
from what the request has read (`Merge`).  A configured administrator's address
may be one somebody has registered, or is registering at the moment (`raced`
names the processes that were between look and insert).

SQLite, for which no advisory lock is taken, is meant for a single process in
development and left out.

### PttClient

A call is in `lock` (waiting for `_request_lock`), `pause` (with the lock,
until the last request is long enough ago), `asked`, `nap` (with the lock,
after an exception) or `backoff` (without it, after 429 or 5xx).  `quiet` is the
time since `_last_request_at` and `timer` what is left of a sleep; sleepers may
wake late.  A redirect, and the retries of a connection inside httpx, are part
of one request.  `board` is PTT: articles are posted on the page `index.html`
shows or on a new one after it, an article stays on its page, and a deleted one
loses its link.  That pages keep their numbers is an assumption about PTT.
`rest` and `window` are history: the time without a request through `_get`, with
which the code's own `_last_request_at` is compared, and what one look at the board would
have shown when `index.html` was read.

`BoardRead` has neither pages nor requests: a reader looks once, sees the newest
articles, and answers.  `ImplementsBoardRead` maps the arrival of `index.html` to
the look, the arrival of the last page to the answer, every failure to an error
that tells nothing, and everything else to no step.  This is why a fetch is a
single step of `CrawlRun`.

### BoardDirectory

A request is one of four kinds: validation (`crawl`), the popular boards, a
category, or a search, which reads the popular boards first and may end with a
validation of its own.  `Look` reads the clock and the cache; `Fetch` gets the
page, `Store` replaces the cache entry whatever is there by now, and assigns the
page's boards in `known`.  `Filled` is valid from the time of `Look`, not of `Fetch`:
that is why it is fresh even when the slower thread overwrites the faster one.
`_get_html` does not use the client's lock, so these requests are not spaced.

A page gives each board it lists a label, which stands for its category and
title, and `known` holds one label per board: the last one stored, also when it
comes from a page that was read earlier, or `Verified` once PTT has confirmed an
alias.  A search goes through the popular page with the labels of `known` written
over it (`Candidates`).  `ByName` is what `_matches_query` finds in a board's name
or keywords, `ByLabel` what it finds in the label.  Because labels are
overwritten, a board that was shown need not be found by the category or title
it was shown with; by its name and keywords it is (`ShownIsFound`).  A limit
leaves some part of the result (`Cuts`); in which order is left out.

`demand` chooses which kinds of requests a behaviour has.

## Runs

| Run | Instance | Shows |
|---|---|---|
| `lock` | 3 owners, one with a fast clock | `MutualExclusion`, `BoundedOrphan`, `OnlyOwnerReleases`, the refinement of `Lease`, `TakenOver` |
| `crawl_alone` | 1 process, 2 boards, 2 articles, 2 rules, 1 fault | `NoMissedMatch`, `MatchesJustified`, `SuccessIsComplete` |
| `crawl_overlap` | 2 processes, 2 boards, 1 article, 1 rule that moves, lock may be overrun | `NoMissedMatch` without the lock's help, `SnapshotSeen`, the refinement of `Ledger` |
| `crawl_live` | 2 processes within their leases, 2 faults | `OneRunAtATime`, `EventuallySeen` |
| `crawl_missed` | 1 process | a counterexample to `NewArticlesMatch` |
| `crawl_overrun` | 2 processes | a counterexample to `OneRunAtATime` when a lease is overrun |
| `telegram` | 1 run, 3 articles, 2 rules, 2 faults | `NotifiedWasSent`, `OldestFirst`, `ToldOnce`, the refinement of `Outbox`, `EventuallyNotified` |
| `push` | 1 user, 2 devices, one of which may die, 2 matches, 1 fault | `PushedWasAccepted`, `AcceptedOnce`, `DisabledIsDead`, the refinement of `Outbox`, `EventuallyPushed` |
| `push_baseline` | the same with one device, no faults | a counterexample to `BaselineOnlyFirst` |
| `startup` | 2 processes, 2 requests, 3 settings, new, old and current databases, 1 fault | `UpIsReady`, `NoCollision`, `LimitKept`, `SettingsKept`, `AllUp` |
| `boards` | 2 threads, 3 pages, crawls of up to 2, 2 boards, 2 pages of the directory, 2 labels | `Spaced` (of requests through `PttCrawler`), `FetchIsSnapshot`, `CacheFresh`, `ShownIsFound`, the refinement of `BoardRead`, `RequestsAnswered` |
| `fleet` | 2 workers, 2 intervals, 1 change, 1 fault | `OneScheduler`, `DeposedStops`, `SettingsApplied`, `OutageIsSeen`, the refinement of `Lease`, `Converges` |

### Bounds

* `MaxTime` of the lock leaves room for an acquisition, an expiry, a takeover
  and a second expiry; three owners allow a third to interfere with a takeover.
* Two rules and two boards are what it takes for a run to lose one board and
  keep another, and for a rule to move; two runs are enough for every conflict,
  because each of them is between two transactions.
* Three articles let a message hold the first, some or all of the rest, while
  newer ones arrive.  Two faults let a failure and a crash meet.
* Two devices are one that accepts and one that fails, dies or disappears (the
  one of `Mortal`).  Two matches are one that a run has in its hands and one
  that arrives before it marks.  `push_baseline` has a single device, so that its
  counterexample is the plain one, without two subscriptions at the same time.
* `crawl_overlap` uses one article, since a run treats the articles of a board as
  a whole.
* Two workers are the one that goes and the one that comes; crashes and
  restarts of both are included, since a restarted process is a new worker.  A
  tick is the sync period (10 s), the lease two and the heartbeat timeout three
  of them: the smallest numbers in the order of the defaults 10 < 30 < 45.  One
  stall of any length suffices to depose a leader in the middle of a sync.

* Two starting processes and one fault are one that dies anywhere and one that
  comes after it or beside it; a process that has failed starts again, so it is
  its own third.  Two requests with settings on both sides of the limit are
  what it takes to store a combination neither sent.
* Two threads are the one that has the request lock, or fills the cache, and
  the one that waits or overtakes it.  Three pages let the board grow between
  the requests of a crawl of two; the oldest article may be deleted, before or
  after its page is read.  `Delay` is 2 and a `Retry-After` 3: longer
  than the delay and than every backoff before the last attempt.  The times to
  live are 1 and 2 ticks, so that a fetch may take longer than they last.  The
  query is in the name of one board, in the label of both, and an alias of the
  first: that board is shown as one of a category, found by its label or name,
  checked as an alias, and its label overwritten by either.

### Fairness

* Time passes, and the sync job of a live process calls `try_acquire` again
  and again (APScheduler's interval trigger).
* The interval job starts runs again and again, and a run that is not
  disturbed goes on: every request has a timeout, every loop is finite.
  Weak fairness of `Work(c)` covers the retry after each failure.
* APScheduler calls `_sync_worker` when it is due, a process that has something
  to do goes on, also after SIGTERM, and a stall ends.  `Converges` is about a worker that
  stays up; nothing obliges anybody to start, stop or kill one.
* The lease of a dead run ends: an expiry is a moment in time.
* A process that starts goes on and is started again after a failure
  (`restart: unless-stopped` in `docker-compose.yml`), also if it must wait for
  the advisory lock, which PostgreSQL grants in turn: strong fairness of
  `Work(p)`.
* Time passes for sleeping threads, every request to PTT ends (15 s timeout),
  and a thread that waits for `_request_lock` gets it in the end.  Python does
  not promise the last, but whoever gives the lock back sleeps, parses a page
  or answers a request before it wants it again: strong fairness of
  `Client(t)`.
* Nothing obliges users, PTT, Telegram or push services; failures and crashes
  are bounded by `MaxFaults`, so that liveness is about what comes after them.

## Proofs

Proved for every value of the constants (within the named assumptions
`LockAssumption`, `CrawlAssumption`, `TelegramAssumption`, `PushAssumption`,
`FleetAssumption`, `StartupAssumption`, `ClientAssumption`,
`DirectoryAssumption`):

* `DistributedLockProofs`.  Mutual exclusion is not inductive: nothing in it
  ties a caller's belief to the row.  `IInv` adds that a holder's belief is
  backed by the row and that clock readings lie in the past.  From it follow
  `MutualExclusion`, `BoundedOrphan`, `OnlyOwnerReleases`, and that every step
  implements a step of `Lease`.
* `CrawlRunProofs`.  `Bookkeeping` says what a run has in its hands at a board:
  only published articles of that board, and among those it takes for known
  only processed ones.  With it `MatchesJustified`, `NoMissedMatch` and
  `SnapshotSeen` are inductive, for any number of runs with or without overlap.
  The other two need runs that end within their lease (`~Overrun`).  `Holding`:
  whoever is between start and release has the lock; from it follows
  `OneRunAtATime`.  `AllCovered` says which snapshots a run has pruned and
  written so far, which stays true only because nobody writes beside it; with
  `AtBoard` it gives `SuccessIsComplete`.  `WaitsAreShort` needs `OneDeleter`:
  no two runs hold deleted snapshot rows in common, and only runs at work hold
  any.
* `TelegramDeliveryProofs`.  A message is put together long before it is
  marked.  `SentIsTold` and `NoGap` carry what was true at the loading over to
  the marking: what was sent is told, and no older match of a rule that is left
  alone was passed over; later matches cannot open a gap, because their
  articles are younger.  `ToldOnce` is proved for one run at a time; the
  refinement of `Outbox`, for any number.
* `PushDeliveryProofs`.  `Rows` (a subscription the run has touched is there or
  counted as gone), `Earned` (what is going to be marked was accepted) and,
  as long as no marks were lost, `Complete` (what was accepted is marked or
  going to be).
* `WorkerFleetProofs`.  `OneScheduler` needs time: a worker that schedules has
  renewed the lease since its last sync was due (`Backed`), and the period is
  shorter than the lease.  `LostBound` and `BehindBound` say that what a worker
  has not noticed it will notice in its next sync.  `Honest` orders the
  heartbeat and the last moment somebody was in charge.
* `StartupProofs`.  `Locked`: whoever is between `lock` and `unlock` has the
  advisory lock, so what it saw is what there is (`NoCollision`).  `Progress`
  says for every place of the start-up what is already true there, and that
  nobody undoes it (`UpIsReady`).  For `LimitKept`, a save that found what it
  had read stores exactly the settings sent (`UndisturbedSave`), every other one
  sets `overlap`, and the migration of an old row resets it to legal values.
* `PttClientProofs`.  `Spacing` compares the code's variable with the history:
  between two requests `quiet` never runs ahead of `rest`, and a thread in
  `pause` sleeps for at least the rest of the delay, alone with the lock.
  `Partial`: a crawl under way has what there was on the pages above the next
  one, and what it is still to read was there when it began.
* `BoardDirectoryProofs`.  `UsesClient` maps every step of the composition to a
  step of `PttClient` or a stutter, so that `Spaced` and `FetchIsSnapshot` carry
  over without a new proof.  `CacheFresh` needs that a page in a thread's hands
  is no older than its look into the cache (`Fresh`).  `ShownIsFound` follows
  from `Remembered` (answers, caches and searches hold only known boards) and
  from a name's matching whatever the label: assignments replace the label of a
  known board but never make it unknown (`UpdatedCatalog`).

Type correctness is proved for every module, which covers what a run could show;
so no run checks it.

### Refinements

Five modules are shown to implement an abstract specification: TLC checks it on
the runs' instances, and a theorem `Refinement` states it for all.

| Theorem | Says | Rests on |
|---|---|---|
| `DistributedLock` implements `Lease` | at most one valid holder, never passed on directly | `IInv` |
| `WorkerFleet` implements `Lease` | the leader row does the same for whoever interleaves its syncs | types: the row names one worker, and a tick can only end its validity |
| `CrawlRun` implements `Ledger` | articles are recorded once, together with exactly the matches the rules as read ask for, all of existing rules; matches go only with their rule | `Bookkeeping`, and the keys in `Conflict`: without the unique key an article could be processed twice, without the foreign key a match could be of no rule |
| `TelegramDelivery`, `PushDelivery` implement `Outbox` | a row is settled by whoever took it unsettled and delivered it, or set aside; what was delivered is never new again | what was sent is in hand and told, what a run has in its hands was unsettled when it was taken |
| `PttClient` implements `BoardRead` | a crawl is one look and one answer | `Snapshot`, `InCall` |

`UsesClient` carries the last one over to the threads of the board directory
(`ReadsAreLooksHere`).  The two deliveries share one abstract specification,
although one marks what it sent message by message and the other everything at
the end of the run.

### What the findings leave

Two of the findings below are promises the code keeps only under conditions.
Theorems say which conditions are enough: conditions that ordinary behaviours
meet and that the counterexamples break.

* `NewArticlesGetMatches`: if rules are created only while no run is at work
  (`CreatedBetweenRuns`) and are not edited, every processed article has the
  matches of all rules older than itself (`NewArticlesMatch`).  The proof needs
  that a run's view of the rules stays current (`ViewsCurrent`), and that no
  article is stamped later than a rule still to come (`BornInTime`).
* `OnlyFirstActivationSetsAside`: for users who keep an enabled device once they
  have activated push (`KeepsDevice`) and subscribe one device at a time
  (`OneSaveAtATime`), only the first activation sets matches aside
  (`BaselineOnlyFirst`).
* `OneRun` has as its hypothesis that no run outlives its lease (`~Overrun`),
  which is what `crawl_overrun` breaks.

Only model-checked: liveness (`TakenOver`, `EventuallySeen`,
`EventuallyNotified`, `EventuallyPushed`, `Converges`, `AllUp`,
`RequestsAnswered`: fairness and ENABLED are out of the prover's reach).

## Findings

Three runs end with a counterexample to what the repository says of itself:
`crawl_missed` (a rule created during a run misses new articles),
`crawl_overrun` (the crawl lock does not keep a long run alone) and
`push_baseline` (matches are set aside at every activation without an active
device, not only at the first: a user removes the only device and subscribes it
again, and a match that arrived since is never sent).

Remarks, where the code is narrower than a sentence about it:

* Settings are validated per request and stored per changed column.  From
  (300 s, 1 page) one administrator saves (30 s, 1 page) and another, at the same
  time, (300 s, 5 pages): the row is (30 s, 5 pages), which
  `validate_high_frequency_settings` refuses.  `LimitKept` makes this its one
  exception (`overlap`); the next save that nobody disturbs ends it.
* "At least 2 seconds between requests to PTT" (repository `README.md:308`)
  does not hold of the system.  What holds, and all that `Spaced` says, is that the
  requests one process makes through `PttCrawler` are that far apart.  Every process
  has a throttle of its own, and the pages of the board directory are read
  without any (`_get_html`, `board_directory.py:147-164`): such a request may come
  at the same moment as one through `PttCrawler`, in the same process.
* The search box of the board picker is labelled "搜尋中文板名或看板代號" (search by
  Chinese title or board name, `BoardPicker.tsx:137`).  After an alias was
  confirmed, `board_directory.py:103-112` has the placeholders "已驗證看板" and
  "由 PTT 最新文章頁即時驗證" in place of the board's category and title, and search
  lets them override the cached popular page (`board_directory.py:87-89`): the
  board is not found by its real title until some page with it is read again.
* An account that is registered with the administrator's address between
  lookup and insert stays a member until the next start, which promotes it; only
  somebody who already serves makes this possible (`raced`).

## Abstractions

* Text: titles, messages and payloads appear only as far as a property tells
  them apart.
* A database statement or transaction is atomic at its commit; isolation is
  READ COMMITTED.
* Telegram and VAPID are taken to be configured; users stay active.  With
  `notification_enabled` off `send_pending` returns at once: that is a run
  without `Begin` in `PushDelivery`.
* Category and title of a board are one label, its popularity and the order of
  results are left out, as is the empty query, which is a request for the
  popular boards.
* In `CrawlRun` the commits after the last board, with the notifications between
  them, are one step (`RunFinish`): what they add to its tables is only the
  pruning of snapshots when no board was committed.
* Time in `PttClient` and `BoardDirectory` is counted in ticks; the two caches
  are one function from pages of the directory to entries.
* HTML parsing, rendering, logging, password hashing and token signatures are
  not modelled.

## Not modelled

* The frontend.  What its pages show between a request and its answer is
  presentation state that nothing else reads; the requests themselves are
  inputs of the server's modules, in any order and at any time.  The hazards it
  has (a late category in `BoardPicker`, a late 401, an update of the service
  worker) are listed in `PROJECT.json`; none of them is stored anywhere, and no
  text of the repository says what should happen.
* Log-in and tokens: they change no state of the server.
* The queries behind the lists of matches and runs: they only read.
* The normalisation of rule conditions and the comparison of titles: pure
  functions on strings.  `Hits`, `ByName`, `ByLabel` and `Alias` are arbitrary
  constants, so
  that the properties hold whatever these functions return.
* A clean-up of `RUNNING` rows of dead runs: there is none to model.

## Plan

1. Done: lock, run, deliveries, worker fleet, start-up and settings, PTT client
   and board directory; proofs of all their safety properties; refinements of
   `Lease`, `Ledger`, `Outbox` and `BoardRead`, proved.
2. Next proofs: properties of the abstract specifications as theorems of the
   detailed ones, where they add to what is stated; an abstract start-up; the
   conditions under which `LimitKept` needs no exception.
3. Possible next models: `BoardPicker` with its history of categories, and the
   session of a browser with several tabs.
