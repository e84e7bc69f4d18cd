---------------------------- MODULE WorkerFleet ----------------------------
(***************************************************************************)
(* services/scheduler_service.py, worker.py: crawler workers of which one  *)
(* is to schedule the crawl runs.  A worker's background scheduler calls   *)
(* _sync_worker every worker_sync_seconds; the leader lease decides who    *)
(* has the crawl job, the interval comes from app_settings, and the leader *)
(* writes its heartbeat into worker_state, which the dashboard reads.      *)
(* SIGTERM makes the main thread shut down while a sync may be under way.  *)
(*                                                                         *)
(* A restarted process is a new worker (worker_id is a uuid4).  The lease  *)
(* is an owner and an age: try_acquire is one step here, DistributedLock   *)
(* looks into it.  Time is counted in ticks, and a tick may pass only      *)
(* when every worker has done what is due, unless it is stalled.  Ages are *)
(* counted up to the point from which on they make no difference.          *)
(***************************************************************************)
EXTENDS Integers, FiniteSets

CONSTANTS Workers,    \* the processes that are ever started
          NoWorker,
          Intervals,  \* the values the setting takes
          Default,    \* the one a new row has
          NoJob,
          Period,     \* worker_sync_seconds
          TTL,        \* worker_lease_ttl_seconds
          Timeout,    \* worker_heartbeat_timeout_seconds
          MaxFaults,  \* bound on stalls and failed statements
          MaxSaves    \* bound on updates of the setting

ASSUME FleetAssumption ==
    /\ NoWorker \notin Workers
    /\ Default \in Intervals /\ NoJob \notin Intervals
    /\ Period \in Nat \ {0}
    /\ TTL \in Nat /\ Timeout \in Nat
    /\ Period < TTL
    /\ MaxFaults \in Nat /\ MaxSaves \in Nat

VARIABLES
    main,        \* where each worker's main thread is
    sync,        \* where its _sync_worker is
    leader,      \* _leader
    job,         \* the interval of its crawl job, or NoJob
    wanted,      \* local interval_seconds of its sync
    seen,        \* the row its sync has read: worker_id and active
    stamp,       \* the age of its sync's `now`
    seenActive,  \* `active` as its _mark_worker_stopped has read it
    sinceSync,   \* ticks since its last sync started
    stalled,     \* whether the process is stalled
    owner,       \* the leader lease's owner, NoWorker when there is no row
    age,         \* ticks since it was granted or renewed
    stateWorker, \* worker_state.worker_id, NoWorker when there is no row
    active,      \* worker_state.active
    beat,        \* the age of worker_state.heartbeat_at
    setting,     \* app_settings.interval_seconds
    saves,       \* how often it was changed
    lost,        \* history: ticks with a crawl job but no lease
    behind,      \* history: ticks, since the last save, with another interval
    vacant,      \* history: ticks since a worker last was in charge
    faults       \* how many stalls and failures there were

lease == <<owner, age>>
state == <<stateWorker, active, beat>>
settings == <<setting, saves>>
locals == <<wanted, seen, stamp>>
history == <<lost, behind, vacant>>
vars == <<main, sync, leader, job, locals, seenActive, sinceSync, stalled,
          lease, state, settings, history, faults>>

Late == Period * (MaxFaults + 1) + 1   \* later than any bound below
Least(a, b) == IF a <= b THEN a ELSE b

TypeOK ==
    /\ main \in [Workers -> {"new", "up", "release", "mark", "marking", "down"}]
    /\ sync \in [Workers -> {"idle", "acquire", "granted", "refused",
                             "interval", "job", "read", "commit"}]
    /\ leader \in [Workers -> BOOLEAN]
    /\ job \in [Workers -> Intervals \cup {NoJob}]
    /\ wanted \in [Workers -> Intervals \cup {NoJob}]
    /\ seen \in [Workers -> [worker : Workers \cup {NoWorker}, active : BOOLEAN]]
    /\ stamp \in [Workers -> 0..Timeout + 1]
    /\ seenActive \in [Workers -> BOOLEAN]
    /\ sinceSync \in [Workers -> 0..Period]
    /\ stalled \in [Workers -> BOOLEAN]
    /\ owner \in Workers \cup {NoWorker}
    /\ age \in 0..TTL + 1
    /\ stateWorker \in Workers \cup {NoWorker}
    /\ active \in BOOLEAN
    /\ beat \in 0..Timeout + 1
    /\ setting \in Intervals
    /\ saves \in 0..MaxSaves
    /\ lost \in [Workers -> 0..Late]
    /\ behind \in [Workers -> 0..Late]
    /\ vacant \in 0..Timeout + 1
    /\ faults \in 0..MaxFaults

NothingSeen == [worker |-> NoWorker, active |-> FALSE]

Init ==
    /\ main = [w \in Workers |-> "new"]
    /\ sync = [w \in Workers |-> "idle"]
    /\ leader = [w \in Workers |-> FALSE]
    /\ job = [w \in Workers |-> NoJob]
    /\ wanted = [w \in Workers |-> NoJob]
    /\ seen = [w \in Workers |-> NothingSeen]
    /\ stamp = [w \in Workers |-> 0]
    /\ seenActive = [w \in Workers |-> FALSE]
    /\ sinceSync = [w \in Workers |-> 0]
    /\ stalled = [w \in Workers |-> FALSE]
    /\ owner = NoWorker /\ age = 0
    /\ stateWorker = NoWorker /\ active = FALSE /\ beat = 0
    /\ setting = Default /\ saves = 0
    /\ lost = [w \in Workers |-> 0]
    /\ behind = [w \in Workers |-> 0]
    /\ vacant = Timeout + 1
    /\ faults = 0

----------------------------------------------------------------------------
(* _sync_worker *)

\* The sync thread of w goes on to p; the locals of a sync end with it.
Goto(w, p) == sync' = [sync EXCEPT ![w] = p]
Forget(w) ==
    /\ wanted' = [wanted EXCEPT ![w] = NoJob]
    /\ seen' = [seen EXCEPT ![w] = NothingSeen]
    /\ stamp' = [stamp EXCEPT ![w] = 0]
Return(w) == Goto(w, "idle") /\ Forget(w)

\* The interval trigger, with max_instances = 1.
SyncStart(w) ==
    /\ main[w] = "up"
    /\ sync[w] = "idle"
    /\ sinceSync[w] = Period
    /\ Goto(w, "acquire")
    /\ sinceSync' = [sinceSync EXCEPT ![w] = 0]
    /\ UNCHANGED <<main, leader, job, locals, seenActive, stalled, lease, state,
                   settings, history, faults>>

ObtainableAlways(w) == TRUE    \* a mutation: whoever asks is granted the lease
ObtainableAtExpiry(w) ==       \* a mutation: the last moment counts as expired
    owner \in {w, NoWorker} \/ age >= TTL

\* DistributedLock: nobody's, its own, or expired.
Obtainable(w) == owner \in {w, NoWorker} \/ age > TTL

TryAcquire(w) ==
    /\ sync[w] = "acquire"
    /\ IF Obtainable(w)
       THEN owner' = w /\ age' = 0 /\ Goto(w, "granted")
       ELSE Goto(w, "refused") /\ UNCHANGED lease
    /\ UNCHANGED <<main, leader, job, locals, seenActive, sinceSync, stalled,
                   state, settings, history, faults>>

\* self._leader = is_leader
Lead(w) ==
    /\ sync[w] = "granted"
    /\ leader' = [leader EXCEPT ![w] = TRUE]
    /\ Goto(w, "interval")
    /\ UNCHANGED <<main, job, locals, seenActive, sinceSync, stalled, lease,
                   state, settings, history, faults>>

JobKept(w) == job    \* a mutation: the job is not removed
JobRemoved(w) == [job EXCEPT ![w] = NoJob]

\* self._leader = is_leader; self._remove_crawl_job(); return
StepDown(w) ==
    /\ sync[w] = "refused"
    /\ leader' = [leader EXCEPT ![w] = FALSE]
    /\ job' = JobRemoved(w)
    /\ Return(w)
    /\ UNCHANGED <<main, seenActive, sinceSync, stalled, lease, state, settings,
                   history, faults>>

GetInterval(w) ==
    /\ sync[w] = "interval"
    /\ wanted' = [wanted EXCEPT ![w] = setting]
    /\ Goto(w, "job")
    /\ UNCHANGED <<main, leader, job, seen, stamp, seenActive, sinceSync, stalled,
                   lease, state, settings, history, faults>>

IntervalKept(w) ==    \* a mutation: an existing job is never rescheduled
    [job EXCEPT ![w] = IF @ = NoJob THEN wanted[w] ELSE @]

\* add_job, reschedule_job, or nothing when the interval is the same.  From
\* then on the interval serves only worker_state.interval_seconds.
JobEnsured(w) == [job EXCEPT ![w] = wanted[w]]

EnsureCrawlJob(w) ==
    /\ sync[w] = "job"
    /\ main[w] = "up"
    /\ job' = JobEnsured(w)
    /\ wanted' = [wanted EXCEPT ![w] = NoJob]
    /\ Goto(w, "read")
    /\ vacant' = 0
    /\ UNCHANGED <<main, leader, seen, stamp, seenActive, sinceSync, stalled, lease,
                   state, settings, lost, behind, faults>>

\* After scheduler.shutdown() there is no job: rescheduling it raises an
\* error; one that is added stays pending, without next_run_time, and raises
\* an error when that is read.
EnsureTooLate(w) ==
    /\ sync[w] = "job"
    /\ main[w] # "up"
    /\ Return(w)
    /\ UNCHANGED <<main, leader, job, seenActive, sinceSync, stalled, lease,
                   state, settings, history, faults>>

\* now = utc_now(); db.get(WorkerState, 1)
ReadState(w) ==
    /\ sync[w] = "read"
    /\ stamp' = [stamp EXCEPT ![w] = 0]
    /\ seen' = [seen EXCEPT ![w] = [worker |-> stateWorker, active |-> active]]
    /\ Goto(w, "commit")
    /\ UNCHANGED <<main, leader, job, wanted, seenActive, sinceSync, stalled,
                   lease, state, settings, history, faults>>

\* The UPDATE has the columns that differ from the row as it was read; an
\* INSERT fails when another worker was faster.
UpdateKeepsActive(w) ==    \* a mutation: active is not set again
    /\ stateWorker' = IF seen[w].worker = w THEN stateWorker ELSE w
    /\ active' = active
    /\ beat' = stamp[w]
Update(w) ==
    /\ stateWorker' = IF seen[w].worker = w THEN stateWorker ELSE w
    /\ active' = (active \/ ~seen[w].active)
    /\ beat' = stamp[w]

Insert(w) ==
    IF stateWorker = NoWorker
    THEN stateWorker' = w /\ active' = TRUE /\ beat' = stamp[w]
    ELSE UNCHANGED state

WriteState(w) ==
    /\ sync[w] = "commit"
    /\ IF seen[w].worker = NoWorker THEN Insert(w) ELSE Update(w)
    /\ Return(w)
    /\ UNCHANGED <<main, leader, job, seenActive, sinceSync, stalled, lease,
                   settings, history, faults>>

\* A statement of the sync fails, and the sync with it; what it has done
\* before remains.
SyncFails(w) ==
    /\ sync[w] \in {"acquire", "interval", "read", "commit"}
    /\ faults < MaxFaults
    /\ faults' = faults + 1
    /\ Return(w)
    /\ UNCHANGED <<main, leader, job, seenActive, sinceSync, stalled, lease,
                   state, settings, history>>

----------------------------------------------------------------------------
(* The main thread *)

\* initialize_worker(); start(): the first sync is due at once.
Start(w) ==
    /\ main[w] = "new"
    /\ main' = [main EXCEPT ![w] = "up"]
    /\ sinceSync' = [sinceSync EXCEPT ![w] = Period]
    /\ UNCHANGED <<sync, leader, job, locals, seenActive, stalled, lease, state,
                   settings, history, faults>>

\* scheduler.shutdown(wait=False): no job starts any more; a sync that is
\* under way goes on.
Shutdown(w) ==
    /\ main[w] = "up"
    /\ main' = [main EXCEPT ![w] = "release"]
    /\ job' = JobRemoved(w)
    /\ sinceSync' = [sinceSync EXCEPT ![w] = 0]
    /\ UNCHANGED <<sync, leader, locals, seenActive, stalled, lease, state,
                   settings, history, faults>>

Releasable(w) == leader[w] /\ owner = w

Release(w) ==
    /\ main[w] = "release"
    /\ IF Releasable(w) THEN owner' = NoWorker /\ age' = 0 ELSE UNCHANGED lease
    /\ leader' = [leader EXCEPT ![w] = FALSE]
    /\ main' = [main EXCEPT ![w] = "mark"]
    /\ UNCHANGED <<sync, job, locals, seenActive, sinceSync, stalled, state,
                   settings, history, faults>>

\* db.get, and the early return when the row is another worker's.
MarkRead(w) ==
    /\ main[w] = "mark"
    /\ IF stateWorker = w
       THEN /\ main' = [main EXCEPT ![w] = "marking"]
            /\ seenActive' = [seenActive EXCEPT ![w] = active]
       ELSE /\ main' = [main EXCEPT ![w] = "down"]
            /\ UNCHANGED seenActive
    /\ UNCHANGED <<sync, leader, job, locals, sinceSync, stalled, lease, state,
                   settings, history, faults>>

\* The UPDATE, which names the row only by its key.
MarkStopped(w) ==
    /\ main[w] = "marking"
    /\ active' = (active /\ ~seenActive[w])
    /\ beat' = 0
    /\ seenActive' = [seenActive EXCEPT ![w] = FALSE]
    /\ main' = [main EXCEPT ![w] = "down"]
    /\ UNCHANGED <<sync, leader, job, locals, sinceSync, stalled, lease,
                   stateWorker, settings, history, faults>>

\* A statement of shutdown() fails; the exception ends the main thread.
StopFails(w) ==
    /\ main[w] \in {"release", "mark", "marking"}
    /\ faults < MaxFaults
    /\ faults' = faults + 1
    /\ main' = [main EXCEPT ![w] = "down"]
    /\ seenActive' = [seenActive EXCEPT ![w] = FALSE]
    /\ UNCHANGED <<sync, leader, job, locals, sinceSync, stalled, lease, state,
                   settings, history>>

\* The process dies, at any point.
Crash(w) ==
    /\ main[w] # "new"
    /\ main[w] # "down" \/ sync[w] # "idle"
    /\ main' = [main EXCEPT ![w] = "down"]
    /\ Return(w)
    /\ leader' = [leader EXCEPT ![w] = FALSE]
    /\ job' = [job EXCEPT ![w] = NoJob]
    /\ seenActive' = [seenActive EXCEPT ![w] = FALSE]
    /\ sinceSync' = [sinceSync EXCEPT ![w] = 0]
    /\ stalled' = [stalled EXCEPT ![w] = FALSE]
    /\ UNCHANGED <<lease, state, settings, history, faults>>

----------------------------------------------------------------------------
(* The administrator and time *)

\* update_app_settings.  Of one column the later commit counts.
SaveInterval(i) ==
    /\ saves < MaxSaves
    /\ i # setting
    /\ setting' = i
    /\ saves' = saves + 1
    /\ behind' = [w \in Workers |-> 0]
    /\ UNCHANGED <<main, sync, leader, job, locals, seenActive, sinceSync, stalled,
                   lease, state, lost, vacant, faults>>

\* What a worker has to do before the next tick.
Busy(w) ==
    \/ sync[w] # "idle"
    \/ main[w] \in {"release", "mark", "marking"}
    \/ main[w] = "up" /\ sinceSync[w] = Period

\* A process or its connection to the database hangs for a while.
Stall(w) ==
    /\ Busy(w)
    /\ ~stalled[w]
    /\ faults < MaxFaults
    /\ faults' = faults + 1
    /\ stalled' = [stalled EXCEPT ![w] = TRUE]
    /\ UNCHANGED <<main, sync, leader, job, locals, seenActive, sinceSync, lease,
                   state, settings, history>>

\* A sync that was due during the stall is dropped when it is more than a
\* second late (APScheduler's misfire_grace_time) or the one before is still
\* under way; the next comes when the interval says so.
Resume(w) ==
    /\ stalled[w]
    /\ stalled' = [stalled EXCEPT ![w] = FALSE]
    /\ \/ UNCHANGED sinceSync
       \/ /\ main[w] = "up" /\ sinceSync[w] = Period
          /\ \E n \in 0..Period - 1 : sinceSync' = [sinceSync EXCEPT ![w] = n]
    /\ UNCHANGED <<main, sync, leader, job, locals, seenActive, lease, state,
                   settings, history, faults>>

\* Someone schedules runs, or hangs and may not have had its last word.
InCharge(w) == job[w] # NoJob \/ stalled[w]

Tick ==
    /\ \A w \in Workers : Busy(w) => stalled[w]
    /\ sinceSync' = [w \in Workers |->
                        IF main[w] = "up" THEN Least(sinceSync[w] + 1, Period) ELSE 0]
    /\ stamp' = [w \in Workers |->
                    IF sync[w] = "commit" THEN Least(stamp[w] + 1, Timeout + 1) ELSE 0]
    /\ age' = IF owner = NoWorker THEN 0 ELSE Least(age + 1, TTL + 1)
    /\ beat' = Least(beat + 1, Timeout + 1)
    /\ lost' = [w \in Workers |->
                   IF job[w] # NoJob /\ owner # w /\ ~stalled[w]
                   THEN Least(lost[w] + 1, Late) ELSE 0]
    /\ behind' = [w \in Workers |->
                     IF job[w] \notin {NoJob, setting} /\ ~stalled[w]
                     THEN Least(behind[w] + 1, Late) ELSE 0]
    /\ vacant' = IF \E w \in Workers : InCharge(w) THEN 0
                 ELSE Least(vacant + 1, Timeout + 1)
    /\ UNCHANGED <<main, sync, leader, job, wanted, seen, seenActive, stalled,
                   owner, stateWorker, active, setting, saves, faults>>

----------------------------------------------------------------------------

SyncWork(w) ==
    \/ SyncStart(w) \/ TryAcquire(w) \/ Lead(w) \/ StepDown(w) \/ GetInterval(w)
    \/ EnsureCrawlJob(w) \/ EnsureTooLate(w) \/ ReadState(w) \/ WriteState(w)

MainWork(w) == Release(w) \/ MarkRead(w) \/ MarkStopped(w)

Next ==
    \/ \E w \in Workers :
         \/ SyncWork(w) \/ MainWork(w)
         \/ SyncFails(w) \/ StopFails(w)
         \/ Start(w) \/ Shutdown(w) \/ Crash(w)
         \/ Stall(w) \/ Resume(w)
    \/ \E i \in Intervals : SaveInterval(i)
    \/ Tick

Spec == Init /\ [][Next]_vars

\* APScheduler runs a job that is due, processes that have something to do go on,
\* and stalls end.  Nothing obliges anybody to start, stop or crash workers.
FairSpec ==
    /\ Spec
    /\ WF_vars(Tick)
    /\ \A w \in Workers : WF_vars(SyncWork(w) \/ MainWork(w)) /\ WF_vars(Resume(w))

----------------------------------------------------------------------------
(* Properties *)

\* Unless a worker stalls or a statement fails, at most one worker schedules
\* runs, whatever is started, stopped or killed: sync period and lease leave
\* no gap (_sync_worker).
OneScheduler ==
    faults = 0 => \A v, w \in Workers : job[v] # NoJob /\ job[w] # NoJob => v = w

\* A worker that has lost the lease, by a stall for instance, stops scheduling
\* with the next sync that does not fail (_sync_worker, _remove_crawl_job).
DeposedStops == \A w \in Workers : lost[w] <= Period * (faults + 1)

\* A new interval is in force after one sync period, also when it is stored
\* while a sync is under way (SettingsPage.tsx: within about ten seconds).
SettingsApplied == \A w \in Workers : behind[w] <= Period * (faults + 1)

\* scheduler_running of the dashboard.
RunningWithoutHeartbeat == active    \* a mutation: heartbeat_at is not compared
SchedulerRunning == active /\ beat <= Timeout

\* When nobody schedules runs, the dashboard says so at the latest after the
\* heartbeat timeout, whatever the last leader wrote while it stopped
\* (_write_worker_state against _mark_worker_stopped).
OutageIsSeen == SchedulerRunning => vacant <= Timeout

\* w alone schedules runs, with the interval of the settings, holds the lease,
\* and the dashboard shows it.
Settled(w) ==
    /\ \A v \in Workers : job[v] = IF v = w THEN setting ELSE NoJob
    /\ owner = w
    /\ SchedulerRunning /\ stateWorker = w

\* If any worker stays up, some worker finally is the leader for good, however
\* the others were stopped, and whatever their late writes left behind.
Converges ==
    (\E w \in Workers : <>[](main[w] = "up")) => \E w \in Workers : <>[]Settled(w)

Leaseholder == IF owner # NoWorker /\ age <= TTL THEN owner ELSE NoWorker

AbstractLease == INSTANCE Lease WITH
    Owners <- Workers, NoOwner <- NoWorker, holder <- Leaseholder

\* The leader lease, taken here in one step, keeps what DistributedLock
\* promises of a lock: the one who may rely on it is alone, and it never
\* passes straight from one worker to the next.
ImplementsLease == AbstractLease!Spec
=============================================================================
