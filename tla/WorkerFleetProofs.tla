-------------------------- MODULE WorkerFleetProofs --------------------------
(***************************************************************************)
(* Proofs about WorkerFleet for any number of workers and any sync period, *)
(* lease and heartbeat timeout, as long as the period is shorter than the  *)
(* lease.                                                                  *)
(*                                                                         *)
(* OneScheduler: without faults a worker that schedules runs has renewed   *)
(* the lease since its last sync began, so that the lease cannot expire    *)
(* before the next (Backed).  DeposedStops and SettingsApplied: what a     *)
(* worker has not noticed yet, it is going to notice in its next sync, and *)
(* only a failure or a stall adds a period (LostBound, BehindBound).       *)
(* OutageIsSeen: a heartbeat under active = TRUE is never younger than the *)
(* last moment somebody was in charge (Honest).                            *)
(***************************************************************************)
EXTENDS WorkerFleet, TLAPS

LEMMA LateIsNat == Late \in Nat /\ Late > 0
  <1>1. \A p, f \in Nat : p * (f + 1) \in Nat
    OBVIOUS
  <1> QED BY <1>1, FleetAssumption DEF Late

\* Every variable keeps its type, whatever runs at the same time: the columns
\* of worker_state and runtime_locks, the jobs and the locals of the threads.
THEOREM TypeCorrect == Spec => []TypeOK
<1> USE FleetAssumption, LateIsNat
<1>1. Init => TypeOK
  <2> SUFFICES ASSUME Init PROVE TypeOK
    OBVIOUS
  <2> USE DEF Init, NothingSeen
  <2>1. /\ main \in [Workers -> {"new", "up", "release", "mark", "marking", "down"}]
        /\ sync \in [Workers -> {"idle", "acquire", "granted", "refused",
                                 "interval", "job", "read", "commit"}]
        /\ leader \in [Workers -> BOOLEAN]
        /\ job \in [Workers -> Intervals \cup {NoJob}]
        /\ wanted \in [Workers -> Intervals \cup {NoJob}]
        /\ seenActive \in [Workers -> BOOLEAN]
        /\ stalled \in [Workers -> BOOLEAN]
    OBVIOUS
  <2>2. seen \in [Workers -> [worker : Workers \cup {NoWorker}, active : BOOLEAN]]
    OBVIOUS
  <2>3. /\ stamp \in [Workers -> 0..Timeout + 1]
        /\ sinceSync \in [Workers -> 0..Period]
        /\ lost \in [Workers -> 0..Late]
        /\ behind \in [Workers -> 0..Late]
    OBVIOUS
  <2>4. /\ owner \in Workers \cup {NoWorker} /\ age \in 0..TTL + 1
        /\ stateWorker \in Workers \cup {NoWorker}
        /\ beat \in 0..Timeout + 1 /\ vacant \in 0..Timeout + 1
        /\ setting \in Intervals /\ saves \in 0..MaxSaves /\ faults \in 0..MaxFaults
    OBVIOUS
  <2>5. active \in BOOLEAN
    BY Zenon
  <2> QED BY <2>1, <2>2, <2>3, <2>4, <2>5 DEF TypeOK
<1>2. TypeOK /\ [Next]_vars => TypeOK'
  <2> SUFFICES ASSUME TypeOK, [Next]_vars PROVE TypeOK'
    OBVIOUS
  <2> USE DEF TypeOK, lease, state, settings, locals, history
  <2>1. ASSUME NEW w \in Workers, SyncWork(w) PROVE TypeOK'
    <3>1. CASE SyncStart(w)
      BY <3>1 DEF SyncStart, Goto
    <3>2. CASE TryAcquire(w)
      BY <3>2 DEF TryAcquire, Goto
    <3>3. CASE Lead(w)
      BY <3>3 DEF Lead, Goto
    <3>4. CASE StepDown(w)
      BY <3>4 DEF StepDown, Return, Goto, Forget, NothingSeen, JobRemoved
    <3>5. CASE GetInterval(w)
      BY <3>5 DEF GetInterval, Goto
    <3>6. CASE EnsureCrawlJob(w)
      BY <3>6 DEF EnsureCrawlJob, Goto, JobEnsured
    <3>7. CASE EnsureTooLate(w)
      BY <3>7 DEF EnsureTooLate, Return, Goto, Forget, NothingSeen
    <3>8. CASE ReadState(w)
      BY <3>8 DEF ReadState, Goto
    <3>9. CASE WriteState(w)
      <4>1. stateWorker' \in Workers \cup {NoWorker} /\ beat' \in 0..Timeout + 1
        BY <3>9 DEF WriteState, Insert, Update
      <4>2. active' \in BOOLEAN
        BY <3>9, Zenon DEF WriteState, Insert, Update
      <4> QED BY <3>9, <4>1, <4>2 DEF WriteState, Return, Goto, Forget, NothingSeen
    <3> QED BY <2>1, <3>1, <3>2, <3>3, <3>4, <3>5, <3>6, <3>7, <3>8, <3>9 DEF SyncWork
  <2>2. ASSUME NEW w \in Workers, MainWork(w) PROVE TypeOK'
    <3>1. CASE Release(w)
      BY <3>1 DEF Release
    <3>2. CASE MarkRead(w)
      BY <3>2 DEF MarkRead
    <3>3. CASE MarkStopped(w)
      BY <3>3 DEF MarkStopped
    <3> QED BY <2>2, <3>1, <3>2, <3>3 DEF MainWork
  <2>3. ASSUME NEW w \in Workers, SyncFails(w) PROVE TypeOK'
    BY <2>3 DEF SyncFails, Return, Goto, Forget, NothingSeen
  <2>4. ASSUME NEW w \in Workers, StopFails(w) PROVE TypeOK'
    BY <2>4 DEF StopFails
  <2>5. ASSUME NEW w \in Workers, Start(w) PROVE TypeOK'
    BY <2>5 DEF Start
  <2>6. ASSUME NEW w \in Workers, Shutdown(w) PROVE TypeOK'
    BY <2>6 DEF Shutdown, JobRemoved
  <2>7. ASSUME NEW w \in Workers, Crash(w) PROVE TypeOK'
    BY <2>7 DEF Crash, Return, Goto, Forget, NothingSeen
  <2>8. ASSUME NEW w \in Workers, Stall(w) PROVE TypeOK'
    BY <2>8 DEF Stall
  <2>12. ASSUME NEW w \in Workers, Resume(w) PROVE TypeOK'
    BY <2>12 DEF Resume
  <2>9. ASSUME NEW i \in Intervals, SaveInterval(i) PROVE TypeOK'
    BY <2>9 DEF SaveInterval
  <2>10. CASE Tick
    BY <2>10 DEF Tick, Least
  <2>11. CASE UNCHANGED vars
    BY <2>11 DEF vars
  <2> QED BY <2>1, <2>2, <2>3, <2>4, <2>5, <2>6, <2>7, <2>8, <2>9, <2>10, <2>11,
             <2>12 DEF Next
<1> QED BY <1>1, <1>2, PTL DEF Spec

----------------------------------------------------------------------------
(* What holds of the threads, with faults or without. *)

Threads ==
    /\ \A w \in Workers : job[w] # NoJob => main[w] = "up"
    /\ \A w \in Workers : main[w] = "new" => sync[w] = "idle"
    /\ faults = 0 => \A w \in Workers : ~stalled[w]

\* A crawl job exists only between start and shutdown of its scheduler, and
\* stalls are faults (start, shutdown, _ensure_crawl_job).
THEOREM ThreadsCorrect == Spec => []Threads
<1>1. Init => Threads
  BY DEF Init, Threads
<1>2. TypeOK /\ Threads /\ [Next]_vars => Threads'
  <2> SUFFICES ASSUME TypeOK, Threads, [Next]_vars PROVE Threads'
    OBVIOUS
  <2> USE DEF TypeOK, Threads, lease, state, settings, locals, history
  <2>1. ASSUME NEW w \in Workers, SyncWork(w) PROVE Threads'
    <3>1. CASE SyncStart(w)
      BY <3>1 DEF SyncStart, Goto
    <3>2. CASE TryAcquire(w)
      BY <3>2 DEF TryAcquire, Goto
    <3>3. CASE Lead(w)
      BY <3>3 DEF Lead, Goto
    <3>4. CASE StepDown(w)
      BY <3>4 DEF StepDown, Return, Goto, JobRemoved
    <3>5. CASE GetInterval(w)
      BY <3>5 DEF GetInterval, Goto
    <3>6. CASE EnsureCrawlJob(w)
      BY <3>6 DEF EnsureCrawlJob, Goto, JobEnsured
    <3>7. CASE EnsureTooLate(w)
      BY <3>7 DEF EnsureTooLate, Return, Goto
    <3>8. CASE ReadState(w)
      BY <3>8 DEF ReadState, Goto
    <3>9. CASE WriteState(w)
      BY <3>9 DEF WriteState, Return, Goto
    <3> QED BY <2>1, <3>1, <3>2, <3>3, <3>4, <3>5, <3>6, <3>7, <3>8, <3>9 DEF SyncWork
  <2>2. ASSUME NEW w \in Workers, MainWork(w) PROVE Threads'
    BY <2>2 DEF MainWork, Release, MarkRead, MarkStopped
  <2>3. ASSUME NEW w \in Workers, SyncFails(w) PROVE Threads'
    BY <2>3 DEF SyncFails, Return, Goto
  <2>4. ASSUME NEW w \in Workers, StopFails(w) PROVE Threads'
    BY <2>4 DEF StopFails
  <2>5. ASSUME NEW w \in Workers, Start(w) PROVE Threads'
    BY <2>5 DEF Start
  <2>6. ASSUME NEW w \in Workers, Shutdown(w) PROVE Threads'
    BY <2>6 DEF Shutdown, JobRemoved
  <2>7. ASSUME NEW w \in Workers, Crash(w) PROVE Threads'
    BY <2>7 DEF Crash, Return, Goto
  <2>8. ASSUME NEW w \in Workers, Stall(w) PROVE Threads'
    BY <2>8 DEF Stall
  <2>9. ASSUME NEW w \in Workers, Resume(w) PROVE Threads'
    BY <2>9 DEF Resume
  <2>10. ASSUME NEW i \in Intervals, SaveInterval(i) PROVE Threads'
    BY <2>10 DEF SaveInterval
  <2>11. CASE Tick
    BY <2>11 DEF Tick
  <2>12. CASE UNCHANGED vars
    BY <2>12 DEF vars
  <2> QED BY <2>1, <2>2, <2>3, <2>4, <2>5, <2>6, <2>7, <2>8, <2>9, <2>10, <2>11,
             <2>12 DEF Next
<1> QED BY <1>1, <1>2, TypeCorrect, PTL DEF Spec

----------------------------------------------------------------------------
(* OneScheduler *)

Leading(w) == job[w] # NoJob \/ sync[w] \in {"granted", "interval", "job"}

\* Without faults, a worker that schedules runs or is about to has the lease,
\* and has had it renewed since its last sync was due.
Backed ==
    faults = 0 => \A w \in Workers :
        main[w] = "up" /\ Leading(w) =>
            /\ owner = w
            /\ age <= Period
            /\ sync[w] # "acquire" => age <= sinceSync[w]

\* Unless a worker stalls or a statement fails, two workers never schedule
\* runs at the same time, however many are started, stopped and killed.
THEOREM AloneWithoutFaults == Spec => []OneScheduler
<1> USE FleetAssumption DEF Leading
<1>1. Init => Backed
  BY DEF Init, Backed
<1>2. TypeOK /\ Threads /\ Backed /\ [Next]_vars => Backed'
  <2> SUFFICES ASSUME TypeOK, Threads, Backed, [Next]_vars PROVE Backed'
    OBVIOUS
  <2> USE DEF TypeOK, Backed, lease, state, settings, locals, history
  <2>1. ASSUME NEW w \in Workers, SyncWork(w) PROVE Backed'
    <3>1. CASE SyncStart(w)
      BY <3>1 DEF SyncStart, Goto
    <3>2. CASE TryAcquire(w)
      BY <3>2 DEF TryAcquire, Goto, Obtainable
    <3>3. CASE Lead(w)
      BY <3>3 DEF Lead, Goto
    <3>4. CASE StepDown(w)
      BY <3>4 DEF StepDown, Return, Goto, JobRemoved
    <3>5. CASE GetInterval(w)
      BY <3>5 DEF GetInterval, Goto
    <3>6. CASE EnsureCrawlJob(w)
      BY <3>6 DEF EnsureCrawlJob, Goto, JobEnsured
    <3>7. CASE EnsureTooLate(w)
      BY <3>7 DEF EnsureTooLate, Return, Goto
    <3>8. CASE ReadState(w)
      BY <3>8 DEF ReadState, Goto
    <3>9. CASE WriteState(w)
      BY <3>9 DEF WriteState, Return, Goto
    <3> QED BY <2>1, <3>1, <3>2, <3>3, <3>4, <3>5, <3>6, <3>7, <3>8, <3>9 DEF SyncWork
  <2>2. ASSUME NEW w \in Workers, MainWork(w) PROVE Backed'
    <3>1. CASE Release(w)
      BY <3>1 DEF Release, Releasable
    <3>2. CASE MarkRead(w)
      BY <3>2 DEF MarkRead
    <3>3. CASE MarkStopped(w)
      BY <3>3 DEF MarkStopped
    <3> QED BY <2>2, <3>1, <3>2, <3>3 DEF MainWork
  <2>3. ASSUME NEW w \in Workers, SyncFails(w) \/ StopFails(w) \/ Stall(w) PROVE Backed'
    BY <2>3 DEF SyncFails, StopFails, Stall
  <2>4. ASSUME NEW w \in Workers, Start(w) PROVE Backed'
    BY <2>4 DEF Start, Threads
  <2>5. ASSUME NEW w \in Workers, Shutdown(w) PROVE Backed'
    BY <2>5 DEF Shutdown, JobRemoved
  <2>6. ASSUME NEW w \in Workers, Crash(w) PROVE Backed'
    BY <2>6 DEF Crash, Return, Goto
  <2>7. ASSUME NEW w \in Workers, Resume(w) PROVE Backed'
    BY <2>7 DEF Resume, Threads
  <2>8. ASSUME NEW i \in Intervals, SaveInterval(i) PROVE Backed'
    BY <2>8 DEF SaveInterval
  <2>9. CASE Tick
    BY <2>9 DEF Tick, Least, Busy, Threads
  <2>10. CASE UNCHANGED vars
    BY <2>10 DEF vars
  <2> QED BY <2>1, <2>2, <2>3, <2>4, <2>5, <2>6, <2>7, <2>8, <2>9, <2>10 DEF Next
<1>3. Threads /\ Backed => OneScheduler
  BY DEF Threads, Backed, OneScheduler
<1> QED BY <1>1, <1>2, <1>3, TypeCorrect, ThreadsCorrect, PTL DEF Spec

----------------------------------------------------------------------------
(* OutageIsSeen *)

\* The heartbeat that stands under active = TRUE is not younger than the last
\* moment somebody was in charge; whoever may still write is counted as such.
Honest ==
    /\ active => vacant <= beat
    /\ \A w \in Workers :
         /\ job[w] # NoJob \/ sync[w] \in {"read", "commit"} => vacant = 0
         /\ main[w] = "marking" /\ active /\ ~seenActive[w] => vacant = 0

\* The dashboard notices an outage within the heartbeat timeout, however
\* late writes of stopping workers interleave with each other.
THEOREM DashboardIsHonest == Spec => []OutageIsSeen
<1> USE FleetAssumption
<1>1. Init => Honest
  BY DEF Init, Honest
<1>2. TypeOK /\ Threads /\ Honest /\ [Next]_vars => Honest'
  <2> SUFFICES ASSUME TypeOK, Threads, Honest, [Next]_vars PROVE Honest'
    OBVIOUS
  <2> USE DEF TypeOK, Honest, lease, state, settings, locals, history
  <2>1. ASSUME NEW w \in Workers, SyncWork(w) PROVE Honest'
    <3>1. CASE SyncStart(w)
      BY <3>1 DEF SyncStart, Goto
    <3>2. CASE TryAcquire(w)
      BY <3>2 DEF TryAcquire, Goto, Obtainable
    <3>3. CASE Lead(w)
      BY <3>3 DEF Lead, Goto
    <3>4. CASE StepDown(w)
      BY <3>4 DEF StepDown, Return, Goto, Forget, JobRemoved
    <3>5. CASE GetInterval(w)
      BY <3>5 DEF GetInterval, Goto
    <3>6. CASE EnsureCrawlJob(w)
      BY <3>6 DEF EnsureCrawlJob, Goto, JobEnsured
    <3>7. CASE EnsureTooLate(w)
      BY <3>7 DEF EnsureTooLate, Return, Goto, Forget
    <3>8. CASE ReadState(w)
      BY <3>8 DEF ReadState, Goto
    <3>9. CASE WriteState(w)
      <4>1. vacant' = 0
        BY <3>9 DEF WriteState
      <4>2. beat' \in Nat
        BY <3>9 DEF WriteState, Insert, Update
      <4> QED BY <4>1, <4>2
    <3> QED BY <2>1, <3>1, <3>2, <3>3, <3>4, <3>5, <3>6, <3>7, <3>8, <3>9 DEF SyncWork
  <2>2. ASSUME NEW w \in Workers, MainWork(w) PROVE Honest'
    <3>1. CASE Release(w)
      BY <3>1 DEF Release, Releasable
    <3>2. CASE MarkRead(w)
      BY <3>2 DEF MarkRead
    <3>3. CASE MarkStopped(w)
      <4>1. main[w] = "marking" /\ UNCHANGED <<job, sync, vacant>> /\ beat' = 0
        BY <3>3 DEF MarkStopped
      <4>2. active' => active /\ ~seenActive[w]
        BY <3>3, Zenon DEF MarkStopped
      <4>3. active' => vacant = 0
        BY <4>1, <4>2
      <4> QED BY <4>1, <4>3
    <3> QED BY <2>2, <3>1, <3>2, <3>3 DEF MainWork
  <2>3. ASSUME NEW w \in Workers, SyncFails(w) PROVE Honest'
    BY <2>3 DEF SyncFails, Return, Goto, Forget
  <2>4. ASSUME NEW w \in Workers, StopFails(w) PROVE Honest'
    BY <2>4 DEF StopFails
  <2>5. ASSUME NEW w \in Workers, Start(w) PROVE Honest'
    BY <2>5 DEF Start
  <2>6. ASSUME NEW w \in Workers, Shutdown(w) PROVE Honest'
    BY <2>6 DEF Shutdown, JobRemoved
  <2>7. ASSUME NEW w \in Workers, Crash(w) PROVE Honest'
    BY <2>7 DEF Crash, Return, Goto, Forget
  <2>8. ASSUME NEW w \in Workers, Stall(w) PROVE Honest'
    BY <2>8 DEF Stall
  <2>9. ASSUME NEW w \in Workers, Resume(w) PROVE Honest'
    BY <2>9 DEF Resume
  <2>10. ASSUME NEW i \in Intervals, SaveInterval(i) PROVE Honest'
    BY <2>10 DEF SaveInterval
  <2>11. CASE Tick
    BY <2>11 DEF Tick, Least, Busy, InCharge
  <2>12. CASE UNCHANGED vars
    BY <2>12 DEF vars
  <2> QED BY <2>1, <2>2, <2>3, <2>4, <2>5, <2>6, <2>7, <2>8, <2>9, <2>10, <2>11,
             <2>12 DEF Next
<1>3. TypeOK /\ Honest => OutageIsSeen
  BY DEF TypeOK, Honest, OutageIsSeen, SchedulerRunning
<1> QED BY <1>1, <1>2, <1>3, TypeCorrect, ThreadsCorrect, PTL DEF Spec

----------------------------------------------------------------------------
(* DeposedStops and SettingsApplied *)

\* What f failed syncs may cost.
Allowed(f) == Period * f

LEMMA AllowedFacts ==
    \A f \in Nat : /\ Allowed(f) \in Nat
                   /\ Allowed(f + 1) = Allowed(f) + Period
                   /\ Period * (f + 1) = Allowed(f) + Period
  <1>1. \A p, f \in Nat : p * f \in Nat /\ p * (f + 1) = p * f + p
    OBVIOUS
  <1> QED BY <1>1, FleetAssumption DEF Allowed

LEMMA NotYetDue == \A n \in 0..Period : n # Period => n + 1 <= Period
  BY FleetAssumption

\* A worker that does not have the lease learns of it in its next sync, and
\* one that was deposed in the middle of a sync has not been so for a tick.
LostBound ==
    \A w \in Workers :
        /\ lost[w] <= Allowed(faults) + Period
        /\ stalled[w] => lost[w] <= Allowed(faults)
        /\ main[w] = "up" /\ owner # w /\ job[w] # NoJob /\ sync[w] = "idle"
             => lost[w] <= Allowed(faults) + sinceSync[w]
        /\ main[w] = "up" /\ owner # w
              /\ sync[w] \in {"granted", "interval", "job", "read", "commit"}
             => lost[w] = 0
        /\ owner = w /\ age > 0 => lost[w] = 0

\* A worker that lost the lease schedules runs for one sync period more, and
\* one for every sync that fails or is dropped after a stall, and no longer.
THEOREM DeposedWorkersStop == Spec => []DeposedStops
<1> USE FleetAssumption
<1>1. Init => LostBound
  BY AllowedFacts DEF Init, LostBound
<1>2. TypeOK /\ Threads /\ LostBound /\ [Next]_vars => LostBound'
  <2> SUFFICES ASSUME TypeOK, Threads, LostBound, [Next]_vars PROVE LostBound'
    OBVIOUS
  <2>0. /\ faults \in Nat /\ Allowed(faults) \in Nat
        /\ Allowed(faults + 1) = Allowed(faults) + Period
    <3>1. faults \in Nat
      BY DEF TypeOK
    <3> QED BY <3>1, AllowedFacts
  <2> USE <2>0 DEF TypeOK, LostBound, lease, state, settings, locals, history
  <2>1. ASSUME NEW w \in Workers, SyncWork(w) PROVE LostBound'
    <3>1. CASE SyncStart(w)
      BY <3>1 DEF SyncStart, Goto
    <3>2. CASE TryAcquire(w)
      BY <3>2 DEF TryAcquire, Goto, Obtainable
    <3>3. CASE Lead(w)
      BY <3>3 DEF Lead, Goto
    <3>4. CASE StepDown(w)
      BY <3>4 DEF StepDown, Return, Goto, Forget, JobRemoved
    <3>5. CASE GetInterval(w)
      BY <3>5 DEF GetInterval, Goto
    <3>6. CASE EnsureCrawlJob(w)
      BY <3>6 DEF EnsureCrawlJob, Goto, JobEnsured
    <3>7. CASE EnsureTooLate(w)
      BY <3>7 DEF EnsureTooLate, Return, Goto, Forget
    <3>8. CASE ReadState(w)
      BY <3>8 DEF ReadState, Goto
    <3>9. CASE WriteState(w)
      BY <3>9 DEF WriteState, Return, Goto, Forget
    <3> QED BY <2>1, <3>1, <3>2, <3>3, <3>4, <3>5, <3>6, <3>7, <3>8, <3>9 DEF SyncWork
  <2>2. ASSUME NEW w \in Workers, MainWork(w) PROVE LostBound'
    <3>1. CASE Release(w)
      BY <3>1 DEF Release, Releasable
    <3>2. CASE MarkRead(w)
      BY <3>2 DEF MarkRead
    <3>3. CASE MarkStopped(w)
      BY <3>3 DEF MarkStopped
    <3> QED BY <2>2, <3>1, <3>2, <3>3 DEF MainWork
  <2>3. ASSUME NEW w \in Workers, SyncFails(w) PROVE LostBound'
    BY <2>3 DEF SyncFails, Return, Goto, Forget
  <2>4. ASSUME NEW w \in Workers, StopFails(w) PROVE LostBound'
    BY <2>4 DEF StopFails
  <2>5. ASSUME NEW w \in Workers, Start(w) PROVE LostBound'
    BY <2>5 DEF Start, Threads
  <2>6. ASSUME NEW w \in Workers, Shutdown(w) PROVE LostBound'
    BY <2>6 DEF Shutdown, JobRemoved
  <2>7. ASSUME NEW w \in Workers, Crash(w) PROVE LostBound'
    BY <2>7 DEF Crash, Return, Goto, Forget
  <2>8. ASSUME NEW w \in Workers, Stall(w) PROVE LostBound'
    BY <2>8 DEF Stall
  <2>9. ASSUME NEW w \in Workers, Resume(w) PROVE LostBound'
    <3>1. lost[w] <= Allowed(faults) /\ \A n \in Nat : lost[w] <= Allowed(faults) + n
      BY <2>9 DEF Resume
    <3>2. /\ sinceSync'[w] \in Nat /\ \A v \in Workers \ {w} : sinceSync'[v] = sinceSync[v]
          /\ \A v \in Workers : stalled'[v] => stalled[v]
      BY <2>9 DEF Resume
    <3> QED BY <2>9, <3>1, <3>2 DEF Resume
  <2>10. ASSUME NEW i \in Intervals, SaveInterval(i) PROVE LostBound'
    BY <2>10 DEF SaveInterval
  <2>11. CASE Tick
    <3>1. ASSUME NEW w \in Workers
          PROVE  /\ lost'[w] <= Allowed(faults) + sinceSync'[w]
                 /\ lost'[w] <= Allowed(faults) + Period
                 /\ stalled[w] => lost'[w] = 0
                 /\ sync[w] # "idle" \/ owner = w => lost'[w] = 0
      <4>1. CASE job[w] = NoJob \/ owner = w \/ stalled[w]
        BY <2>11, <4>1 DEF Tick, Least
      <4>2. CASE job[w] # NoJob /\ owner # w /\ ~stalled[w]
        <5>1. main[w] = "up" /\ ~Busy(w)
          BY <2>11, <4>2 DEF Tick, Threads
        <5>2. sync[w] = "idle" /\ sinceSync[w] + 1 <= Period
          <6>1. sync[w] = "idle" /\ sinceSync[w] # Period
            BY <5>1 DEF Busy
          <6>2. sinceSync[w] \in 0..Period
            OBVIOUS
          <6> QED BY <6>1, <6>2, NotYetDue
        <5>3. lost[w] <= Allowed(faults) + sinceSync[w]
          BY <4>2, <5>1, <5>2
        <5>4. lost'[w] <= lost[w] + 1 /\ sinceSync'[w] = sinceSync[w] + 1
          BY <2>11, <4>2, <5>1, <5>2, LateIsNat DEF Tick, Least
        <5>5. lost'[w] \in Nat
          BY <2>11, <4>2, LateIsNat DEF Tick, Least
        <5> QED BY <4>2, <5>2, <5>3, <5>4, <5>5
      <4> QED BY <4>1, <4>2
    <3> QED BY <2>11, <3>1 DEF Tick
  <2>12. CASE UNCHANGED vars
    BY <2>12 DEF vars
  <2> QED BY <2>1, <2>2, <2>3, <2>4, <2>5, <2>6, <2>7, <2>8, <2>9, <2>10, <2>11,
             <2>12 DEF Next
<1>3. TypeOK /\ LostBound => DeposedStops
  BY AllowedFacts DEF TypeOK, LostBound, DeposedStops
<1> QED BY <1>1, <1>2, <1>3, TypeCorrect, ThreadsCorrect, PTL DEF Spec

\* The job differs from the setting only until the next sync, unless the
\* setting was saved after this sync had read it.
BehindBound ==
    \A w \in Workers :
        /\ behind[w] <= Allowed(faults) + Period
        /\ stalled[w] => behind[w] <= Allowed(faults)
        /\ main[w] = "up" /\ job[w] \notin {NoJob, setting} /\ sync[w] = "idle"
             => behind[w] <= Allowed(faults) + sinceSync[w]
        /\ sync[w] = "job" /\ wanted[w] # setting => behind[w] = 0
        /\ sync[w] \in {"read", "commit"} /\ job[w] \notin {NoJob, setting}
             => behind[w] = 0

\* A new interval is in force one sync period after it was saved, and one more
\* for every sync that fails or is dropped after a stall, however often it is
\* changed.
THEOREM SettingsReachWorkers == Spec => []SettingsApplied
<1> USE FleetAssumption
<1>1. Init => BehindBound
  BY AllowedFacts DEF Init, BehindBound
<1>2. TypeOK /\ Threads /\ BehindBound /\ [Next]_vars => BehindBound'
  <2> SUFFICES ASSUME TypeOK, Threads, BehindBound, [Next]_vars PROVE BehindBound'
    OBVIOUS
  <2>0. /\ faults \in Nat /\ Allowed(faults) \in Nat
        /\ Allowed(faults + 1) = Allowed(faults) + Period
    <3>1. faults \in Nat
      BY DEF TypeOK
    <3> QED BY <3>1, AllowedFacts
  <2> USE <2>0 DEF TypeOK, BehindBound, lease, state, settings, locals, history
  <2>1. ASSUME NEW w \in Workers, SyncWork(w) PROVE BehindBound'
    <3>1. CASE SyncStart(w)
      BY <3>1 DEF SyncStart, Goto
    <3>2. CASE TryAcquire(w)
      BY <3>2 DEF TryAcquire, Goto, Obtainable
    <3>3. CASE Lead(w)
      BY <3>3 DEF Lead, Goto
    <3>4. CASE StepDown(w)
      BY <3>4 DEF StepDown, Return, Goto, Forget, JobRemoved
    <3>5. CASE GetInterval(w)
      BY <3>5 DEF GetInterval, Goto
    <3>6. CASE EnsureCrawlJob(w)
      BY <3>6 DEF EnsureCrawlJob, Goto, JobEnsured
    <3>7. CASE EnsureTooLate(w)
      BY <3>7 DEF EnsureTooLate, Return, Goto, Forget
    <3>8. CASE ReadState(w)
      BY <3>8 DEF ReadState, Goto
    <3>9. CASE WriteState(w)
      BY <3>9 DEF WriteState, Return, Goto, Forget
    <3> QED BY <2>1, <3>1, <3>2, <3>3, <3>4, <3>5, <3>6, <3>7, <3>8, <3>9 DEF SyncWork
  <2>2. ASSUME NEW w \in Workers, MainWork(w) PROVE BehindBound'
    <3>1. CASE Release(w)
      BY <3>1 DEF Release, Releasable
    <3>2. CASE MarkRead(w)
      BY <3>2 DEF MarkRead
    <3>3. CASE MarkStopped(w)
      BY <3>3 DEF MarkStopped
    <3> QED BY <2>2, <3>1, <3>2, <3>3 DEF MainWork
  <2>3. ASSUME NEW w \in Workers, SyncFails(w) PROVE BehindBound'
    BY <2>3 DEF SyncFails, Return, Goto, Forget
  <2>4. ASSUME NEW w \in Workers, StopFails(w) PROVE BehindBound'
    BY <2>4 DEF StopFails
  <2>5. ASSUME NEW w \in Workers, Start(w) PROVE BehindBound'
    BY <2>5 DEF Start, Threads
  <2>6. ASSUME NEW w \in Workers, Shutdown(w) PROVE BehindBound'
    BY <2>6 DEF Shutdown, JobRemoved
  <2>7. ASSUME NEW w \in Workers, Crash(w) PROVE BehindBound'
    BY <2>7 DEF Crash, Return, Goto, Forget
  <2>8. ASSUME NEW w \in Workers, Stall(w) PROVE BehindBound'
    BY <2>8 DEF Stall
  <2>9. ASSUME NEW w \in Workers, Resume(w) PROVE BehindBound'
    <3>1. behind[w] <= Allowed(faults) /\ \A n \in Nat : behind[w] <= Allowed(faults) + n
      BY <2>9 DEF Resume
    <3>2. /\ sinceSync'[w] \in Nat /\ \A v \in Workers \ {w} : sinceSync'[v] = sinceSync[v]
          /\ \A v \in Workers : stalled'[v] => stalled[v]
      BY <2>9 DEF Resume
    <3> QED BY <2>9, <3>1, <3>2 DEF Resume
  <2>10. ASSUME NEW i \in Intervals, SaveInterval(i) PROVE BehindBound'
    BY <2>10 DEF SaveInterval
  <2>11. CASE Tick
    <3>1. ASSUME NEW w \in Workers
          PROVE  /\ behind'[w] <= Allowed(faults) + sinceSync'[w]
                 /\ behind'[w] <= Allowed(faults) + Period
                 /\ stalled[w] => behind'[w] = 0
                 /\ sync[w] # "idle" => behind'[w] = 0
      <4>1. CASE job[w] \in {NoJob, setting} \/ stalled[w]
        BY <2>11, <4>1 DEF Tick, Least
      <4>2. CASE job[w] \notin {NoJob, setting} /\ ~stalled[w]
        <5>1. main[w] = "up" /\ ~Busy(w)
          BY <2>11, <4>2 DEF Tick, Threads
        <5>2. sync[w] = "idle" /\ sinceSync[w] + 1 <= Period
          <6>1. sync[w] = "idle" /\ sinceSync[w] # Period
            BY <5>1 DEF Busy
          <6>2. sinceSync[w] \in 0..Period
            OBVIOUS
          <6> QED BY <6>1, <6>2, NotYetDue
        <5>3. behind[w] <= Allowed(faults) + sinceSync[w]
          BY <4>2, <5>1, <5>2
        <5>4. behind'[w] <= behind[w] + 1 /\ sinceSync'[w] = sinceSync[w] + 1
          BY <2>11, <4>2, <5>1, <5>2, LateIsNat DEF Tick, Least
        <5>5. behind'[w] \in Nat
          BY <2>11, <4>2, LateIsNat DEF Tick, Least
        <5> QED BY <4>2, <5>2, <5>3, <5>4, <5>5
      <4> QED BY <4>1, <4>2
    <3> QED BY <2>11, <3>1 DEF Tick
  <2>12. CASE UNCHANGED vars
    BY <2>12 DEF vars
  <2> QED BY <2>1, <2>2, <2>3, <2>4, <2>5, <2>6, <2>7, <2>8, <2>9, <2>10, <2>11,
             <2>12 DEF Next
<1>3. TypeOK /\ BehindBound => SettingsApplied
  BY AllowedFacts DEF TypeOK, BehindBound, SettingsApplied
<1> QED BY <1>1, <1>2, <1>3, TypeCorrect, ThreadsCorrect, PTL DEF Spec

----------------------------------------------------------------------------
\* The leader lease implements the abstract lease, whatever workers, stalls,
\* failures and late releases there are: between two leaders there is a moment
\* at which nobody holds it (try_acquire, release).
THEOREM Refinement == Spec => ImplementsLease
<1> USE FleetAssumption
<1>1. Init => AbstractLease!Init
  BY DEF Init, AbstractLease!Init, Leaseholder
<1>2. TypeOK /\ [Next]_vars => [AbstractLease!Next]_Leaseholder
  <2> SUFFICES ASSUME TypeOK, [Next]_vars
               PROVE  AbstractLease!Next \/ Leaseholder' = Leaseholder
    OBVIOUS
  <2> USE DEF TypeOK, lease
  <2>1. ASSUME UNCHANGED lease PROVE Leaseholder' = Leaseholder
    BY <2>1 DEF Leaseholder
  <2>2. ASSUME NEW w \in Workers, TryAcquire(w)
        PROVE  AbstractLease!Next \/ Leaseholder' = Leaseholder
    <3>1. CASE Obtainable(w)
      <4>1. Leaseholder' = w /\ Leaseholder \in {w, NoWorker}
        BY <2>2, <3>1 DEF TryAcquire, Obtainable, Leaseholder
      <4>2. Leaseholder = NoWorker => AbstractLease!Acquire(w)
        BY <4>1 DEF AbstractLease!Acquire
      <4> QED BY <4>1, <4>2 DEF AbstractLease!Next
    <3>2. CASE ~Obtainable(w)
      BY <2>1, <2>2, <3>2 DEF TryAcquire
    <3> QED BY <3>1, <3>2
  <2>3. ASSUME Leaseholder' = NoWorker
        PROVE  AbstractLease!Next \/ Leaseholder' = Leaseholder
    BY <2>3 DEF AbstractLease!Next, AbstractLease!Lose
  <2>4. ASSUME NEW w \in Workers, Release(w)
        PROVE  AbstractLease!Next \/ Leaseholder' = Leaseholder
    <3>1. CASE Releasable(w)
      <4>1. Leaseholder' = NoWorker
        BY <2>4, <3>1 DEF Release, Leaseholder
      <4> QED BY <2>3, <4>1
    <3>2. CASE ~Releasable(w)
      BY <2>1, <2>4, <3>2 DEF Release
    <3> QED BY <3>1, <3>2
  <2>5. CASE Tick
    <3>1. owner' = owner /\ age' = IF owner = NoWorker THEN 0 ELSE Least(age + 1, TTL + 1)
      BY <2>5 DEF Tick
    <3>2. Leaseholder' \in {Leaseholder, NoWorker}
      BY <3>1 DEF Leaseholder, Least
    <3> QED BY <2>3, <3>2
  <2>6. ASSUME NEW w \in Workers,
               \/ SyncStart(w) \/ Lead(w) \/ StepDown(w) \/ GetInterval(w)
               \/ EnsureCrawlJob(w) \/ EnsureTooLate(w) \/ ReadState(w)
               \/ WriteState(w) \/ SyncFails(w)
        PROVE  UNCHANGED lease
    BY <2>6 DEF SyncStart, Lead, StepDown, GetInterval, EnsureCrawlJob,
                EnsureTooLate, ReadState, WriteState, SyncFails
  <2>7. ASSUME NEW w \in Workers,
               \/ MarkRead(w) \/ MarkStopped(w) \/ StopFails(w) \/ Start(w)
               \/ Shutdown(w) \/ Crash(w) \/ Stall(w) \/ Resume(w)
        PROVE  UNCHANGED lease
    BY <2>7 DEF MarkRead, MarkStopped, StopFails, Start, Shutdown, Crash, Stall, Resume
  <2>8. CASE (\E i \in Intervals : SaveInterval(i)) \/ UNCHANGED vars
    BY <2>1, <2>8 DEF SaveInterval, vars
  <2> QED
    BY <2>1, <2>2, <2>4, <2>5, <2>6, <2>7, <2>8 DEF Next, SyncWork, MainWork
<1> QED
  BY <1>1, <1>2, TypeCorrect, PTL DEF Spec, ImplementsLease, AbstractLease!Spec
=============================================================================
