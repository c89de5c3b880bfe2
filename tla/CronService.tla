---------------------------- MODULE CronService ----------------------------
(* The scheduler of cron jobs (src/cron/service): its store in memory and   *)
(* on file, the timer tick that marks, runs and settles the due jobs, the   *)
(* catch-up at start, manual runs and edits.  `locked' runs one operation   *)
(* at a time on the store, so each locked section is one action; the jobs   *)
(* execute outside of it.                                                   *)
(*                                                                          *)
(* The unit of time stands for the timer's longest delay (60 s): an armed   *)
(* timer may fire at any moment, which also covers the 2 s minimum delays.  *)
EXTENDS Naturals, FiniteSets

CONSTANTS
    Jobs,
    Kind,           \* Jobs -> {"at", "every", "cron"}
    At,             \* Jobs -> when a one-shot job is due
    Period,         \* of the recurring schedules
    Stored,         \* the sets of jobs that the file may hold at first
    Untimed,        \* jobs whose timeoutSeconds is 0: no limit
    Timeout,        \* of the others
    StuckAfter,     \* STUCK_RUN_MS
    Backoff,        \* errorBackoffMs
    MaxAttempts,    \* cron.retry.maxAttempts
    Concurrency,    \* cron.maxConcurrentRuns
    Outcomes,       \* how an execution may end
    None,
    MaxNow,         \* bounds of the model: the clock,
    MaxEvents,      \* calls and crashes together,
    MaxJobs         \* and jobs at a time

Statuses == {"ok", "skipped", "transient", "permanent"}
Errors == {"transient", "permanent"}
Times == 1..(MaxNow + 1)
Moments == Times \union {None}
JobStates ==
    [enabled : BOOLEAN, next : Moments, running : Moments, lastRun : Moments,
     lastStatus : Statuses \union {"none", "absent"}, errors : 0..(MaxAttempts + 1),
     deleteAfterRun : BOOLEAN]

ASSUME CronAssumption ==
    /\ Kind \in [Jobs -> {"at", "every", "cron"}]
    /\ At \in [Jobs -> Nat \ {0}]
    /\ Stored \subseteq SUBSET Jobs /\ Untimed \subseteq Jobs
    /\ {Period, Timeout, StuckAfter, Backoff, Concurrency, MaxNow} \subseteq Nat \ {0}
    /\ {MaxAttempts, MaxEvents, MaxJobs} \subseteq Nat
    /\ Outcomes \subseteq Statuses
    /\ None \notin Nat \union [Jobs -> JobStates]

VARIABLES
    now,
    disk,           \* jobs.json
    mem,            \* state.store, None until it is loaded
    attached,       \* the jobs a tick collected are still objects of state.store
    armed,          \* state.timer is set
    batch,          \* what each flow is executing
    interrupted,    \* startupInterruptedJobIds
    events,         \* calls and crashes so far
    disturbed       \* history: see Excuse

stores == <<disk, mem, attached>>
flows == <<armed, batch, interrupted>>
vars == <<now, stores, flows, events, disturbed>>

-----------------------------------------------------------------------------
(* Jobs and their schedules *)

Later(t) == IF t > MaxNow THEN MaxNow + 1 ELSE t    \* beyond the horizon
LaterOf(t, u) == IF t > u THEN t ELSE u

Absent == [enabled |-> FALSE, next |-> None, running |-> None, lastRun |-> None,
           lastStatus |-> "absent", errors |-> 0, deleteAfterRun |-> FALSE]
Has(store, j) == store[j] # Absent

(* Mutant: a one-shot job is due whatever became of it. *)
ComputeNextAlways(j, job, t) ==
    IF ~job.enabled THEN None
    ELSE IF Kind[j] = "at" THEN Later(At[j]) ELSE Later((t \div Period + 1) * Period)

Served(j, job) == Kind[j] = "at" /\ job.lastStatus = "ok" /\ At[j] <= job.lastRun

(* A one-shot job keeps its time until it has succeeded, a repeating one    *)
(* follows its last run or else its anchor, a cron job has its slots.       *)
ComputeNext(j, job, t) ==
    IF ~job.enabled \/ Served(j, job) THEN None
    ELSE IF Kind[j] = "at" THEN Later(At[j])
    ELSE IF Kind[j] = "cron" THEN Later((t \div Period + 1) * Period)
    ELSE IF job.lastRun # None /\ job.lastRun + Period > t THEN Later(job.lastRun + Period)
    ELSE Later(LaterOf(1, (t + Period - 1) \div Period) * Period)

NewJob(j, delete) ==
    LET job == [Absent EXCEPT !.enabled = TRUE, !.lastStatus = "none", !.deleteAfterRun = delete]
    IN  [job EXCEPT !.next = ComputeNext(j, job, now)]

PreviousSlot(t) == ((t - 1) \div Period) * Period

Due(job) == job.enabled /\ job.running = None /\ job.next # None /\ now >= job.next

(* isRunnableJob as the catch-up asks it: a one-shot job that has a result  *)
(* is replayed if it is a retry, and a cron job whose last slot has no run  *)
(* is, unless its backoff holds it.                                         *)
BackoffPending(job) ==
    job.lastStatus \in Errors /\ job.lastRun # None /\ now < job.lastRun + Backoff
Missed(j, job) ==
    /\ job.enabled /\ job.running = None
    /\ IF Kind[j] = "at" /\ job.lastStatus # "none"
       THEN job.lastStatus \in Errors /\ job.next # None /\ job.next > job.lastRun /\ now >= job.next
       ELSE \/ Due(job)
            \/ /\ Kind[j] = "cron" /\ job.lastRun # None
               /\ ~(job.next # None /\ BackoffPending(job))
               /\ PreviousSlot(now) > job.lastRun

Stuck(job) == job.running # None /\ now > job.running + StuckAfter
Normalize(job) ==
    [job EXCEPT !.next = IF job.enabled THEN @ ELSE None,
                !.running = IF ~job.enabled \/ Stuck(job) THEN None ELSE @]

(* recomputeNextRuns: whatever is due or missing. *)
Recompute(store) ==
    [j \in Jobs |->
        LET job == Normalize(store[j])
        IN  IF job.enabled /\ (job.next = None \/ now >= job.next)
            THEN [job EXCEPT !.next = ComputeNext(j, job, now)] ELSE job]

(* Mutant: the repair is the full recomputation. *)
MaintainAll(store, expired) == Recompute(store)

(* recomputeNextRunsForMaintenance: what is missing and, when expired is    *)
(* asked for, a slot that was executed.                                     *)
Maintain(store, expired) ==
    [j \in Jobs |->
        LET job == Normalize(store[j])
            executed == /\ expired /\ job.next # None /\ now >= job.next /\ job.running = None
                        /\ job.lastRun # None /\ job.lastRun >= job.next
        IN  IF job.enabled /\ (job.next = None \/ executed)
            THEN [job EXCEPT !.next = ComputeNext(j, job, now)] ELSE job]

ApplyJobResult(j, job, r, preserveSchedule) ==
    LET failed == r.status \in Errors
        errors == IF ~failed THEN 0 ELSE IF job.errors > MaxAttempts THEN job.errors ELSE job.errors + 1
        ran == [job EXCEPT !.running = None, !.lastRun = r.started,
                           !.lastStatus = r.status, !.errors = errors]
        anchor == IF preserveSchedule THEN job.lastRun ELSE r.started
        natural == ComputeNext(j, [ran EXCEPT !.lastRun = IF Kind[j] = "every" THEN anchor ELSE @], r.ended)
        retry == Later(r.ended + Backoff)
        again == r.status = "transient" /\ errors <= MaxAttempts
    IN  IF Kind[j] = "at"
        THEN [ran EXCEPT !.enabled = again /\ @, !.next = IF again THEN retry ELSE None]
        ELSE [ran EXCEPT !.next = IF ~job.enabled THEN None
                                  ELSE IF failed THEN LaterOf(natural, retry) ELSE natural]

ShouldDelete(j, job, r) == Kind[j] = "at" /\ job.deleteAfterRun /\ r.status = "ok"

(* applyOutcomeToStoredJob: the result of a job that is gone is discarded.  *)
ApplyOutcome(store, j, r, preserveSchedule) ==
    IF ~Has(store, j) \/ ShouldDelete(j, store[j], r) THEN Absent
    ELSE ApplyJobResult(j, store[j], r, preserveSchedule)

-----------------------------------------------------------------------------
(* Flows: the catch-up of start(), the timer tick, and a manual run.        *)

Flows == {"catchup", "tick", "manual"}
NoRun == [at |-> "none"]
Waiting == [at |-> "waiting"]
Live(t) == [at |-> "live", started |-> t]
Ended(t, u, x) == [at |-> "ended", started |-> t, ended |-> u, status |-> x]
Idle == [stage |-> "idle", forced |-> FALSE, work |-> [j \in Jobs |-> NoRun]]
Busy(stage, jobs) ==
    [Idle EXCEPT !.stage = stage, !.work = [j \in Jobs |-> IF j \in jobs THEN Waiting ELSE NoRun]]
Reserved(j, forced) ==
    [stage |-> "working", forced |-> forced,
     work |-> [k \in Jobs |-> IF k = j THEN Live(now) ELSE NoRun]]

Claims(j) == {f \in Flows : batch[f].work[j] # NoRun}
LiveRuns(j) == {f \in Flows : batch[f].work[j].at = "live"}
Loaded == mem # None

SetBatch(f, b) == batch' = [batch EXCEPT ![f] = b]
(* Mutant: a job that is past due does not count. *)
ArmTimerFuture(store) ==
    armed' = \E j \in Jobs : store[j].enabled /\ store[j].next # None /\ store[j].next > now
ArmTimer(store) == armed' = \E j \in Jobs : store[j].enabled /\ store[j].next # None
Persist(store) == mem' = store /\ disk' = store
Mark(store, jobs) ==
    [j \in Jobs |-> IF j \in jobs THEN [store[j] EXCEPT !.running = now] ELSE store[j]]

(* A process that has just called start(): the file is what it has. *)
Fresh(b) == b = [f \in Flows |-> IF f = "catchup" THEN Busy("clearing", {}) ELSE Idle]

Init ==
    /\ now = 1
    /\ \E stored \in Stored : \E D \in SUBSET {j \in stored : Kind[j] = "at"} :
         disk = [j \in Jobs |-> IF j \in stored THEN NewJob(j, j \in D) ELSE Absent]
    /\ mem = None /\ attached = FALSE /\ armed = FALSE
    /\ Fresh(batch)
    /\ interrupted = {}
    /\ events = 0
    /\ disturbed = {}

-----------------------------------------------------------------------------
(* start() *)

(* First section: the markers of an earlier life are cleared.               *)
ClearMarkers ==
    /\ batch["catchup"].stage = "clearing"
    /\ Persist([j \in Jobs |-> [disk[j] EXCEPT !.running = None]])
    /\ interrupted' = {j \in Jobs : disk[j].running # None}
    /\ SetBatch("catchup", Busy("collecting", {}))
    /\ UNCHANGED <<now, attached, armed, events>>

(* runMissedJobs: the missed jobs are marked, save the interrupted ones.    *)
CollectMissed ==
    /\ batch["catchup"].stage = "collecting"
    /\ LET missed == {j \in Jobs \ interrupted : Missed(j, mem[j])}
       IN  IF missed = {}
           THEN SetBatch("catchup", Busy("finishing", {})) /\ UNCHANGED <<mem, disk>>
           ELSE SetBatch("catchup", Busy("working", missed)) /\ Persist(Mark(mem, missed))
    /\ interrupted' = {}
    /\ UNCHANGED <<now, attached, armed, events>>

(* Last section: whatever is due or missing is recomputed, the timer armed. *)
FinishStart ==
    /\ batch["catchup"].stage = "finishing"
    /\ Persist(Recompute(disk)) /\ ArmTimer(Recompute(disk))
    /\ attached' = FALSE
    /\ SetBatch("catchup", Idle)
    /\ UNCHANGED <<now, interrupted, events>>

-----------------------------------------------------------------------------
(* onTimer: while a tick runs the timer is only armed again, which changes  *)
(* nothing here; else a tick starts, with the recheck timer armed.          *)
OnTimer ==
    /\ armed /\ batch["tick"].stage = "idle"
    /\ SetBatch("tick", Busy("collecting", {}))
    /\ UNCHANGED <<now, stores, armed, interrupted, events>>

(* Mutant: the tick goes on although nothing is due. *)
CollectNothing ==
    /\ batch["tick"].stage = "collecting"
    /\ LET due == {j \in Jobs : Due(disk[j])}
       IN  /\ attached' = (due # {})
           /\ Persist(Mark(disk, due)) /\ SetBatch("tick", Busy("working", due)) /\ UNCHANGED armed
    /\ UNCHANGED <<now, interrupted, events>>

CollectDue ==
    /\ batch["tick"].stage = "collecting"
    /\ LET due == {j \in Jobs : Due(disk[j])}
           kept == Maintain(disk, TRUE)
       IN  /\ attached' = (due # {})
           /\ IF due = {}
              THEN Persist(kept) /\ ArmTimer(kept) /\ SetBatch("tick", Idle)
              ELSE Persist(Mark(disk, due)) /\ SetBatch("tick", Busy("working", due)) /\ UNCHANGED armed
    /\ UNCHANGED <<now, interrupted, events>>

-----------------------------------------------------------------------------
(* A batch: the tick's workers, and the sequential loop of the catch-up.    *)

Limit(f) == IF f = "tick" THEN Concurrency ELSE 1

(* runDueJob marks the job again, on the object that it holds.              *)
StartJob(f, j) ==
    /\ batch[f].work[j] = Waiting
    /\ Cardinality({k \in Jobs : f \in LiveRuns(k)}) < Limit(f)
    /\ SetBatch(f, [batch[f] EXCEPT !.work[j] = Live(now)])
    /\ mem' = IF f = "tick" /\ attached /\ Has(mem, j) THEN [mem EXCEPT ![j].running = now] ELSE mem
    /\ UNCHANGED <<now, disk, attached, armed, interrupted, events>>

(* executeJobCoreWithTimeout: the job's own outcome, or its time limit,     *)
(* whose message "timed out" is not one of the transient errors.            *)
EndJob(f, j, x) ==
    /\ batch[f].work[j].at = "live"
    /\ SetBatch(f, [batch[f] EXCEPT !.work[j] = Ended(@.started, now, x)])
    /\ UNCHANGED <<now, stores, armed, interrupted, events>>

AllEnded(f) ==
    /\ batch[f].stage = "working"
    /\ \A j \in Jobs : batch[f].work[j].at \in {"none", "ended"}

(* The results of a batch are applied together, to the file as it is now.   *)
SettleBatch(f) ==
    /\ f # "manual" /\ AllEnded(f)
    /\ LET work == batch[f].work
           settled == [j \in Jobs |-> IF work[j] = NoRun THEN disk[j]
                                      ELSE ApplyOutcome(disk, j, work[j], FALSE)]
           kept == Maintain(settled, FALSE)
       IN  /\ Persist(kept)
           /\ IF f = "tick" THEN SetBatch(f, Idle) /\ ArmTimer(kept)
              ELSE SetBatch(f, Busy("finishing", {})) /\ UNCHANGED armed
    /\ attached' = FALSE
    /\ UNCHANGED <<now, interrupted, events>>

-----------------------------------------------------------------------------
(* A call of the gateway's methods; the model bounds calls and crashes.     *)
Happens == events < MaxEvents /\ events' = events + 1
Called == Loaded /\ Happens

(* Mutant: the marker stays in memory, or is not asked for. *)
ManualRunUnpersisted(j, forced) ==
    /\ Called
    /\ Has(mem, j) /\ batch["manual"] = Idle
    /\ LET kept == Maintain(mem, FALSE)
           admitted == kept[j].running = None /\ (forced \/ Due(kept[j]))
       IN  IF admitted THEN mem' = Mark(kept, {j}) /\ SetBatch("manual", Reserved(j, forced))
           ELSE mem' = kept /\ UNCHANGED batch
    /\ UNCHANGED <<now, disk, attached, armed, interrupted>>
ManualRunUnasked(j, forced) ==
    /\ Called
    /\ Has(mem, j) /\ batch["manual"] = Idle
    /\ Persist(Mark(Maintain(mem, FALSE), {j}))
    /\ SetBatch("manual", Reserved(j, forced))
    /\ UNCHANGED <<now, attached, armed, interrupted>>

(* run(): a job is reserved under the lock, whatever its schedule says if   *)
(* the run is forced, and executed outside.  A run that is refused leaves   *)
(* the repairs in memory.                                                   *)
ManualRun(j, forced) ==
    /\ Called
    /\ Has(mem, j) /\ batch["manual"] = Idle
    /\ LET kept == Maintain(mem, FALSE)
           admitted == kept[j].running = None /\ (forced \/ Due(kept[j]))
       IN  IF admitted
           THEN /\ Persist(Mark(kept, {j}))
                /\ SetBatch("manual", Reserved(j, forced))
           ELSE mem' = kept /\ UNCHANGED <<disk, batch>>
    /\ UNCHANGED <<now, attached, armed, interrupted>>

(* Mutant: the store is loaded again over the result. *)
SettleManualUnmerged(j) ==
    /\ AllEnded("manual")
    /\ batch["manual"].work[j] # NoRun
    /\ Persist(Maintain(disk, TRUE)) /\ ArmTimer(Maintain(disk, TRUE)) /\ attached' = FALSE
    /\ SetBatch("manual", Idle)
    /\ UNCHANGED <<now, interrupted, events>>

(* The result is applied to the job in memory; its state is then put into   *)
(* the file as it is now, unless the job is gone from either.               *)
SettleManual(j) ==
    /\ AllEnded("manual")
    /\ batch["manual"].work[j] # NoRun
    /\ LET mine == ApplyOutcome(mem, j, batch["manual"].work[j], batch["manual"].forced)
           kept == Maintain(IF Has(disk, j) THEN [disk EXCEPT ![j] = mine] ELSE disk, TRUE)
       IN  IF Has(mem, j) THEN Persist(kept) /\ ArmTimer(kept) /\ attached' = FALSE
           ELSE UNCHANGED <<stores, armed>>
    /\ SetBatch("manual", Idle)
    /\ UNCHANGED <<now, interrupted, events>>

(* Edits trust the copy in memory. *)
Write(store) == Persist(store) /\ ArmTimer(store) /\ UNCHANGED <<now, attached, batch, interrupted>>

Add(j) ==
    /\ Called
    /\ Cardinality({k \in Jobs : Has(mem, k)}) < MaxJobs
    /\ ~Has(mem, j) /\ Claims(j) = {}     \* a new id
    /\ Write(Recompute([mem EXCEPT ![j] = NewJob(j, Kind[j] = "at")]))

Remove(j) ==
    /\ Called
    /\ Has(mem, j)
    /\ Write([mem EXCEPT ![j] = Absent])

(* update() with a value for `enabled'. *)
Update(j, enabled) ==
    /\ Called
    /\ Has(mem, j)
    /\ LET job == [mem[j] EXCEPT !.enabled = enabled, !.next = ComputeNext(j, [mem[j] EXCEPT !.enabled = enabled], now)]
       IN  Write([mem EXCEPT ![j] = IF enabled THEN job ELSE [job EXCEPT !.running = None]])

(* list() and status() repair what is missing or stuck. *)
List ==
    /\ Loaded /\ Maintain(mem, FALSE) # mem
    /\ Persist(Maintain(mem, FALSE))
    /\ UNCHANGED <<now, attached, flows, events>>

-----------------------------------------------------------------------------
(* The process ends, and is started again. *)
Crash ==
    /\ Happens
    /\ mem' = None /\ attached' = FALSE /\ armed' = FALSE
    /\ Fresh(batch')
    /\ interrupted' = {}
    /\ UNCHANGED <<now, disk>>

(* No execution outlasts its time limit. *)
Advance ==
    /\ now < MaxNow
    /\ \A j \in Jobs \ Untimed : \A f \in LiveRuns(j) : now < batch[f].work[j].started + Timeout
    /\ now' = now + 1
    /\ UNCHANGED <<stores, flows, events>>

(* What may take the marker from a job that has a run: the job is disabled  *)
(* or removed, or its marker is old enough to be called stuck.              *)
Excuse(j) ==
    \/ ~disk[j].enabled
    \/ Loaded /\ ~mem[j].enabled
    \/ Stuck(disk[j])

Start == ClearMarkers \/ CollectMissed \/ FinishStart
Tick == OnTimer \/ CollectDue
Settle == (\E f \in Flows : SettleBatch(f)) \/ (\E j \in Jobs : SettleManual(j))
Execute == \E f \in Flows, j \in Jobs : StartJob(f, j) \/ \E x \in Outcomes : EndJob(f, j, x)
Call == \E j \in Jobs :
    \/ Add(j) \/ Remove(j)
    \/ \E b \in BOOLEAN : ManualRun(j, b) \/ Update(j, b)

Next ==
    /\ Start \/ Tick \/ Execute \/ Settle \/ Call \/ List \/ Crash \/ Advance
    /\ disturbed' = {j \in Jobs : Claims(j)' # {} /\ (j \in disturbed \/ Excuse(j)')}

Spec == Init /\ [][Next]_vars

-----------------------------------------------------------------------------
(* Properties *)

Works ==
    {NoRun, Waiting} \union {Live(t) : t \in Times}
        \union {Ended(t, u, x) : t \in Times, u \in Times, x \in Statuses}
Stages == {"idle", "clearing", "collecting", "working", "finishing"}
Batches == [stage : Stages, forced : BOOLEAN, work : [Jobs -> Works]]

(* Types, and that a flow has a batch exactly while it is at work.          *)
TypeOK ==
    /\ now \in 1..MaxNow
    /\ disk \in [Jobs -> JobStates]
    /\ mem = None \/ mem \in [Jobs -> JobStates]
    /\ attached \in BOOLEAN /\ armed \in BOOLEAN
    /\ batch \in [Flows -> Batches]
    /\ \A f \in Flows : batch[f].stage = "working" <=> \E j \in Jobs : batch[f].work[j] # NoRun
    /\ interrupted \subseteq Jobs /\ disturbed \subseteq Jobs

(* A job has one run at a time, whoever starts it: the comment in run()     *)
(* persists the marker "so timer ticks that force-reload from disk cannot   *)
(* start the same job concurrently".  The marker is all there is: a job     *)
(* that is disabled while it runs, a disabled one that is forced, and one   *)
(* that waits in its batch until its marker is called stuck, may have two.  *)
OneRunAtATime == \A j \in Jobs : Cardinality(LiveRuns(j)) <= 1 \/ j \in disturbed

(* A marker on file stands for a run that will take it away, or for one     *)
(* that died with its process and that start() is about to clear: else the  *)
(* job would be skipped for STUCK_RUN_MS, or for ever if nobody asks.       *)
MarkerIsBacked ==
    \A j \in Jobs : disk[j].running # None =>
        Claims(j) # {} \/ batch["catchup"].stage = "clearing"

(* Whatever is edited, run by hand or repaired while a tick or the catch-up *)
(* is at work, a store with something to run never ends without a timer.    *)
SchedulerLives ==
    (/\ Loaded /\ batch["catchup"].stage = "idle"
     /\ \E j \in Jobs : mem[j].enabled /\ mem[j].next # None)
    => armed \/ batch["tick"].stage # "idle"

(* The results of a tick are applied when its slowest job has ended, those  *)
(* of manual runs in between: the result on file never gives way to that of *)
(* an earlier run, unless the job could have two runs.                      *)
ResultsAreKept ==
    [][\A j \in Jobs :
         (j \notin disturbed /\ disk[j].lastRun # None /\ disk'[j] # Absent)
         => disk'[j].lastRun # None /\ disk'[j].lastRun >= disk[j].lastRun]_vars

(* A slot that is due is not moved into the future without a run ("silently *)
(* skipped", #13992, #17852), by a tick, a manual run or a read.  Three     *)
(* operations do: an edit of the job itself, the addition of another job,   *)
(* and the end of start(), with what came due under the catch-up.           *)
SlotsAreRun ==
    [][\A j \in Jobs :
         (/\ disk[j].enabled /\ disk[j].next # None /\ disk[j].next <= now
          /\ disk'[j].enabled /\ disk'[j].next # None /\ disk'[j].next > now)
         => \/ \E f \in Claims(j) : batch'[f].work[j] = NoRun
            \/ FinishStart
            \/ \E k \in Jobs : Add(k) \/ Update(j, TRUE)]_vars

(* A one-shot job that has succeeded is not run again by the timer or the   *)
(* catch-up, after restarts or when it is enabled again, unless it is due   *)
(* later than the run that succeeded.                                       *)
OneShotOnce ==
    [][\A j \in Jobs, f \in {"tick", "catchup"} :
         (Kind[j] = "at" /\ batch[f].work[j] = NoRun /\ batch'[f].work[j] # NoRun)
         => disk[j].lastStatus # "ok" \/ disk[j].lastRun < At[j]]_vars
=============================================================================
