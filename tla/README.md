# TLA+ models of the Tau agent gateway

The repository is a personal-assistant gateway (`src/tau-agent-main`, TypeScript): one Node process that receives messages from chat channels,
runs agent turns, delivers replies, and keeps jobs, approvals and paired devices.
Most of its files wrap services or parse data. What is hard in it sits in a few
thousand lines that everything else relies on: queues, retries, restarts and
locks, whose bugs need several steps of several actors. This directory models
those lines.

Paths below are relative to `src/tau-agent-main/src`.

## 1. Inventory

The process is single-threaded: a turn of the event loop runs to its end, and
concurrency is the interleaving of async functions at their awaits. There is
real concurrency between processes where files are shared (the gateway lock,
session locks, the delivery queue across a crash).

| component | state | operations | hard behaviour | what makes it correct | module |
|---|---|---|---|---|---|
| Command queue, `process/command-queue.ts` | lanes: queue, active ids, limit, `draining`, generation; `gatewayDraining` | enqueue, drain/pump, completion, set limit, clear, mark draining, reset all | drain calls nest inside a task's synchronous prefix; completions of an old generation meet reset lanes | work-conserving, no leaked slot, no lost entry, first in first out, one turn per session | `CommandQueue` |
| Run loop, `cli/gateway-cli/run-loop.ts`, `process/restart-recovery.ts` | server, resolver, `shuttingDown`, gateway lock | start, SIGUSR1/SIGTERM, drain, close, hand over, restart in process, force exit | signals in any phase, deadlines, lock released and taken back | shutdown ends, serves only with the lock, accepts work again, queued work survives | `GatewayRunLoop` |
| Followup queue, `auto-reply/reply/queue/`, `utils/queue-helpers.ts` | per key: items, dropped count, settings, `draining`; a callback per key | enqueue with drop policies, drain (collect, individual, summary), clear, end of a run | the queue changes under the drain's awaits; objects are replaced in the map under a drain | nothing lost, at most once, in order, one target per turn, one drain, nothing stranded | `FollowupQueue` |
| Delivery queue, `infra/outbound/delivery-queue.ts`, `deliver.ts` | a file per delivery, `failed/`, attempts in flight | enqueue, send, ack, fail, move, load, recover | crash between any two file operations; recovery beside live deliveries | at least once but for two losses, write-ahead, retry limit, settles | `DeliveryQueue`, `Outbox` |
| Cron service, `cron/service/*` | jobs with `runningAtMs`, timer, store file | add, update, remove, run, tick, startup catch-up | results applied after an await to a store that has changed; crash with a running marker | a job runs once at a time and never sticks, no result is lost, no slot skipped, the timer lives | `CronService` |
| Session write lock, `agents/session-write-lock.ts` | lock file with pid and start time; per process `HELD_LOCKS` with a count | acquire, release, stale check, watchdog, signal handler, sweep at start | two processes that both find a lock stale; unlinks go by path; pids are reused | mutual exclusion and what breaks it, no lock judged stale, no dead file kept | `SessionWriteLock` |
| Runs of the embedded agent, `agents/pi-embedded-runner/*` | two entries of the command queue per run; a registry of active runs | run (session lane, then global lane), end, clear of a session; queue message, abort | a run holds a slot of its session's lane while it waits for one of a global lane, under restarts | no run waits for ever on others, one turn per session; a handle is cleared by its owner only | `AgentRuns` (the registry in `runs.ts` is not modelled) |
| Heartbeat wake, `infra/heartbeat-wake.ts` | pending wakes, timer, `running` | request, handler set and reset, batch | a handler replaced under a batch | one batch at a time, no wake lost | not modelled, see 6 |
| Exec approvals, `gateway/exec-approval-manager.ts` | pending records, timers, grace period | register, resolve, expire, consume | decision racing expiry | a decision is used once | not modelled, see 6 |
| Node registry, `gateway/node-registry.ts` | nodes by id, by connection, pending invokes | register, unregister, invoke, result, timeout | reconnect before the old connection is closed | the new session survives the old one's end | not modelled, see 6 |
| Keyed queues, channel manager, subagent registry, process supervisor, ACP sessions, locks of pairing stores, deduplication | see `PROJECT.json` | | | | left out, with the reason |
| Gateway server and protocol, agent turn, channel adapters, configuration, memory, media, terminal interface, apps | | | I/O, parsing, rendering | | not modelled |

How they interact: a channel hands a message to the reply code, which looks
whether the session has a run in flight and either queues the message
(followup queue) or enqueues a run in the session's lane of the command queue.
A run's end kicks the followup drain. Replies go out through the delivery queue.
Cron and heartbeats enqueue runs too. The run loop marks the lanes as draining,
waits for active tasks, closes the server, and either hands the process over or
resets the lanes and starts again; a started server runs the delivery recovery.

`PROJECT.json` lists each component, and under `hazards` each place where the
code is exposed to an order of events that a test would hardly reach, those of the
components without a module included.

## 2. Plan

The order was by how much of the system relies on a part, and by how far its bugs are
from a test's reach. Each module is written to be proved about as well as checked: constants
with assumptions, one action per operation, no recursive operators.

1. `CommandQueue`, then `GatewayRunLoop` composed on it; proofs of both.
2. `FollowupQueue`: one key, with identities for queue objects; proofs.
3. `DeliveryQueue`, refining `Outbox`; proofs.
4. `SessionWriteLock`: tasks of several processes, pid reuse, stale removal, watchdog, sweep;
   proofs of its exclusion and of the conditions it needs.
5. `CronService`: ticks, catch-up, manual runs, edits and crashes over one store; proofs.
6. `AgentRuns` over `GatewayRunLoop`: the nested lanes of a run, with restarts; proofs.

What would come next, were the suite of runs to grow: heartbeat wakes, exec approvals, the node
registry, the channel manager and the registry of active runs, each a module of its own with one run.

## 3. The modules and the code

### CommandQueue
The variables are the fields of `LaneState` and the module's globals. `nextTaskId`
is fresh at each start and an entry starts once, so an entry stands for its task
id. A turn of the event loop is not one step, because `pump` calls `entry.task()`,
whose synchronous prefix may enqueue and so call `drainLane` again: `stack` holds the
frames that have not returned, and an operation that begins a turn requires it to
be empty (`NewTurn`). `CompleteTask` is the completion handler; `taskGeneration` is
the generation its closure captured. Wait-time warnings are left out. A limit of NaN is
not in the inputs (the configuration's schema has a positive integer).

### GatewayRunLoop
Extends `CommandQueue`. The loop and `request` are two async functions; a step is the code
between two of their awaits, and a step of theirs happens only between turns of the lanes.
`server` and `restartResolver` hold the round they belong to, so that a stale one is
visible. Start, close, and the lock are external: they succeed, fail or hang. A close that
throws may leave the server listening (`ServerCloses`). The drain is its snapshot and its last poll
(`DrainEnds`).

### AgentRuns
Extends `GatewayRunLoop` and says which clients the lanes have. A run is an entry of `Runs` in its
session's lane and the entry `TurnOf` of its turn in a global lane. The task of the first
enqueues the second in its synchronous prefix (`EnqueueTurn`, a frame deeper on the same stack) and settles
when the turn's promise does. That settling is a promise callback, so it comes before the next callback
of the event loop: `Idle`, the moment between two of those, has no such callback left. Neither task
throws synchronously: the session's returns the promise of `enqueueCommandInLane`, which rejects but does not
throw, and the turn's is an async function. Only session lanes are cleared (`cleanup.ts`, `/stop`). What a
turn does, and how long, is left out: it ends with a result or an error, or hangs.

### FollowupQueue
One key; keys share nothing. `current` is what the map holds, `queue` the objects, `drain`
what the coroutine started on an object has captured. `stage` carries a message from
its arrival through its look at `isActive` (`held`) to its enqueue. `accepted`, `answered`,
`excused` and `cleared` are history. A turn (`runFollowup`) completes or throws; the
items of a batch leave by position when it completes, as in the code. Messages may be enqueued
inside the awaited collect step; `late` of a drain is history and holds those, so that
`TurnsShareTarget` can say which messages may share a turn with another conversation and that no
others do. Two constants choose among behaviours that are all possible in the code: `StaleChecks`
(a run may end between a message's check and its enqueue) and `MayClear`. Settings come with each
message, so the cap of a queue may fall below its length: `CapHolds` is about the cap the queue
has by then, and about what may make a queue longer. Debounce times and wording are left out.

### DeliveryQueue and Outbox
`disk[d]` is the retry count in the entry's file, or `NoFile`. An attempt is the state of one call
of `deliverOutboundPayloads`, live or the recovery's; each of its awaits is a step, and
each file operation may fail. `Crash` ends all attempts and keeps the files. The gateway
starts `recoverPendingDeliveries` in `gateway/server.impl.ts:758` each time its server starts; an
in-process restart comes once the recovery of the previous round is through, so two recoveries in
one process are not modelled. `pending` holds the entries the recovery has loaded and not looked at, by their
place in its order, with the retry count it read then: the file may have changed since. `Outbox`
is what a user of the queue may rely on; `KeepsPromise` says that `DeliveryQueue`
implements it under the mapping of `Outcome`. A payload whose failure `bestEffort`
passed over with no `onError` to tell counts as handed over there: what that costs
is the question of `swallowed_failure`. The wrapper acknowledges an entry on any error named
AbortError: that of the caller's signal (`Abort`) and that of a request of the channel that took too
long (`ChannelAborts`, `utils/fetch-timeout.ts`), which is a loss; `cutShort` records it, and `Outbox`
has it as an outcome of its own.

### SessionWriteLock
The lock file of one session; files of different sessions share nothing. `file` is what the
path names: who created the file (`maker`, which the code does not know and only properties ask),
the pid and the start time written in it, and whether it has outlived `staleMs`. `stage` is
where a task stands in `acquireSessionWriteLock` or in a release. Each await is a step of its own:
the creation of the file (`Open`), the write of the payload (`Write`), the entry in `HELD_LOCKS`
(`Finish`); the read of a file that exists (`Refused`, which may find nothing to read), the judgement
of what was read (`Judge`, against the processes and locks of that moment: `seen` is what was
read), the `stat` of a file that names nobody (`Stat`, `StatFails`), the unlink of whatever is there by
then (`UnlinkFile`). The sweep of a gateway has the same steps (`SweepReads`, `SweepJudges`,
`SweepUnlinks`) and no look at the age of a file it read nothing of; it may begin whenever the
gateway lives, since an in-process restart runs it again. Only gateways come back after a crash.
`held` is the process's `HELD_LOCKS`, with the count; a task whose lock was taken by the
watchdog or a signal handler stays in its section as `evicted`. `started` is the process table,
`startTimes` whether the platform tells start times (`getProcessStartTime` does on Linux only; elsewhere
every process that lives has 0 in `started`).
`harm` is history: "swept" once a sweep has condemned a file of which it read nothing (just created, or
unlinked since it was listed), "usurped" once an unlink has taken the file of a lock in force. Time is abstract: `Age` and
`OverlongHold` make a file too old. A wait may be given up at any time after its first attempt,
which stands for `timeoutMs`. The processes are those of one user, so that
`isPidAlive` tells the truth: it takes a pid that may not be signalled for a dead one
(`shared/pid-alive.ts:28-32`). A failing read is like an unreadable file; the unlinks of the watchdog, of
the signal handler and of the sweep are taken to succeed.

### CronService
`disk` is `jobs.json`, `mem` the service's `state.store`. `locked()` runs one operation at a time
on the store, so each locked section is one action; what a job executes happens between
sections. The three flows that run jobs are the catch-up of `start()`, the tick, and a manual
run; `batch[f]` is what the flow has taken and how far each job of it is. A tick collects,
marks, executes and applies all results together (`CollectDue`, `StartJob`, `EndJob`,
`SettleBatch`); a manual run reserves and merges (`ManualRun`, `SettleManual`). `attached` says
whether the objects a tick holds are still those of the store, since `runDueJob` writes its marker
to the object (`StartJob`). One unit of time is the longest delay of the timer. A cron expression
is a slot every `Period`, `ComputeNext` follows `computeJobNextRunAtMs` branch by branch.
`disturbed` is history: the jobs whose marker may have been taken under a run (`Excuse`).

### MC modules and mutants
`MC*` give the constants their values. In a module, an operator whose comment begins
"Mutant" is a plausible bug of the definition after it; `PROJECT.json` pairs each with the
property that notices it. It is in no next-state relation.

## 4. What the runs check

| run | instance | shows |
|---|---|---|
| `command_queue_safety` | 4 entries, 2 lanes with limits 0..2 configured, 1 reset | `WorkConserving`, `SlotsMatchRunning`, `PendingIsHeld`, `FirstInFirstOut` hold for every nesting of drain calls |
| `run_loop_safety` | 3 entries, a session lane and a main lane, 2 restarts, signals in any phase | `OneRunPerSessionPerRound`, `DrainedMeansSettled`, `ServingHoldsLock` |
| `run_loop_live` (module `MCAgentRuns`) | 3 agent runs, two of one session; the turn of the first may hang for ever; one slot of the main lane; 1 restart | `ShutdownEnds`, `AcceptsWorkAgain`, `RunsEnd`, `OneTurnPerSession` |
| `signal_during_start` | as `run_loop_safety` | finding: `ServingAcceptsWork` is violated |
| `followup_steady` | 4 messages, one a redelivery, 3 kinds of targets, both modes, caps 1 and 2, policy "new" | `NothingLost`, `IdleMeansEmpty`, `OneDrain`, `QueuedIsSettled` |
| `followup_disturbed` | 4 messages, 3 queue objects, clears and stale checks, policies "old" and "summarize" | `CapHolds`, `AnsweredInOrder`, `AnsweredOnce`, `TurnsShareTarget` |
| `overflow_in_flight` | 4 messages of one conversation, cap 1, "summarize", collect mode | finding: `NothingLost` is violated |
| `delivery_queue` | 2 deliveries of 2 payloads, one bestEffort, 2 retries | `WriteAhead`, `KeepsPromise`, the retry limit (in `TypeOK`) |
| `delivery_live` | 1 delivery, 3 retries, recovery overlapping the live attempt | `NeverLost`, `EveryEntrySettles` |
| `swallowed_failure` | 1 bestEffort delivery | finding: `AckedMeansSent` is violated |
| `session_write_lock` | 2 tasks of a gateway and 1 of a command line process, 2 pids, 1 fault, start times known and not, sweeps at any moment | `HolderCount`, `Exclusion`, `NotUsurped`, `CondemnsNoLock`, `DeadFileGoes` |
| `cron_service` | a one-shot and a cron job, or a repeating one; 2 calls or crashes; times 1..3 with slots every 2 | `OneRunAtATime`, `MarkerIsBacked`, `SchedulerLives`, `ResultsAreKept`, `SlotsAreRun`, `OneShotOnce` |

### Bounds and why they are enough
- `Entries`, `Messages`, `Deliveries`: three entries of one lane make one running, one
  waiting and one overtaking; the fourth is nested in another lane. A message that starts
  the run, two queued behind it (a full queue of cap 2 and an overflow of cap 1), and
  a redelivery or a third. Deliveries share nothing but the recovery loop: two suffice to
  have one loaded while another is live.
- `MaxGeneration`, `MaxRestarts`: a completion is compared with its generation for
  equality, so one reset shows an old completion; a second shows a stale resolver.
- `Runs`: two runs of a session wait for each other in its lane, the third makes two sessions wait for each other in
  the global one. In `run_loop_live` no limit is configured, so that the main lane has one slot and the turns do
  contend for it, and the restart's signal comes to a gateway that serves. `OneTurnPerSession` is proved
  for any limits and restarts in any phase.
- `MaxRetries` 2 and 3 in place of 5: never tried, tried, given up.
- `Objects` bounds how often the map's object is replaced while drains hold old ones. When none is
  free the enqueue waits, which removes behaviours and adds none.
- Lock: two tasks in one process make reentrancy, an evicted holder beside a new one, and an attempt
  that meets its own process's file; the third is the other process. One fault (a crash with its pid
  given away, a failing write or unlink, a hold beyond `staleMs`) is enough for a dead file, a fresh file
  without an owner and an orphan; two decisions taken from one file come without any.
- Cron: two calls or crashes at any moment of a tick and a catch-up make an edit, a forced run and a
  second edit, or a crash between a marker and a result. `MaxNow` 3 with `Period` 2 has a slot before, at and
  after a run; a limit of 1 on attempts has a retry and a giving up; `StuckAfter` 1 a marker
  called stuck under a waiting job. Two jobs make one tick's results wait for the other job.
- Symmetry is used in safety runs only, over sets whose members no constant distinguishes.
- Deadlock is checked in `command_queue_safety` and the delivery runs. The run loop ends with its
  process, and the followup queue when every message has been settled: there it is off.

### Fairness
- Agent runs and run loop (`AgentRunsFairness`): the synchronous part of a turn of the event loop and its
  promise callbacks go on; the loop's and the handler's steps are callbacks the event loop gets to,
  however much the lanes do in between (strong fairness, since a step waits for a moment between
  such turns). The force-exit timer and the drain deadline are among them. A turn of an agent ends,
  since its timeout aborts it, unless it is among those named as hanging; no signal has to come and nobody
  has to start a run.
- Followup queue (`Fairness`): debounce timers fire, runs end, a message that passed its check is
  enqueued, and a turn does not throw for ever (strong fairness of `RunCompletes`): the
  code retries without limit, so a turn that always throws is never answered.
- Delivery queue (`Fairness`): awaited calls settle; the gateway is started again and again, because
  recovery runs only at startup; from some time on it does not crash; an entry is not always behind
  the time budget or inside its backoff; and the file system does not fail for ever.

- Session write lock: of the tasks that await something one goes on (`GoesOn`), of the unlinks under way (of
  tasks, of watchdogs, of sweeps) one is made or fails, and a file ages. The event loops of the processes do
  more: they serve each task and each process. No task has to come, release or give up, and no sweep has to
  begin. Each subscript is one variable that the action always changes, which means the same as `vars` and
  is faster to check.
- Cron service: none; its properties are safety properties. `SchedulerLives` is the safety half of "a due
  job is run": a store with something to run has a timer or a tick.

### Disagreements between the code and its documents
1. `signal_during_start` (`cli/gateway-cli/run-loop.ts:86`). A SIGUSR1 handled while `params.start()` is pending
   marks the lanes as draining, finds no server to close and no promise to resolve; start
   then finishes and the gateway serves with every lane refusing work.
2. `overflow_in_flight` (`auto-reply/reply/queue/drain.ts:125`). The batch of a turn in flight stays in the queue and
   is removed by position. An overflow meanwhile drops the batch itself, and the turn's end then
   removes messages that never ran and that no summary mentions.
3. `swallowed_failure` (`infra/outbound/delivery-queue.ts:341`). The recovery passes `bestEffort` but no `onError`: a payload that
   fails is dropped and the entry is acknowledged.

Further behaviours met while modelling, recorded with the hazards and excluded from
a run by a named constant, so that the rest of its question can be asked:
- After a clear, the old drain's `finally` deletes the key of the new object with
  the messages queued in it (`MayClear`; `OneDrain` and `NothingLost` are checked without).
- A stale `isActive` lets a message be queued when nothing will drain it
  (`StaleChecks`; `IdleMeansEmpty` is checked without).
- An enqueue inside the awaited collect step makes a batch of mixed targets. The runs have it; `TurnsShareTarget`
  holds for all but the messages enqueued there (`late`).
- The settings of a message may lower the cap of a queue below its length; policy "new" then leaves it longer than
  its cap until turns shorten it (`CapHolds` says what the other policies make of it).
- In a mode other than collect, the summary turn takes the oldest item's place; with cap 1 an overflow
  under a turn leaves a dropped count that is never told, and the drain spins
  (`QueuedIsSettled` and `NothingLost` are checked with the policy "new").
- The recovery loads entries whose live delivery is in progress and sends them twice; a `failDelivery` may
  bring back a file another attempt has acknowledged (`LoadSeesLive`; `WriteAhead` and
  `KeepsPromise` are checked without, `NeverLost` and `EveryEntrySettles` with it).
- A request of a channel that times out ends with an AbortError of its own (`utils/fetch-timeout.ts:22-31`, in
  use by `signal/client.ts:83`), which `infra/outbound/deliver.ts:512` takes for the caller's abort: the entry is
  acknowledged with nothing sent and nothing tried again (`cutShort`, which `NeverLost`, `AckedMeansSent` and
  `Outbox` name; no constant excludes it).
- A starting gateway's sweep does not ask for the age of a file with no owner in it, though contending tasks
  do ("does not reclaim fresh malformed lock files during contention", a test of the lock): a file that
  a command line process has just created is removed under it. A file that is unlinked between the
  sweep's listing and its read counts as stale too, and the unlink that follows takes whatever was created there since
  (`harm = "swept"`).
- A lock is in `HELD_LOCKS` only after its payload has been written. A task of the same process that reads and judges
  the file between the two takes it for an orphan, where start times are unknown (`Unheard` in `CondemnsNoLock`).
- An unlink goes by the path. Two tasks that both condemned a dead file may remove the next holder's; and where
  start times are unknown a task takes the file its own process is about to remove for an orphan
  (`harm = "usurped"`, and the conditions in `NotUsurped`).
- SIGTERM frees all session locks of the gateway at once, while the runs that hold them go on until
  the process ends (`ReleaseAll`; those runs count as evicted in `Exclusion`).
- A one-shot job interrupted by a crash is left out by the catch-up
  ("does not replay interrupted one-shot jobs on startup", `cron/service.restart-catchup.test.ts:183`), and the
  first tick, 2 s later, runs it.
- `recomputeNextRuns` at the end of `start()` (`cron/service/ops.ts:115`) and in `add` (`:240`) moves due slots into
  the future unrun, which the comment at `cron/service/timer.ts:903` warns of; `SlotsAreRun` excepts the two.
- A job that is disabled under its run, a disabled job that is forced twice, and a job whose marker is called
  stuck while it waits in a long batch may have two runs (`disturbed`).
- After a drain that meets its deadline, an old turn of a session and a new one overlap: hence
  "per round" in `OneRunPerSessionPerRound`. So may the turn of an old run that was still queued in the
  global lane at the restart: `OneTurnPerSession` speaks of the runs started in one life of the server.
- While the lanes drain for a restart, a completion still pumps its session's lane. The run it starts has
  its turn refused (`process/command-queue.ts:169`) and ends with an error, although the comment at `:236` says
  of queued entries that they "represent pending user work that should still execute after restart"
  (`RunsEnd` asks that a run ends, not that its turn ran).

## 5. What is proved

All proofs are for every value of the constants, under the named assumptions of the
modules (finite `Entries`, `LaneOf` a function into `Lanes`, naturals for bounds, `Recovery` not a
delivery, and so on). TLC evaluates those assumptions in the runs.

| module | theorem | states |
|---|---|---|
| `CommandQueueProofs` | `TypeCorrect` | `Spec => []TypeOK` |
| | `LanesConserveWork` | `Spec => []WorkConserving` |
| | `SlotsNeverLeak` | `Spec => []SlotsMatchRunning` |
| | `EntriesNeverLost` | `Spec => []PendingIsHeld` |
| | `SingleSlotLanes` | a lane nobody configures runs one task of its generation |
| | `LanesAreFair` | `Spec => []FirstInFirstOut` |
| `GatewayRunLoopProofs` | `RunLoopImplementsQueue` | `RunLoopSpec => Spec` |
| | `GatewayNeverLosesEntries`, `GatewayNeverLeaksSlots`, `GatewayConservesWork` | the queue's theorems, restarts included |
| | `GatewaySerializesSessions` | `RunLoopSpec => []OneRunPerSessionPerRound` |
| | `GatewayServesWithLock` | `RunLoopSpec => []ServingHoldsLock` |
| | `DrainIsHonest` | `RunLoopSpec => []DrainedMeansSettled` |
| | `RunLoopTypes` | `RunLoopSpec => []RunLoopTypeOK` |
| `AgentRunsProofs` | `AgentRunsImplementRunLoop` | `AgentRunsSpec => RunLoopSpec` |
| | `SessionsHaveOneTurn` | `AgentRunsSpec => []OneTurnPerSession` |
| `FollowupQueueProofs` | `FollowupTyped` | `Spec => []TypeOK` |
| | `FollowupCapHolds` | `Spec => CapHolds` |
| | `FollowupAnswersOnce` | `Spec => []AnsweredOnce` |
| | `FollowupAnswersInOrder` | `Spec => []AnsweredInOrder` |
| | `FollowupTurnsShareTarget` | `Spec => []TurnsShareTarget` |
| | `FollowupOneDrainUntilCleared` | `Spec => [](~cleared => OneDrain)` |
| | `FollowupIdleUntilCleared` | `~StaleChecks`: `Spec => [](~cleared => IdleMeansEmpty)` |
| | `FollowupKeptUntilCleared` | policy "new" only: `Spec => [](~cleared => NothingLost)` |
| | `FollowupOneDrain`, `FollowupIdleMeansEmpty`, `FollowupNothingLost` | the three for ever, with `~MayClear` |
| `DeliveryQueueProofs` | `DeliveryNeverLost` | `Spec => []NeverLost`, overlapping recovery included; the two losses are named in `NeverLost` |
| `DeliveryPromiseProofs` | `RetriesAreBounded` | `Spec => []TypeOK`, the retry limit included |
| | `SendsAreWrittenAhead` | `~LoadSeesLive`: `Spec => []WriteAhead` |
| | `QueueKeepsPromise` | `~LoadSeesLive`: `Spec => KeepsPromise`, the refinement of `Outbox` |
| `SessionWriteLockProofs` | `LockTypes` | `Spec => []TypeOK` |
| | `CountsAreRight` | `Spec => []HolderCount`, with the types |
| | `LockExcludes` | `Spec => []Exclusion` |
| | `NoLockIsCondemned` | `Spec => CondemnsNoLock` |
| | `NoUsurpation` | `Spec => NotUsurped` |
| | `OneProcessAtATime` | while start times are known, nothing fails and no sweep condemns a file unread, tasks in their sections are of one process |
| `CronServiceProofs` | `CronTypes` | `Spec => [](TypeOK /\ Boot)` |
| | `MarkersAreBacked` | `Spec => []MarkerIsBacked` |
| | `NoJobRunsTwice` | `Spec => []OneRunAtATime` |
| | `TimerIsArmed` | `Spec => []SchedulerLives` |
| | `NoResultIsLost` | `Spec => ResultsAreKept` |
| | `SuccessIsFinal` | `Spec => OneShotOnce` |
| | `NoSlotIsSkipped` | `Spec => SlotsAreRun` |

The arguments:
- `WorkConserving` speaks of the moments between turns only; during a turn a lane may have work
  and a free slot. The inductive invariant `StackInv` says what the call stack owes: a lane with both
  has a frame on the stack, or is among the lanes a reset still has to drain; `draining` is true
  of a lane only while a frame past its call is there, so the early return of a nested
  `drainLane` strands nothing.
- `SlotsMatchRunning` and `PendingIsHeld` need each other's facts and are parts of `EntryInv`, with
  `GenerationsPast` (no running task started in a generation still to come, so a reset's new
  generation has none) and `BodiesRun` (a task whose synchronous prefix is on the stack runs, in the
  lane of its frame, and is there once, so that one that throws frees its own slot).
- `SingleSlot`: the limit of an unconfigured lane is 1 and its active set has one element at most. With
  `SlotsMatchRunning` it gives the theorem about running turns.
- `LanesAreFair`: a queue is sorted by the time of enqueueing (`Sorted`), and no admitted entry has a time beyond
  the number of admitted ones (`ClockBound`), so that a new entry is the youngest wherever it is appended.
- `RunLoopImplementsQueue` is a step simulation: a step of loop or handler leaves the lanes alone, marks
  them or resets them. The queue's invariants carry over by implication.
- `LockInv` adds to `ServingHoldsLock` what the handler has at each of its awaits and that the loop waits
  for the promise of its own round.
- `DrainInv`: the tasks of the snapshot have started, and an entry starts once; while the drain lasts no reset frees
  their slots, so those that run are among the active ids the poll looks at. `RoundsInv` bounds the rounds by what the restarts so far allow, which the
  types of server and resolver need.
- `SessionsHaveOneTurn`: the promise of a turn is pending only while its run's task runs (`RunsWait`), and running tasks of
  one generation hold distinct slots of their lane, of which a session's has one.
- `DeliveryInv`: the unlink of `ackDelivery` looks at nothing; `AttemptInv` carries from the end
  of the send to the unlink the fact that every payload was dealt with. `Keeps` and `FilesKept` state what
  each action does for the deliveries it is not about, once for all actions.
- `RetriesAreBounded`: the limit is of a file that two attempts may write, so no bound on the file alone is
  inductive. `BookInv` says who may have an entry in hand (an entry is enqueued once; the recovery has taken what it
  is at out of `pending`). `RetryInv` bounds the file, what an attempt is about to write and what `pending` remembers
  by each other, with one retry to spare for the live attempt as long as it has not settled. The steps of an attempt
  are classified once (`Moves`, `StageMove`), and each invariant is proved against the classes.
- `SendsAreWrittenAhead` and `QueueKeepsPromise` need that the recovery loads no entry in progress (`~LoadSeesLive`):
  then a file has one writer at a time (`OwnInv`), the live attempt until it settles and the recovery
  afterwards, what `pending` remembers is what the file has, and no attempt acknowledges an entry put aside.
  The refinement is a step simulation: a step is seen in `Outbox` as a payload handed over, an entry accepted or
  an entry settled, and every other step, a crash and a restart included, is a stutter.
- `FollowupQueue`: the steps of a drain fall into the classes `Parks`, `Collects`, `Begins` and `Completes`, an
  enqueue into `Rejects` and `Admits`, and most of them are `Calm` for the books. `Books` says that a message is in
  one queue or turn at a time and not answered before it has left, and, object by object (`Own`), that the items of
  the turn in flight are at the front of its queue. The last is what makes the removal by position safe for
  `AnsweredOnce`, even where an overflow has dropped the batch itself: what is left of it is still in front.
  `InMap` (until a clear, only the object in the map is in use) gives `OneDrain`, and `Ordered`
  (queues, turns and answers follow the order of acceptance) gives `AnsweredInOrder`; `Attended` (what waits has a
  drain, or a run whose end starts one) gives `IdleMeansEmpty`. `Kept` says that a turn's batch is exactly the
  front of its queue, which holds only while no policy drops old messages.
  The hypotheses of the theorems are those of the runs, and each is needed: the list in 4 says how
  the property fails without it. Clears need no hypothesis where a property is claimed until the first of them.

- `SessionWriteLock`: `FileOfLock` says that, until a usurpation, the file on disk is that of the lock in force, so
  two locks in force would need two files at one path. `FileTells` says what the file of a lock in force shows
  to whoever judges it: its own pid and start time, which is why nobody condemns it who has read what is there
  (`NotCondemned`; `CondemnsNoLock` names the exceptions). `Calm` is the invariant of a
  world without faults, with start times and without a sweep that condemned a file unread: what anybody has read and
  not yet judged names a live process (`SoundReads`), so nobody condemns a file at all, and at most one unlink is under
  way, that of a release or of the watchdog, for a file that is no longer in force. `NoUsurpation` says that a step
  out of such a state usurps no lock.
- `CronService`: the invariant is about one job (`JobInv`): its copies in memory and on file differ in marker and
  next time only, a marker has a claim of some flow, and while nothing has come between a job and its run
  (`Alone`) there is one claim, its marker stands, and no result is newer than the run. What a step may do to a
  job falls into five classes (`Left`, `MarkedFor`, `SettledFor`, `Edited`, `Rebooted`): the invariant is kept by
  each class, and each action is put into classes job by job. The repairs, which every operation makes to
  the whole store, are one relation (`Repaired`) that the lemmas on `Recompute` and `Maintain` establish.

- `NoSlotIsSkipped`: the repairs compute a slot anew when it is missing or was executed, that is when the last run is
  not before it. The invariant says that this never hits a slot that is still to run: a job's next time
  is after its last run (`Timely`), or is the time of a one-shot job, which a repair computes to the
  same; an enabled job has the same time in memory as on file (`SlotInv`); and runs end after they began
  (`RunsInOrder`), so that the time after a run is after its beginning. A forced run keeps the schedule's anchor
  and may leave a time before its own beginning: the repair in the same section (`SettleManual`) removes that,
  which is why the step and not its parts keeps `Timely`.

Every safety property of the passing runs, invariant or action property, is the statement of a theorem. Only
model-checked are the liveness properties (`ShutdownEnds`, `AcceptsWorkAgain`, `RunsEnd`, `QueuedIsSettled`,
`EveryEntrySettles`, `DeadFileGoes`): the provers installed cannot reason about fairness and ENABLED. What no
theorem says and only a run shows, because it is false in general, are the three disagreements of section 4.

## 6. What is not modelled and why

- The registry of active runs (abort, steering), the heartbeat wake and runner, exec approvals, the node
  registry, the channel manager, the subagent registry, keyed queues, the process supervisor, ACP sessions: each
  keeps state of the kind modelled here and would be a module of its own. They are left out for now, in
  favour of proofs about the parts that everything else relies on; the hazards met in them are listed.
- In the cron service: the second service of a configuration reload
  (`gateway/server-reload-handlers.ts:74-83`), edits of `jobs.json` by other programs, writes that fail, a
  rejected update that leaves part of its patch in memory (`cron/service/jobs.ts:561-636`), alerts, wakes and
  session reaping.
- In the delivery queue: two recoveries in one process; the adapters.
- Channel adapters, the gateway server's wiring and protocol,
configuration, memory, media and the terminal interface (I/O, parsing and rendering, whose
properties are those of their data); the agent turn itself (an external step that completes or throws);
pairing stores (each operation atomic under its lock); apps, extensions and sample code
(outside the process). Wording, logging, times of day and delays are left out everywhere: a timer is a step
that may happen at any time.
