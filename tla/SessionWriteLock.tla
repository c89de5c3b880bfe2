-------------------------- MODULE SessionWriteLock --------------------------
(* The lock file of one session (src/agents/session-write-lock.ts) between  *)
(* the tasks of several processes: exclusive creation, the reclaiming of    *)
(* files that look stale, reentrancy and the watchdog inside a process, the *)
(* sweep of a starting gateway.                                             *)
(*                                                                          *)
(* A step ends at an await: each operation on the file takes effect at a    *)
(* moment of its own, after the decision to make it and before its result   *)
(* is looked at.  Time is abstract: a wait may be given up and a lock       *)
(* called held for too long at any moment, and a file without a holder may  *)
(* become too old.  The processes are those of one user: a signal tells     *)
(* them which of the others are alive.                                      *)
EXTENDS Naturals, FiniteSets

CONSTANTS
    Tasks,
    Procs,
    ProcOf,         \* Tasks -> Procs
    Gateways,       \* the processes that are started again, and sweep when they start
    Pids,
    FirstPid,       \* Procs -> Pids
    None,
    MaxFaults       \* bound: crashes, failing writes and unlinks, holds beyond staleMs

Files == [maker : Tasks, pid : Pids \union {None}, start : Nat \union {None}, old : BOOLEAN]
Payloads == [pid : Pids, start : Nat \union {None}]

ASSUME LockAssumption ==
    /\ IsFiniteSet(Tasks)
    /\ ProcOf \in [Tasks -> Procs]
    /\ Gateways \subseteq Procs /\ Tasks \intersect Procs = {}
    /\ FirstPid \in [Procs -> Pids] /\ \A p, q \in Procs : p # q => FirstPid[p] # FirstPid[q]
    /\ None \notin Pids \union Nat \union [maker : Tasks, count : Nat] \union Files \union Payloads
    /\ MaxFaults \in Nat

VARIABLES
    startTimes,     \* whether the platform tells them
    started,        \* the start time of the process that has a pid, or 0 if nobody
                    \* can tell it, and None if no process has it
    pid,            \* of each process, None while it is down
    file,           \* the lock file
    stage,          \* where each task is in acquire or release
    seen,           \* the payload that a task, and the sweep of a process, has
                    \* read and not yet judged, or None
    held,           \* HELD_LOCKS of each process: maker and count, or None
    watchdog,       \* the watchdog has taken a lock and is about to unlink the file
    sweep,          \* cleanStaleLockFiles of each process
    faults,
    harm            \* history: "swept" when a sweep has condemned a file of which
                    \* it read nothing, "usurped" when an unlink has taken the
                    \* file of a lock in force, "none" before

processes == <<started, pid, startTimes>>
vars == <<processes, file, stage, seen, held, watchdog, sweep, faults, harm>>

StartTime(p) == IF startTimes THEN started[pid[p]] ELSE None
NewFile(t) == [maker |-> t, pid |-> None, start |-> None, old |-> FALSE]
Written == file # None /\ file.pid # None

(* What readLockPayload finds in it, None before anybody has written it.    *)
Payload == IF Written THEN [pid |-> file.pid, start |-> file.start] ELSE None

(* A lock is in force from the creation of its file until HELD_LOCKS lets   *)
(* it go.                                                                   *)
InForce(t) ==
    \/ stage[t] \in {"writing", "written"}
    \/ held[ProcOf[t]] # None /\ held[ProcOf[t]].maker = t
Backed == file # None /\ InForce(file.maker)

Init ==
    /\ startTimes \in BOOLEAN
    /\ pid = FirstPid
    /\ started = [n \in Pids |-> IF \E p \in Procs : FirstPid[p] = n THEN 0 ELSE None]
    /\ file = None
    /\ stage = [t \in Tasks |-> "idle"]
    /\ seen = [x \in Tasks \union Procs |-> None]
    /\ held = [p \in Procs |-> None]
    /\ watchdog = [p \in Procs |-> FALSE]
    /\ sweep = [p \in Procs |-> "idle"]
    /\ faults = 0 /\ harm = "none"

-----------------------------------------------------------------------------
(* inspectLockPayload, and shouldTreatAsOrphanSelfLock in process p: what   *)
(* was read of a file that is not too old is held against the processes and *)
(* the locks of now                                                         *)

Stale(read) ==
    \/ started[read.pid] = None
    \/ read.start # None /\ started[read.pid] # read.start

(* Mutant: HELD_LOCKS is not asked. *)
OrphanUnasked(p, read) == read.pid = pid[p] /\ read.start = None
Orphan(p, read) == read.pid = pid[p] /\ read.start = None /\ held[p] = None

-----------------------------------------------------------------------------
(* acquireSessionWriteLock *)

To(t, where) == stage' = [stage EXCEPT ![t] = where]

(* The task of a process that holds the lock is let in.                     *)
Reenter(t) ==
    LET p == ProcOf[t]
    IN  /\ stage[t] = "idle" /\ held[p] # None
        /\ held' = [held EXCEPT ![p].count = @ + 1]
        /\ To(t, "in")
        /\ UNCHANGED <<processes, seen, file, watchdog, sweep, faults, harm>>

(* Otherwise it tries at once: even if the process has taken the lock by    *)
(* then, or the caller has asked not to be let in.                          *)
Tries(t) == stage[t] = "waiting" \/ (stage[t] = "idle" /\ pid[ProcOf[t]] # None)

Open(t) ==
    /\ Tries(t) /\ file = None
    /\ file' = NewFile(t)
    /\ To(t, "writing")
    /\ UNCHANGED <<processes, seen, held, watchdog, sweep, faults, harm>>

GiveUp(t) ==
    /\ stage[t] = "waiting"
    /\ To(t, "idle")
    /\ UNCHANGED <<processes, seen, file, held, watchdog, sweep, faults, harm>>

(* Those who hold a lock that HELD_LOCKS forgets stay in their section.     *)
Forgotten(p) == [t \in Tasks |-> IF ProcOf[t] = p /\ stage[t] = "in" THEN "evicted" ELSE stage[t]]

(* The write goes to the file that was opened, whether it is still there.   *)
Write(t) ==
    LET p == ProcOf[t]
    IN  /\ stage[t] = "writing"
        /\ file' = IF file # None /\ file.maker = t
                   THEN [file EXCEPT !.pid = pid[p], !.start = StartTime(p)] ELSE file
        /\ To(t, "written")
        /\ UNCHANGED <<processes, seen, held, watchdog, sweep, faults, harm>>

(* Mutant: the count starts at 0. *)
FinishUncounted(t) ==
    LET p == ProcOf[t]
    IN  /\ stage[t] = "written"
        /\ held' = [held EXCEPT ![p] = [maker |-> t, count |-> 0]]
        /\ stage' = [Forgotten(p) EXCEPT ![t] = "in"]
        /\ UNCHANGED <<processes, seen, file, watchdog, sweep, faults, harm>>

(* HELD_LOCKS hears of the lock when the write has been awaited.            *)
Finish(t) ==
    LET p == ProcOf[t]
    IN  /\ stage[t] = "written"
        /\ held' = [held EXCEPT ![p] = [maker |-> t, count |-> 1]]
        /\ stage' = [Forgotten(p) EXCEPT ![t] = "in"]
        /\ UNCHANGED <<processes, seen, file, watchdog, sweep, faults, harm>>

(* What an attempt that fails has created is unlinked, and the error thrown. *)
WriteFails(t) ==
    /\ stage[t] = "writing"
    /\ faults < MaxFaults /\ faults' = faults + 1
    /\ To(t, "releasing")
    /\ UNCHANGED <<processes, seen, file, held, watchdog, sweep, harm>>

(* The file exists, and is read: its age decides, and who wrote it.  There  *)
(* may be nothing to read: not yet, no more, or for an error.               *)
Refused(t) ==
    /\ Tries(t) /\ file # None
    /\ \/ To(t, "stating") /\ UNCHANGED seen
       \/ Written /\ file.old /\ To(t, "removing") /\ UNCHANGED seen
       \/ Written /\ ~file.old /\ To(t, "judging") /\ seen' = [seen EXCEPT ![t] = Payload]
    /\ UNCHANGED <<processes, file, held, watchdog, sweep, faults, harm>>

Judge(t) ==
    /\ stage[t] = "judging"
    /\ To(t, IF Stale(seen[t]) \/ Orphan(ProcOf[t], seen[t]) THEN "removing" ELSE "waiting")
    /\ seen' = [seen EXCEPT ![t] = None]
    /\ UNCHANGED <<processes, file, held, watchdog, sweep, faults, harm>>

(* Mutant: a file without an owner is stale, however young. *)
StatHastily(t) ==
    /\ stage[t] = "stating"
    /\ To(t, IF file # None THEN "removing" ELSE "waiting")
    /\ UNCHANGED <<processes, seen, file, held, watchdog, sweep, faults, harm>>

(* Mutant: a file without an owner is never stale. *)
StatNever(t) ==
    /\ stage[t] = "stating"
    /\ To(t, "waiting")
    /\ UNCHANGED <<processes, seen, file, held, watchdog, sweep, faults, harm>>

Stat(t) ==
    /\ stage[t] = "stating"
    /\ To(t, IF file # None /\ file.old THEN "removing" ELSE "waiting")
    /\ UNCHANGED <<processes, seen, file, held, watchdog, sweep, faults, harm>>

(* An error other than ENOENT condemns the file.                            *)
StatFails(t) ==
    /\ stage[t] = "stating"
    /\ faults < MaxFaults /\ faults' = faults + 1
    /\ To(t, "removing")
    /\ UNCHANGED <<processes, seen, file, held, watchdog, sweep, harm>>

-----------------------------------------------------------------------------
(* releaseHeldLock and the unlinks *)

(* Mutant: the release does not ask whether its lock is still the one held. *)
ReleaseUnasked(t) ==
    LET p == ProcOf[t]
    IN  /\ stage[t] \in {"in", "evicted"}
        /\ IF held[p] = None THEN To(t, "idle") /\ UNCHANGED held
           ELSE IF held[p].count > 1
           THEN held' = [held EXCEPT ![p].count = @ - 1] /\ To(t, "idle")
           ELSE held' = [held EXCEPT ![p] = None] /\ To(t, "releasing")
        /\ UNCHANGED <<processes, seen, file, watchdog, sweep, faults, harm>>

Release(t) ==
    LET p == ProcOf[t]
    IN  /\ stage[t] \in {"in", "evicted"}
        /\ IF stage[t] = "evicted" THEN To(t, "idle") /\ UNCHANGED held
           ELSE IF held[p].count > 1
           THEN held' = [held EXCEPT ![p].count = @ - 1] /\ To(t, "idle")
           ELSE held' = [held EXCEPT ![p] = None] /\ To(t, "releasing")
        /\ UNCHANGED <<processes, seen, file, watchdog, sweep, faults, harm>>

(* An unlink goes by the path, whatever file is there by now.               *)
Unlink == file' = None /\ harm' = IF Backed THEN "usurped" ELSE harm

Unlinking == {"removing", "releasing"}

UnlinkFile(t) ==
    /\ stage[t] \in Unlinking
    /\ Unlink
    /\ To(t, IF stage[t] = "removing" THEN "waiting" ELSE "idle")
    /\ UNCHANGED <<processes, seen, held, watchdog, sweep, faults>>

UnlinkFails(t) ==
    /\ stage[t] \in Unlinking
    /\ faults < MaxFaults /\ faults' = faults + 1
    /\ To(t, "idle")
    /\ UNCHANGED <<processes, seen, file, held, watchdog, sweep, harm>>

(* runLockWatchdogCheck: a lock held for too long is taken from its holders. *)
Evict(p) ==
    /\ held[p] # None /\ ~watchdog[p]
    /\ held' = [held EXCEPT ![p] = None]
    /\ stage' = Forgotten(p)
    /\ watchdog' = [watchdog EXCEPT ![p] = TRUE]
    /\ UNCHANGED <<processes, seen, file, sweep, faults, harm>>

WatchdogUnlinks(p) ==
    /\ watchdog[p]
    /\ watchdog' = [watchdog EXCEPT ![p] = FALSE]
    /\ Unlink
    /\ UNCHANGED <<processes, seen, stage, held, sweep, faults>>

(* Mutant: the lock stays in HELD_LOCKS. *)
ReleaseAllButKeep(p) ==
    /\ held[p] # None
    /\ file' = None
    /\ harm' = IF Backed /\ file.maker # held[p].maker THEN "usurped" ELSE harm
    /\ UNCHANGED <<processes, seen, held, stage, watchdog, sweep, faults>>

(* releaseAllLocksSync, at a signal that need not end the process.          *)
ReleaseAll(p) ==
    /\ held[p] # None
    /\ file' = None
    /\ harm' = IF Backed /\ file.maker # held[p].maker THEN "usurped" ELSE harm
    /\ held' = [held EXCEPT ![p] = None]
    /\ stage' = Forgotten(p)
    /\ UNCHANGED <<processes, seen, watchdog, sweep, faults>>

-----------------------------------------------------------------------------
(* cleanStaleLockFiles: a file that was listed is read.  What cannot be     *)
(* read is stale, whatever its age, and as much so if it is gone by then.   *)
SweepTo(p, where) == sweep' = [sweep EXCEPT ![p] = where]

(* A sweep is due whenever the gateway starts, in a new process or again in *)
(* its own, where locks and tasks are as they were.                         *)
SweepReads(p) ==
    /\ p \in Gateways /\ pid[p] # None
    /\ sweep[p] = "idle" /\ file # None
    /\ \/ /\ SweepTo(p, "removing") /\ UNCHANGED seen
          /\ harm' = IF harm = "none" THEN "swept" ELSE harm
       \/ Written /\ file.old /\ SweepTo(p, "removing") /\ UNCHANGED <<seen, harm>>
       \/ /\ Written /\ ~file.old /\ SweepTo(p, "judging") /\ UNCHANGED harm
          /\ seen' = [seen EXCEPT ![p] = Payload]
    /\ UNCHANGED <<processes, file, stage, held, watchdog, faults>>

SweepJudges(p) ==
    /\ sweep[p] = "judging"
    /\ SweepTo(p, IF Stale(seen[p]) THEN "removing" ELSE "idle")
    /\ seen' = [seen EXCEPT ![p] = None]
    /\ UNCHANGED <<processes, file, stage, held, watchdog, faults, harm>>

SweepUnlinks(p) ==
    /\ sweep[p] = "removing"
    /\ SweepTo(p, "idle")
    /\ Unlink
    /\ UNCHANGED <<processes, seen, stage, held, watchdog, faults>>

-----------------------------------------------------------------------------
(* Processes and time *)

StartedNow == IF startTimes THEN faults' ELSE 0

(* The pid of a process that has died may be given to a stranger.           *)
Crash(p) ==
    /\ pid[p] # None
    /\ faults < MaxFaults /\ faults' = faults + 1
    /\ \E stranger \in {None, StartedNow} : started' = [started EXCEPT ![pid[p]] = stranger]
    /\ pid' = [pid EXCEPT ![p] = None]
    /\ stage' = [t \in Tasks |-> IF ProcOf[t] = p THEN "idle" ELSE stage[t]]
    /\ held' = [held EXCEPT ![p] = None]
    /\ watchdog' = [watchdog EXCEPT ![p] = FALSE]
    /\ sweep' = [sweep EXCEPT ![p] = "idle"]
    /\ seen' = [x \in Tasks \union Procs |->
                 IF x = p \/ (x \in Tasks /\ ProcOf[x] = p) THEN None ELSE seen[x]]
    /\ UNCHANGED <<startTimes, file, harm>>

Start(p) ==
    /\ pid[p] = None /\ p \in Gateways
    /\ UNCHANGED <<startTimes, seen, file, stage, held, watchdog, sweep, faults, harm>>
    /\ \E n \in Pids :
         /\ started[n] = None
         /\ started' = [started EXCEPT ![n] = StartedNow]
         /\ pid' = [pid EXCEPT ![p] = n]

(* The watchdog comes before staleMs, unless maxHoldMs is longer; an unlink *)
(* under way is done long before.                                           *)
UnlinkUnderWay ==
    \/ \E t \in Tasks : stage[t] \in Unlinking
    \/ \E p \in Procs : watchdog[p] \/ sweep[p] = "removing"
Age ==
    /\ file # None /\ ~file.old /\ ~UnlinkUnderWay
    /\ ~Backed
    /\ file' = [file EXCEPT !.old = TRUE]
    /\ UNCHANGED <<processes, seen, stage, held, watchdog, sweep, faults, harm>>
OverlongHold ==
    /\ Backed /\ ~file.old /\ ~UnlinkUnderWay
    /\ stage[file.maker] \notin {"writing", "written"}
    /\ faults < MaxFaults /\ faults' = faults + 1
    /\ file' = [file EXCEPT !.old = TRUE]
    /\ UNCHANGED <<processes, seen, stage, held, watchdog, sweep, harm>>

Contend(t) ==
    \/ Open(t) \/ Write(t) \/ Finish(t)
    \/ Refused(t) \/ Judge(t) \/ Stat(t) \/ UnlinkFile(t)
Sweep(p) == SweepJudges(p) \/ SweepUnlinks(p)
Next ==
    \/ \E t \in Tasks :
         \/ Reenter(t) \/ Contend(t) \/ GiveUp(t) \/ Release(t)
         \/ WriteFails(t) \/ StatFails(t) \/ UnlinkFails(t)
    \/ \E p \in Procs :
         \/ Evict(p) \/ WatchdogUnlinks(p) \/ ReleaseAll(p)
         \/ SweepReads(p) \/ Sweep(p) \/ Crash(p) \/ Start(p)
    \/ Age \/ OverlongHold

Stages == {"idle", "waiting", "writing", "written", "judging", "stating",
           "removing", "in", "evicted", "releasing"}
SweepStages == {"idle", "judging", "removing"}

(* Less than the event loops do: of the tasks that await something one goes *)
(* on, of the unlinks under way one is made or fails, and time passes.      *)
(* Nobody need come, leave, or give up.  Each subscript is a variable that  *)
(* the action always changes.                                               *)
GoesOn(t) == stage[t] \notin {"idle", "in", "evicted"} /\ \E where \in Stages : To(t, where)
Spec ==
    /\ Init /\ [][Next]_vars
    /\ WF_stage(\E t \in Tasks : GoesOn(t))
    /\ WF_stage(\E t \in Tasks : stage[t] \in Unlinking /\ GoesOn(t))
    /\ WF_watchdog(\E p \in Procs : WatchdogUnlinks(p))
    /\ WF_sweep(\E p \in Procs : sweep[p] = "removing" /\ SweepTo(p, "idle"))
    /\ WF_file(Age)

-----------------------------------------------------------------------------
(* Properties *)

TypeOK ==
    /\ startTimes \in BOOLEAN
    /\ started \in [Pids -> Nat \union {None}]
    /\ pid \in [Procs -> Pids \union {None}]
    /\ file \in Files \union {None}
    /\ stage \in [Tasks -> Stages]
    /\ seen \in [Tasks \union Procs -> Payloads \union {None}]
    /\ held \in [Procs -> [maker : Tasks, count : Nat \ {0}] \union {None}]
    /\ watchdog \in [Procs -> BOOLEAN] /\ sweep \in [Procs -> SweepStages]
    /\ faults \in 0..MaxFaults /\ harm \in {"none", "swept", "usurped"}

(* The reference count is the number of tasks that will give this lock      *)
(* back: a release that comes after the watchdog, a signal or a new lock of *)
(* the same process took the old one does not take the new one's count.     *)
Holders(p) == {t \in Tasks : ProcOf[t] = p /\ stage[t] = "in"}
HolderCount ==
    \A p \in Procs :
        IF held[p] = None THEN Holders(p) = {} ELSE held[p].count = Cardinality(Holders(p))

(* Through crashes, evictions, signals and sweeps, two processes have a     *)
(* lock in force only after an unlink, meant for another file, took the     *)
(* file of a lock in force.                                                 *)
Exclusion ==
    \/ harm = "usurped"
    \/ \A t, u \in Tasks : stage[t] = "in" /\ stage[u] = "in" => ProcOf[t] = ProcOf[u]

(* That never happens while start times are known, nothing fails, no lock   *)
(* is held beyond staleMs, and no sweep has condemned a file that it listed *)
(* and read nothing of: one just created, or unlinked in the meantime.      *)
NotUsurped == [][harm = "none" /\ harm' = "usurped" => ~startTimes \/ faults > 0]_vars

(* No task condemns the file of a lock in force by what it has read of it,  *)
(* whatever becomes of its pid, unless the file is too old: the test at     *)
(* session-write-lock.test.ts for recycled pids, and "does not reclaim      *)
(* fresh malformed lock files during contention".  There are two            *)
(* exceptions: a stat that fails, and the file of a task of the same        *)
(* process that HELD_LOCKS has not heard of, where start times are unknown. *)
Unheard(t) ==
    /\ stage[file.maker] = "written" /\ ProcOf[file.maker] = ProcOf[t]
    /\ file.start = None

CondemnsNoLock ==
    [][\A t \in Tasks :
         /\ stage[t] # "removing" /\ stage'[t] = "removing"
         /\ stage[t] = "judging" => seen[t] = Payload
         => ~Backed \/ file.old \/ Unheard(t) \/ faults' > faults]_vars

(* A file that nobody stands behind does not keep tasks waiting for ever,   *)
(* whoever has its pid now, and if its maker died before it wrote.          *)
Contends(t) == stage[t] \in {"waiting", "judging", "stating", "removing"}
DeadFileGoes == []<>(file = None \/ Backed \/ \A t \in Tasks : ~Contends(t))
=============================================================================
