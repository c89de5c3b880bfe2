------------------------- MODULE CronServiceProofs -------------------------
(* Theorems about the cron service, for any jobs, schedules and bounds.     *)
EXTENDS CronService, FiniteSetTheorems, TLAPS

-----------------------------------------------------------------------------
(* What the operators on one job do                                         *)

JobStores == [Jobs -> JobStates]
Gone(job) == job.lastStatus = "absent"
SameJob(a, b) == /\ a.enabled = b.enabled /\ a.lastRun = b.lastRun /\ a.lastStatus = b.lastStatus
                 /\ a.errors = b.errors /\ a.deleteAfterRun = b.deleteAfterRun

(* A job waits for its time, unless it has succeeded and is done; and then  *)
(* it does not.                                                             *)
Ready(j, job) == job.enabled /\ job.next = None => Served(j, job)
Done(j, job) == Served(j, job) => job.next = None

(* A store repaired: markers go from what is disabled or stuck, and a time  *)
(* comes where one is due.                                                  *)
Repaired(j, a, b) ==
    /\ b \in JobStates /\ SameJob(a, b)
    /\ b.running = a.running \/ (b.running = None /\ (~a.enabled \/ Stuck(a)))
    /\ a.enabled /\ b.next = None => Served(j, a)
    /\ Served(j, a) /\ a.next = None => b.next = None
    /\ ~a.enabled => b.next = None

LEMMA Constants ==
    /\ None \notin Nat /\ None \notin Times
    /\ Period \in Nat \ {0} /\ StuckAfter \in Nat \ {0} /\ Backoff \in Nat \ {0}
    /\ MaxNow \in Nat \ {0} /\ MaxAttempts \in Nat
    /\ Times \subseteq Nat \ {0}
BY CronAssumption DEF CronAssumption, Times

LEMMA LaterIsTime == ASSUME NEW x \in Nat \ {0} PROVE Later(x) \in Times
BY Constants DEF Later, Times

LEMMA LaterOfTimes == ASSUME NEW x \in Times, NEW y \in Times PROVE LaterOf(x, y) \in Times
BY DEF LaterOf

LEMMA Slots == ASSUME NEW t \in Times
               PROVE  /\ (t \div Period + 1) * Period \in Nat \ {0}
                      /\ LaterOf(1, (t + Period - 1) \div Period) * Period \in Nat \ {0}
<1>1. ASSUME NEW n \in Nat, NEW m \in Nat \ {0} PROVE n \div m \in Nat
  BY <1>1
<1>2. ASSUME NEW n \in Nat \ {0}, NEW m \in Nat \ {0} PROVE n * m \in Nat \ {0}
  BY <1>2
<1>3. t \div Period + 1 \in Nat \ {0}
  BY <1>1, Constants
<1>4. (t + Period - 1) \in Nat
  BY Constants
<1>5. (t + Period - 1) \div Period \in Nat
  BY <1>1, <1>4, Constants
<1>6. LaterOf(1, (t + Period - 1) \div Period) \in Nat \ {0}
  BY <1>5 DEF LaterOf
<1> QED
  BY <1>2, <1>3, <1>6, Constants

(* A time is computed for what is enabled and not done. *)
LEMMA ComputedNext ==
    ASSUME NEW j \in Jobs, NEW job, job.enabled \in BOOLEAN, job.lastRun \in Moments, NEW t \in Times
    PROVE  /\ ComputeNext(j, job, t) \in Moments
           /\ ComputeNext(j, job, t) = None <=> ~job.enabled \/ Served(j, job)
<1>1. None \notin Times /\ None \in Moments /\ Times \subseteq Moments
  BY Constants DEF Moments
<1>2. CASE ~job.enabled \/ Served(j, job)
  BY <1>1, <1>2 DEF ComputeNext
<1>3. CASE ~(~job.enabled \/ Served(j, job))
  <2>1. CASE Kind[j] = "at"
    <3>1. ComputeNext(j, job, t) = Later(At[j])
      BY <1>3, <2>1 DEF ComputeNext
    <3>2. At[j] \in Nat \ {0}
      BY CronAssumption DEF CronAssumption
    <3> QED
      BY <1>1, <1>3, <3>1, <3>2, LaterIsTime
  <2>2. CASE Kind[j] = "cron"
    <3>1. ComputeNext(j, job, t) = Later((t \div Period + 1) * Period)
      BY <1>3, <2>2 DEF ComputeNext
    <3> QED
      BY <1>1, <1>3, <3>1, Slots, LaterIsTime
  <2>3. CASE Kind[j] \notin {"at", "cron"} /\ job.lastRun # None /\ job.lastRun + Period > t
    <3>1. ComputeNext(j, job, t) = Later(job.lastRun + Period)
      BY <1>3, <2>3 DEF ComputeNext
    <3>2. job.lastRun \in Nat \ {0}
      BY <2>3, Constants DEF Moments
    <3>3. job.lastRun + Period \in Nat \ {0}
      BY <3>2, Constants
    <3> QED
      BY <1>1, <1>3, <3>1, <3>3, LaterIsTime
  <2>4. CASE Kind[j] \notin {"at", "cron"} /\ ~(job.lastRun # None /\ job.lastRun + Period > t)
    <3>1. ComputeNext(j, job, t) = Later(LaterOf(1, (t + Period - 1) \div Period) * Period)
      BY <1>3, <2>4 DEF ComputeNext
    <3> QED
      BY <1>1, <1>3, <3>1, Slots, LaterIsTime
  <2> QED
    BY <2>1, <2>2, <2>3, <2>4
<1> QED
  BY <1>2, <1>3

LEMMA AbsentIs ==
    /\ Absent \in JobStates /\ ~Absent.enabled /\ Absent.next = None /\ Absent.running = None
    /\ Absent.lastRun = None /\ Gone(Absent) /\ Absent.errors = 0 /\ Absent.deleteAfterRun = FALSE
BY Constants DEF Absent, JobStates, Moments, Gone

LEMMA NormalizeRepairs ==
    ASSUME NEW job \in JobStates
    PROVE  /\ Normalize(job) \in JobStates /\ SameJob(job, Normalize(job))
           /\ Normalize(job).running = IF ~job.enabled \/ Stuck(job) THEN None ELSE job.running
           /\ Normalize(job).next = IF job.enabled THEN job.next ELSE None
<1>1. None \in Moments
  BY DEF Moments
<1> QED
  BY <1>1 DEF Normalize, JobStates, SameJob

(* A job whose time is computed again or not after it is normalized. *)
LEMMA Repairs ==
    ASSUME NEW j \in Jobs, NEW job \in JobStates, now \in Times, NEW again \in BOOLEAN,
           job.enabled /\ job.next = None => again,
           NEW b, b = IF job.enabled /\ again
                      THEN [Normalize(job) EXCEPT !.next = ComputeNext(j, Normalize(job), now)]
                      ELSE Normalize(job)
    PROVE  Repaired(j, job, b)
<1> DEFINE n == Normalize(job)
<1>1. n \in JobStates /\ SameJob(job, n) /\ n.enabled \in BOOLEAN /\ n.lastRun \in Moments
  BY NormalizeRepairs DEF JobStates
<1>2. Served(j, n) <=> Served(j, job)
  BY <1>1 DEF Served, SameJob
<1>3. CASE job.enabled /\ again
  <2> DEFINE c == ComputeNext(j, n, now)
  <2>1. c \in Moments /\ (c = None <=> Served(j, job))
    <3>1. n.enabled
      BY <1>1, <1>3 DEF SameJob
    <3>2. c \in Moments /\ (c = None <=> ~n.enabled \/ Served(j, n))
      BY <1>1, ComputedNext
    <3> QED
      BY <1>2, <3>1, <3>2
  <2>2. b \in JobStates /\ b.next = c /\ SameJob(n, b) /\ b.running = n.running
    BY <1>1, <1>3, <2>1 DEF JobStates, SameJob
  <2> QED
    BY <1>1, <1>3, <2>1, <2>2, NormalizeRepairs DEF Repaired, SameJob
<1>4. CASE ~(job.enabled /\ again)
  BY <1>1, <1>4, NormalizeRepairs DEF Repaired, SameJob
<1> QED
  BY <1>3, <1>4

LEMMA Maintained ==
    ASSUME NEW store \in JobStores, NEW expired \in BOOLEAN, now \in Times
    PROVE  /\ Maintain(store, expired) \in JobStores
           /\ \A j \in Jobs : Repaired(j, store[j], Maintain(store, expired)[j])
<1>1. ASSUME NEW j \in Jobs PROVE Repaired(j, store[j], Maintain(store, expired)[j])
  <2> DEFINE n == Normalize(store[j])
             executed == /\ expired /\ n.next # None /\ now >= n.next /\ n.running = None
                         /\ n.lastRun # None /\ n.lastRun >= n.next
             again == n.next = None \/ executed
  <2>1. store[j] \in JobStates
    BY DEF JobStores
  <2>2. n.enabled = store[j].enabled /\ n.next = IF store[j].enabled THEN store[j].next ELSE None
    BY <2>1, NormalizeRepairs DEF SameJob
  <2>3. again \in BOOLEAN
    BY Zenon
  <2>4. Maintain(store, expired)[j] = IF n.enabled /\ again
                                      THEN [n EXCEPT !.next = ComputeNext(j, n, now)] ELSE n
    BY DEF Maintain
  <2>5. store[j].enabled /\ store[j].next = None => again
    BY <2>2
  <2> HIDE DEF again
  <2> QED
    BY <2>1, <2>2, <2>3, <2>4, <2>5, Repairs
<1>2. \A j \in Jobs : Maintain(store, expired)[j] \in JobStates
  BY <1>1 DEF Repaired
<1> QED
  BY <1>1, <1>2 DEF Maintain, JobStores

LEMMA Recomputed ==
    ASSUME NEW store \in JobStores, now \in Times
    PROVE  /\ Recompute(store) \in JobStores
           /\ \A j \in Jobs : Repaired(j, store[j], Recompute(store)[j])
<1>1. ASSUME NEW j \in Jobs PROVE Repaired(j, store[j], Recompute(store)[j])
  <2> DEFINE n == Normalize(store[j])
             again == n.next = None \/ now >= n.next
  <2>1. store[j] \in JobStates
    BY DEF JobStores
  <2>2. n.enabled = store[j].enabled /\ n.next = IF store[j].enabled THEN store[j].next ELSE None
    BY <2>1, NormalizeRepairs DEF SameJob
  <2>3. again \in BOOLEAN
    BY Zenon
  <2>4. Recompute(store)[j] = IF n.enabled /\ again
                              THEN [n EXCEPT !.next = ComputeNext(j, n, now)] ELSE n
    BY DEF Recompute
  <2>5. store[j].enabled /\ store[j].next = None => again
    BY <2>2
  <2> HIDE DEF again
  <2> QED
    BY <2>1, <2>2, <2>3, <2>4, <2>5, Repairs
<1>2. \A j \in Jobs : Recompute(store)[j] \in JobStates
  BY <1>1 DEF Repaired
<1> QED
  BY <1>1, <1>2 DEF Recompute, JobStores

(* A job that is not repaired. *)
LEMMA RepairedSame ==
    ASSUME NEW j \in Jobs, NEW a \in JobStates, Ready(j, a), ~a.enabled => a.next = None
    PROVE  Repaired(j, a, a)
BY DEF Repaired, SameJob, Ready

LEMMA GoneStays ==
    ASSUME NEW j \in Jobs, NEW b, Repaired(j, Absent, b) PROVE b = Absent
<1>1. b \in JobStates /\ SameJob(Absent, b) /\ b.running = None /\ b.next = None
  BY AbsentIs DEF Repaired
<1> QED
  BY <1>1 DEF Absent, JobStates, SameJob

(* The result of an execution. *)
LEMMA Applied ==
    ASSUME NEW j \in Jobs, NEW job \in JobStates, NEW r, NEW p \in BOOLEAN,
           r.started \in Times, r.ended \in Times, r.status \in Statuses
    PROVE  LET b == ApplyJobResult(j, job, r, p)
           IN  /\ b \in JobStates /\ b.running = None /\ b.lastRun = r.started
               /\ b.lastStatus = r.status /\ Ready(j, b) /\ Done(j, b)
<1> DEFINE failed == r.status \in Errors
           errors == IF ~failed THEN 0 ELSE IF job.errors > MaxAttempts THEN job.errors ELSE job.errors + 1
           ran == [job EXCEPT !.running = None, !.lastRun = r.started,
                              !.lastStatus = r.status, !.errors = errors]
           anchor == IF p THEN job.lastRun ELSE r.started
           based == [ran EXCEPT !.lastRun = IF Kind[j] = "every" THEN anchor ELSE @]
           natural == ComputeNext(j, based, r.ended)
           retry == Later(r.ended + Backoff)
           again == r.status = "transient" /\ errors <= MaxAttempts
           b == ApplyJobResult(j, job, r, p)
<1>1. errors \in 0..(MaxAttempts + 1)
  <2>1. job.errors \in 0..(MaxAttempts + 1)
    BY DEF JobStates
  <2> QED
    BY <2>1, Constants
<1>2. None \in Moments /\ Times \subseteq Moments
  BY DEF Moments
<1>3. /\ ran \in JobStates /\ ran.running = None /\ ran.lastRun = r.started
      /\ ran.lastStatus = r.status /\ ran.enabled = job.enabled
  BY <1>1, <1>2 DEF JobStates
<1>4. based \in JobStates /\ based.enabled = job.enabled
  <2>1. anchor \in Moments /\ ran.lastRun \in Moments
    BY <1>2, <1>3 DEF JobStates
  <2> HIDE DEF anchor, ran
  <2>2. (IF Kind[j] = "every" THEN anchor ELSE ran.lastRun) \in Moments
    BY <2>1
  <2> QED
    BY <1>3, <2>2 DEF JobStates
<1>5. natural \in Moments /\ (job.enabled /\ Kind[j] # "at" => natural # None)
  <2> HIDE DEF based
  <2>1. based.enabled \in BOOLEAN /\ based.lastRun \in Moments
    BY <1>4 DEF JobStates
  <2> QED
    BY <1>4, <2>1, ComputedNext DEF Served
<1>6. retry \in Times /\ retry # None
  <2>1. r.ended \in Nat \ {0} /\ Backoff \in Nat \ {0}
    BY Constants
  <2>2. r.ended + Backoff \in Nat \ {0}
    BY <2>1
  <2> QED
    BY <2>2, LaterIsTime, Constants
<1>7. CASE Kind[j] = "at"
  <2>1. b = [ran EXCEPT !.enabled = again /\ @, !.next = IF again THEN retry ELSE None]
    BY <1>7 DEF ApplyJobResult
  <2>2. again => r.status # "ok"
    OBVIOUS
  <2>3. (again /\ ran.enabled) \in BOOLEAN
    BY Zenon
  <2> HIDE DEF again, ran, retry
  <2>4. /\ b \in JobStates /\ b.running = None /\ b.lastRun = r.started /\ b.lastStatus = r.status
        /\ b.enabled = (again /\ ran.enabled) /\ b.next = IF again THEN retry ELSE None
    BY <1>2, <1>3, <1>6, <2>1, <2>3 DEF JobStates
  <2> QED
    BY <1>6, <2>2, <2>4 DEF Ready, Done, Served
<1>8. CASE Kind[j] # "at"
  <2> DEFINE next == IF ~job.enabled THEN None ELSE IF failed THEN LaterOf(natural, retry) ELSE natural
  <2>1. b = [ran EXCEPT !.next = next]
    BY <1>8 DEF ApplyJobResult
  <2>2. next \in Moments /\ (job.enabled => next # None)
    <3>1. job.enabled => natural \in Times
      BY <1>5, <1>8 DEF Moments
    <3> HIDE DEF natural, retry
    <3>2. job.enabled => LaterOf(natural, retry) \in Times
      BY <1>6, <3>1, LaterOfTimes
    <3> QED
      BY <1>2, <3>1, <3>2, Constants
  <2> HIDE DEF ran, next
  <2>3. /\ b \in JobStates /\ b.running = None /\ b.lastRun = r.started /\ b.lastStatus = r.status
        /\ b.enabled = job.enabled /\ b.next = next
    BY <1>3, <2>1, <2>2 DEF JobStates
  <2> QED
    BY <1>8, <2>2, <2>3 DEF Ready, Done, Served
<1> QED
  BY <1>7, <1>8

-----------------------------------------------------------------------------
(* Batches                                                                  *)

WorksIf(b) == b.stage = "working" <=> \E j \in Jobs : b.work[j] # NoRun

LEMMA WorkIs ==
    /\ NoRun \in Works /\ Waiting \in Works /\ NoRun.at = "none" /\ Waiting.at = "waiting"
    /\ \A t \in Times : Live(t) \in Works /\ Live(t).at = "live" /\ Live(t).started = t
    /\ \A t, u \in Times, x \in Statuses :
         /\ Ended(t, u, x) \in Works /\ Ended(t, u, x).at = "ended"
         /\ Ended(t, u, x).started = t /\ Ended(t, u, x).ended = u /\ Ended(t, u, x).status = x
<1>1. NoRun \in Works /\ Waiting \in Works /\ NoRun.at = "none" /\ Waiting.at = "waiting"
  BY DEF Works, NoRun, Waiting
<1>2. ASSUME NEW t \in Times PROVE Live(t) \in Works /\ Live(t).at = "live" /\ Live(t).started = t
  BY DEF Works, Live
<1>3. ASSUME NEW t \in Times, NEW u \in Times, NEW x \in Statuses
      PROVE  /\ Ended(t, u, x) \in Works /\ Ended(t, u, x).at = "ended"
             /\ Ended(t, u, x).started = t /\ Ended(t, u, x).ended = u /\ Ended(t, u, x).status = x
  BY DEF Works, Ended
<1> QED
  BY <1>1, <1>2, <1>3

LEMMA WorkKinds ==
    ASSUME NEW w \in Works
    PROVE  /\ w.at = "none" <=> w = NoRun
           /\ w.at = "waiting" <=> w = Waiting
           /\ w.at = "live" => w.started \in Times
           /\ w.at = "ended" => w.started \in Times /\ w.ended \in Times /\ w.status \in Statuses
           /\ w.at \in {"none", "waiting", "live", "ended"}
BY DEF Works, NoRun, Waiting, Live, Ended

LEMMA BatchIs ==
    /\ Idle \in Batches /\ Idle.stage = "idle" /\ \A j \in Jobs : Idle.work[j] = NoRun
    /\ \A stage \in Stages, S \in SUBSET Jobs :
         /\ Busy(stage, S) \in Batches /\ Busy(stage, S).stage = stage
         /\ \A j \in Jobs : Busy(stage, S).work[j] = IF j \in S THEN Waiting ELSE NoRun
    /\ now \in Times => \A j \in Jobs, forced \in BOOLEAN :
         /\ Reserved(j, forced) \in Batches /\ Reserved(j, forced).stage = "working"
         /\ Reserved(j, forced).forced = forced
         /\ \A k \in Jobs : Reserved(j, forced).work[k] = IF k = j THEN Live(now) ELSE NoRun
<1>1. Idle \in Batches /\ Idle.stage = "idle" /\ \A j \in Jobs : Idle.work[j] = NoRun
  BY WorkIs DEF Idle, Batches, Stages
<1>2. ASSUME NEW stage \in Stages, NEW S \in SUBSET Jobs
      PROVE  /\ Busy(stage, S) \in Batches /\ Busy(stage, S).stage = stage
             /\ \A j \in Jobs : Busy(stage, S).work[j] = IF j \in S THEN Waiting ELSE NoRun
  BY <1>1, WorkIs DEF Busy, Batches
<1>3. ASSUME now \in Times, NEW j \in Jobs, NEW forced \in BOOLEAN
      PROVE  /\ Reserved(j, forced) \in Batches /\ Reserved(j, forced).stage = "working"
             /\ Reserved(j, forced).forced = forced
             /\ \A k \in Jobs : Reserved(j, forced).work[k] = IF k = j THEN Live(now) ELSE NoRun
  BY <1>3, WorkIs DEF Reserved, Batches, Stages
<1> QED
  BY <1>1, <1>2, <1>3

LEMMA BatchSet ==
    ASSUME batch \in [Flows -> Batches], NEW f \in Flows, NEW b \in Batches, SetBatch(f, b)
    PROVE  batch' \in [Flows -> Batches] /\ batch'[f] = b /\ \A g \in Flows \ {f} : batch'[g] = batch[g]
BY DEF SetBatch

(* The types of everything, in the form of the steps. *)
StoresOK == disk \in JobStores /\ (mem = None \/ mem \in JobStores)
BatchesOK == batch \in [Flows -> Batches] /\ \A f \in Flows : WorksIf(batch[f])
RestOK == now \in 1..MaxNow /\ attached \in BOOLEAN /\ armed \in BOOLEAN /\ interrupted \subseteq Jobs

LEMMA TypeParts == TypeOK <=> StoresOK /\ BatchesOK /\ RestOK /\ disturbed \subseteq Jobs
BY Zenon DEF TypeOK, StoresOK, BatchesOK, RestOK, WorksIf, JobStores

LEMMA NoneIsNoStore == None \notin JobStores
BY CronAssumption DEF CronAssumption, JobStores

-----------------------------------------------------------------------------
(* Types, and that a process whose file is not loaded does nothing yet.     *)

Boot ==
    /\ Loaded <=> batch["catchup"].stage # "clearing"
    /\ ~Loaded => batch["tick"].stage = "idle" /\ batch["manual"].stage = "idle" /\ ~armed
Sound == StoresOK /\ BatchesOK /\ RestOK /\ Boot

LEMMA Now == ASSUME RestOK PROVE now \in Times /\ now \in Nat
BY Constants DEF RestOK, Times

LEMMA WorkLoaded ==
    ASSUME Sound, NEW f \in Flows, batch[f].stage = "working" \/ \E j \in Jobs : batch[f].work[j] # NoRun
    PROVE  Loaded /\ mem \in JobStores /\ batch[f].stage = "working"
<1>1. batch[f].stage = "working"
  BY DEF Sound, BatchesOK, WorksIf
<1> QED
  BY <1>1 DEF Sound, Boot, Flows, Loaded, StoresOK

LEMMA MarkIs ==
    ASSUME NEW store \in JobStores, NEW S \in SUBSET Jobs, now \in Times
    PROVE  /\ Mark(store, S) \in JobStores
           /\ \A j \in Jobs : j \notin S => Mark(store, S)[j] = store[j]
           /\ \A j \in S : /\ SameJob(store[j], Mark(store, S)[j])
                           /\ Mark(store, S)[j].running = now /\ Mark(store, S)[j].next = store[j].next
<1>1. now \in Moments
  BY DEF Moments
<1>2. ASSUME NEW j \in S
      PROVE  /\ Mark(store, S)[j] \in JobStates /\ SameJob(store[j], Mark(store, S)[j])
             /\ Mark(store, S)[j].running = now /\ Mark(store, S)[j].next = store[j].next
  BY <1>1, <1>2 DEF Mark, JobStores, JobStates, SameJob
<1> QED
  BY <1>2 DEF Mark, JobStores

LEMMA OutcomeIs ==
    ASSUME NEW store \in JobStores, NEW j \in Jobs, NEW r \in Works, r.at = "ended", NEW p \in BOOLEAN
    PROVE  LET b == ApplyOutcome(store, j, r, p)
           IN  \/ b = Absent
               \/ /\ b \in JobStates /\ b.running = None /\ b.lastRun = r.started
                  /\ b.lastStatus = r.status /\ r.status \in Statuses /\ Ready(j, b) /\ Done(j, b)
<1>1. r.started \in Times /\ r.ended \in Times /\ r.status \in Statuses
  BY WorkKinds
<1>2. store[j] \in JobStates
  BY DEF JobStores
<1> QED
  BY <1>1, <1>2, Applied DEF ApplyOutcome

LEMMA OutcomeType ==
    ASSUME NEW store \in JobStores, NEW j \in Jobs, NEW r \in Works, r.at = "ended", NEW p \in BOOLEAN
    PROVE  ApplyOutcome(store, j, r, p) \in JobStates
BY OutcomeIs, AbsentIs

LEMMA NewJobIs ==
    ASSUME NEW j \in Jobs, NEW d \in BOOLEAN, now \in Times
    PROVE  /\ NewJob(j, d) \in JobStates /\ NewJob(j, d).enabled /\ NewJob(j, d).running = None
           /\ NewJob(j, d).lastRun = None /\ NewJob(j, d).lastStatus = "none"
           /\ Ready(j, NewJob(j, d)) /\ Done(j, NewJob(j, d))
<1> DEFINE job == [Absent EXCEPT !.enabled = TRUE, !.lastStatus = "none", !.deleteAfterRun = d]
           next == ComputeNext(j, job, now)
<1>1. /\ job \in JobStates /\ job.enabled /\ job.running = None
      /\ job.lastRun = None /\ job.lastStatus = "none"
  BY AbsentIs DEF JobStates, Absent
<1>2. job.enabled \in BOOLEAN /\ job.lastRun \in Moments
  BY <1>1 DEF JobStates
<1>3. next \in Moments /\ next # None
  <2>1. ~Served(j, job)
    BY <1>1 DEF Served
  <2> HIDE DEF job
  <2>2. next \in Moments /\ (next = None <=> ~job.enabled \/ Served(j, job))
    BY <1>2, ComputedNext
  <2> QED
    BY <1>1, <2>1, <2>2
<1>4. NewJob(j, d) = [job EXCEPT !.next = next]
  BY DEF NewJob
<1> HIDE DEF job, next
<1> QED
  BY <1>1, <1>3, <1>4 DEF JobStates, Ready, Done, Served

LEMMA Persisted ==
    ASSUME NEW store \in JobStores, Persist(store)
    PROVE  StoresOK' /\ Loaded' /\ disk' = store /\ mem' = store
BY NoneIsNoStore DEF Persist, StoresOK, Loaded

LEMMA ArmedType == ASSUME NEW store, ArmTimer(store) PROVE armed' \in BOOLEAN
BY Zenon DEF ArmTimer

(* A step of a process that has its store and keeps it. *)
LEMMA BootKept ==
    ASSUME Boot, Loaded', batch'["catchup"].stage # "clearing" PROVE Boot'
BY DEF Boot

LEMMA SetSound ==
    ASSUME BatchesOK, NEW f \in Flows, NEW b \in Batches, SetBatch(f, b), WorksIf(b)
    PROVE  /\ BatchesOK' /\ batch'[f] = b /\ \A g \in Flows \ {f} : batch'[g] = batch[g]
<1>1. batch' \in [Flows -> Batches] /\ batch'[f] = b /\ \A g \in Flows \ {f} : batch'[g] = batch[g]
  BY BatchSet DEF BatchesOK
<1>2. \A g \in Flows : WorksIf(batch'[g])
  BY <1>1 DEF BatchesOK
<1> QED
  BY <1>1, <1>2 DEF BatchesOK, WorksIf

LEMMA BusyWorks ==
    ASSUME NEW stage \in Stages, NEW S \in SUBSET Jobs, stage = "working" <=> S # {}
    PROVE  Busy(stage, S) \in Batches /\ WorksIf(Busy(stage, S))
<1>1. Waiting # NoRun
  BY WorkIs
<1> QED
  BY <1>1, BatchIs DEF WorksIf

LEMMA IdleWorks == Idle \in Batches /\ WorksIf(Idle)
BY BatchIs DEF WorksIf

LEMMA ReservedWorks ==
    ASSUME NEW j \in Jobs, NEW forced \in BOOLEAN, now \in Times
    PROVE  Reserved(j, forced) \in Batches /\ WorksIf(Reserved(j, forced))
<1>1. Live(now) # NoRun
  BY WorkIs
<1> QED
  BY <1>1, BatchIs DEF WorksIf

LEMMA SoundStart ==
    ASSUME Sound, Start PROVE Sound'
<1> USE DEF Sound
<1>0. now \in Times /\ "catchup" \in Flows
  BY Now DEF Flows
<1>1. CASE ClearMarkers
  <2> DEFINE cleared == [j \in Jobs |-> [disk[j] EXCEPT !.running = None]]
  <2>1. cleared \in JobStores
    BY DEF StoresOK, JobStores, JobStates, Moments
  <2>2. StoresOK' /\ Loaded'
    BY <1>1, <2>1, Persisted DEF ClearMarkers
  <2>3. Busy("collecting", {}) \in Batches /\ WorksIf(Busy("collecting", {})) /\ Busy("collecting", {}).stage = "collecting"
    BY BusyWorks, BatchIs DEF Stages
  <2>4. BatchesOK' /\ batch'["catchup"].stage = "collecting"
    BY <1>0, <1>1, <2>3, SetSound DEF ClearMarkers
  <2>5. RestOK'
    BY <1>1 DEF ClearMarkers, RestOK
  <2> QED
    BY <2>2, <2>4, <2>5, BootKept
<1>2. CASE CollectMissed
  <2> DEFINE missed == {j \in Jobs \ interrupted : Missed(j, mem[j])}
  <2>1. Loaded /\ mem \in JobStores
    BY <1>2 DEF CollectMissed, Boot, StoresOK, Loaded
  <2>2. missed \in SUBSET Jobs
    OBVIOUS
  <2> HIDE DEF missed
  <2>3. StoresOK' /\ Loaded'
    <3>1. CASE missed = {}
      BY <1>2, <2>1, <3>1 DEF CollectMissed, StoresOK, Loaded, missed
    <3>2. CASE missed # {}
      BY <1>0, <1>2, <2>1, <2>2, <3>2, MarkIs, Persisted DEF CollectMissed, missed
    <3> QED
      BY <3>1, <3>2
  <2>4. BatchesOK' /\ batch'["catchup"].stage \in {"finishing", "working"}
    <3>1. /\ Busy("finishing", {}) \in Batches /\ WorksIf(Busy("finishing", {}))
          /\ Busy("finishing", {}).stage = "finishing"
      BY BusyWorks, BatchIs DEF Stages
    <3>2. missed # {} => /\ Busy("working", missed) \in Batches /\ WorksIf(Busy("working", missed))
                         /\ Busy("working", missed).stage = "working"
      BY <2>2, BusyWorks, BatchIs DEF Stages
    <3>3. \E b \in Batches : SetBatch("catchup", b) /\ WorksIf(b) /\ b.stage \in {"finishing", "working"}
      BY <1>2, <3>1, <3>2 DEF CollectMissed, missed
    <3> QED
      BY <1>0, <3>3, SetSound
  <2>5. RestOK'
    BY <1>2 DEF CollectMissed, RestOK
  <2> QED
    BY <2>3, <2>4, <2>5, BootKept
<1>3. CASE FinishStart
  <2>1. Recompute(disk) \in JobStores
    BY <1>0, Recomputed DEF StoresOK
  <2>2. StoresOK' /\ Loaded'
    BY <1>3, <2>1, Persisted DEF FinishStart
  <2>3. BatchesOK' /\ batch'["catchup"] = Idle
    BY <1>0, <1>3, IdleWorks, SetSound DEF FinishStart
  <2>4. RestOK'
    BY <1>3, ArmedType DEF FinishStart, RestOK
  <2> QED
    BY <2>2, <2>3, <2>4, BootKept, BatchIs
<1> QED
  BY <1>1, <1>2, <1>3 DEF Start

LEMMA SoundTick ==
    ASSUME Sound, Tick PROVE Sound'
<1> USE DEF Sound
<1>0. now \in Times /\ "tick" \in Flows /\ "catchup" \in Flows \ {"tick"}
  BY Now DEF Flows
<1>1. CASE OnTimer
  <2>1. Busy("collecting", {}) \in Batches /\ WorksIf(Busy("collecting", {}))
    BY BusyWorks DEF Stages
  <2>2. BatchesOK' /\ batch'["catchup"] = batch["catchup"]
    BY <1>0, <1>1, <2>1, SetSound DEF OnTimer
  <2>3. StoresOK' /\ RestOK' /\ Loaded' /\ batch["catchup"].stage # "clearing"
    BY <1>1 DEF OnTimer, stores, StoresOK, RestOK, Boot, Loaded
  <2> QED
    BY <2>2, <2>3, BootKept
<1>2. CASE CollectDue
  <2> DEFINE due == {j \in Jobs : Due(disk[j])}
             kept == Maintain(disk, TRUE)
  <2>1. Loaded /\ disk \in JobStores /\ batch["catchup"].stage # "clearing"
    BY <1>2 DEF CollectDue, Boot, StoresOK
  <2>2. due \in SUBSET Jobs /\ kept \in JobStores
    BY <1>0, <2>1, Maintained
  <2> HIDE DEF due, kept
  <2>3. StoresOK' /\ Loaded'
    <3>1. CASE due = {}
      BY <1>2, <2>2, <3>1, Persisted DEF CollectDue, due, kept
    <3>2. CASE due # {}
      BY <1>0, <1>2, <2>1, <2>2, <3>2, MarkIs, Persisted DEF CollectDue, due
    <3> QED
      BY <3>1, <3>2
  <2>4. BatchesOK' /\ batch'["catchup"] = batch["catchup"]
    <3>1. due # {} => Busy("working", due) \in Batches /\ WorksIf(Busy("working", due))
      BY <2>2, BusyWorks DEF Stages
    <3>2. \E b \in Batches : SetBatch("tick", b) /\ WorksIf(b)
      BY <1>2, <3>1, IdleWorks DEF CollectDue, due
    <3> QED
      BY <1>0, <3>2, SetSound
  <2>5. RestOK'
    <3>1. attached' \in BOOLEAN
      BY <1>2, Zenon DEF CollectDue
    <3>2. armed' \in BOOLEAN
      BY <1>2, ArmedType DEF CollectDue, RestOK
    <3> QED
      BY <1>2, <3>1, <3>2 DEF CollectDue, RestOK
  <2> QED
    BY <2>1, <2>3, <2>4, <2>5, BootKept
<1> QED
  BY <1>1, <1>2 DEF Tick

LEMMA WorkSet ==
    ASSUME Sound, NEW f \in Flows, NEW j \in Jobs, batch[f].work[j] # NoRun,
           NEW w \in Works, w # NoRun, NEW b, b = [batch[f] EXCEPT !.work[j] = w], SetBatch(f, b)
    PROVE  /\ BatchesOK' /\ \A g \in Flows \ {f} : batch'[g] = batch[g]
           /\ batch'[f].stage = batch[f].stage /\ batch'[f].work[j] = w
           /\ \A k \in Jobs \ {j} : batch'[f].work[k] = batch[f].work[k]
<1>1. batch[f] \in Batches /\ batch[f].stage = "working"
  BY WorkLoaded DEF Sound, BatchesOK
<1>2. /\ b \in Batches /\ b.stage = "working" /\ b.work[j] = w
      /\ \A k \in Jobs \ {j} : b.work[k] = batch[f].work[k]
  BY <1>1 DEF Batches
<1>3. WorksIf(b)
  BY <1>2 DEF WorksIf
<1> QED
  BY <1>1, <1>2, <1>3, SetSound DEF Sound

LEMMA SoundExecute ==
    ASSUME Sound, Execute PROVE Sound'
<1> USE DEF Sound
<1>0. now \in Times
  BY Now
<1>1. ASSUME NEW f \in Flows, NEW j \in Jobs, StartJob(f, j) PROVE Sound'
  <2>1. batch[f].work[j] # NoRun /\ Live(now) \in Works /\ Live(now) # NoRun
    BY <1>0, <1>1, WorkIs DEF StartJob
  <2>2. BatchesOK' /\ \A g \in Flows : batch'[g].stage = batch[g].stage
    BY <1>1, <2>1, WorkSet DEF StartJob
  <2>3. Loaded /\ mem \in JobStores /\ disk \in JobStores
    BY <2>1, WorkLoaded DEF StoresOK
  <2>4. [mem EXCEPT ![j].running = now] \in JobStores
    BY <1>0, <2>3 DEF JobStores, JobStates, Moments
  <2>5. mem' \in JobStores /\ disk' \in JobStores
    BY <1>1, <2>3, <2>4 DEF StartJob
  <2>6. StoresOK' /\ Loaded' /\ RestOK'
    BY <1>1, <2>5, NoneIsNoStore DEF StartJob, RestOK, StoresOK, Loaded
  <2> QED
    BY <2>2, <2>3, <2>6 DEF Boot, Flows
<1>2. ASSUME NEW f \in Flows, NEW j \in Jobs, NEW x \in Outcomes, EndJob(f, j, x) PROVE Sound'
  <2> DEFINE w == Ended(batch[f].work[j].started, now, x)
  <2>1. batch[f].work[j] \in Works /\ x \in Statuses
    BY CronAssumption DEF BatchesOK, Batches, CronAssumption
  <2>2. w \in Works /\ w # NoRun /\ batch[f].work[j] # NoRun
    BY <1>0, <1>2, <2>1, WorkKinds, WorkIs DEF EndJob
  <2>3. BatchesOK' /\ \A g \in Flows : batch'[g].stage = batch[g].stage
    <3>1. SetBatch(f, [batch[f] EXCEPT !.work[j] = w])
      BY <1>2 DEF EndJob
    <3> HIDE DEF w
    <3> QED
      BY <2>2, <3>1, WorkSet
  <2>4. StoresOK' /\ RestOK' /\ UNCHANGED <<mem, armed>>
    BY <1>2 DEF EndJob, stores, StoresOK, RestOK
  <2> QED
    BY <2>3, <2>4 DEF Boot, Flows, Loaded
<1> QED
  BY <1>1, <1>2 DEF Execute

LEMMA SoundSettle ==
    ASSUME Sound, Settle PROVE Sound'
<1> USE DEF Sound
<1>0. now \in Times /\ "catchup" \in Flows /\ "manual" \in Flows /\ TRUE \in BOOLEAN /\ FALSE \in BOOLEAN
  BY Now DEF Flows
<1>1. ASSUME NEW f \in Flows, SettleBatch(f) PROVE Sound'
  <2> DEFINE work == batch[f].work
             settled == [j \in Jobs |-> IF work[j] = NoRun THEN disk[j] ELSE ApplyOutcome(disk, j, work[j], FALSE)]
             kept == Maintain(settled, FALSE)
  <2>1. batch[f].stage = "working" /\ \A j \in Jobs : work[j] # NoRun => work[j] \in Works /\ work[j].at = "ended"
    BY <1>1, WorkKinds DEF SettleBatch, AllEnded, BatchesOK, Batches
  <2>2. disk \in JobStores /\ Loaded
    BY <2>1, WorkLoaded DEF StoresOK
  <2>3. \A j \in Jobs : settled[j] \in JobStates
    BY <1>0, <2>1, <2>2, OutcomeType DEF JobStores
  <2>4. settled \in JobStores
    BY <2>3 DEF JobStores
  <2> HIDE DEF settled
  <2>5. kept \in JobStores
    BY <1>0, <2>4, Maintained
  <2>6. StoresOK' /\ Loaded'
    BY <1>1, <2>5, Persisted DEF SettleBatch, settled
  <2>7. BatchesOK' /\ batch'["catchup"].stage # "clearing"
    <3>1. CASE f = "tick"
      <4>1. SetBatch("tick", Idle)
        BY <1>1, <3>1 DEF SettleBatch
      <4> QED
        BY <1>0, <2>2, <3>1, <4>1, IdleWorks, SetSound DEF Boot, Flows
    <3>2. CASE f = "catchup"
      <4>1. SetBatch(f, Busy("finishing", {}))
        BY <1>1, <3>2 DEF SettleBatch
      <4>2. /\ Busy("finishing", {}) \in Batches /\ WorksIf(Busy("finishing", {}))
            /\ Busy("finishing", {}).stage = "finishing"
        BY BusyWorks, BatchIs DEF Stages
      <4> QED
        BY <1>0, <3>2, <4>1, <4>2, SetSound
    <3> QED
      BY <1>1, <3>1, <3>2 DEF SettleBatch, Flows
  <2>8. RestOK'
    BY <1>1, ArmedType DEF SettleBatch, RestOK
  <2> QED
    BY <2>6, <2>7, <2>8, BootKept
<1>2. ASSUME NEW j \in Jobs, SettleManual(j) PROVE Sound'
  <2> DEFINE r == batch["manual"].work[j]
             mine == ApplyOutcome(mem, j, r, batch["manual"].forced)
             merged == IF Has(disk, j) THEN [disk EXCEPT ![j] = mine] ELSE disk
             kept == Maintain(merged, TRUE)
  <2>1. /\ batch["manual"] \in Batches /\ r \in Works /\ r # NoRun /\ r.at = "ended"
        /\ batch["manual"].forced \in BOOLEAN
    BY <1>0, <1>2, WorkKinds DEF SettleManual, AllEnded, BatchesOK, Batches
  <2>2. mem \in JobStores /\ disk \in JobStores /\ Loaded
    BY <1>0, <2>1, WorkLoaded DEF StoresOK
  <2>3. mine \in JobStates
    BY <2>1, <2>2, OutcomeType
  <2> HIDE DEF mine
  <2>4. merged \in JobStores
    BY <2>2, <2>3 DEF JobStores
  <2> HIDE DEF merged
  <2>5. kept \in JobStores
    BY <1>0, <2>4, Maintained
  <2> HIDE DEF kept
  <2>6. StoresOK' /\ Loaded' /\ RestOK'
    <3>1. CASE Has(mem, j)
      <4>1. Persist(kept) /\ ArmTimer(kept) /\ attached' = FALSE /\ UNCHANGED <<now, interrupted>>
        BY <1>2, <3>1 DEF SettleManual, kept, merged, mine
      <4> QED
        BY <2>5, <4>1, Persisted, ArmedType DEF RestOK
    <3>2. CASE ~Has(mem, j)
      <4>1. UNCHANGED <<disk, mem, attached, armed, now, interrupted>>
        BY <1>2, <3>2 DEF SettleManual, stores
      <4> QED
        BY <2>2, <4>1 DEF StoresOK, RestOK, Loaded
    <3> QED
      BY <3>1, <3>2
  <2>7. BatchesOK' /\ batch'["catchup"] = batch["catchup"]
    BY <1>0, <1>2, IdleWorks, SetSound DEF SettleManual
  <2> QED
    BY <2>2, <2>6, <2>7, BootKept DEF Boot
<1> QED
  BY <1>1, <1>2 DEF Settle

LEMMA WriteSound ==
    ASSUME Sound, Loaded, NEW store \in JobStores, Write(store) PROVE Sound'
<1>1. StoresOK' /\ Loaded'
  BY Persisted DEF Write
<1>2. RestOK' /\ BatchesOK'
  BY ArmedType DEF Write, Sound, RestOK, BatchesOK, WorksIf
<1> QED
  BY <1>1, <1>2, BootKept DEF Sound, Boot, Write

LEMMA SoundCall ==
    ASSUME Sound, Call PROVE Sound'
<1> USE DEF Sound
<1>0. now \in Times /\ "manual" \in Flows /\ FALSE \in BOOLEAN
  BY Now DEF Flows
<1>1. ASSUME NEW j \in Jobs, Add(j) PROVE Sound'
  <2> DEFINE store == [mem EXCEPT ![j] = NewJob(j, Kind[j] = "at")]
  <2>1. mem \in JobStores /\ Loaded
    BY <1>1 DEF Add, Called, StoresOK, Loaded
  <2>2. (Kind[j] = "at") \in BOOLEAN
    OBVIOUS
  <2>3. store \in JobStores
    BY <1>0, <2>1, <2>2, NewJobIs DEF JobStores
  <2>4. Recompute(store) \in JobStores
    BY <1>0, <2>3, Recomputed
  <2> QED
    BY <1>1, <2>1, <2>4, WriteSound DEF Add
<1>2. ASSUME NEW j \in Jobs, Remove(j) PROVE Sound'
  <2>1. mem \in JobStores /\ Loaded
    BY <1>2 DEF Remove, Called, StoresOK, Loaded
  <2>2. [mem EXCEPT ![j] = Absent] \in JobStores
    BY <2>1, AbsentIs DEF JobStores
  <2> QED
    BY <1>2, <2>1, <2>2, WriteSound DEF Remove
<1>3. ASSUME NEW j \in Jobs, NEW e \in BOOLEAN, Update(j, e) PROVE Sound'
  <2>1. mem \in JobStores /\ Loaded
    BY <1>3 DEF Update, Called, StoresOK, Loaded
  <2> DEFINE set == [mem[j] EXCEPT !.enabled = e]
             next == ComputeNext(j, set, now)
             job == [mem[j] EXCEPT !.enabled = e, !.next = next]
             edited == [mem EXCEPT ![j] = IF e THEN job ELSE [job EXCEPT !.running = None]]
  <2>2. set \in JobStates /\ set.enabled \in BOOLEAN /\ set.lastRun \in Moments
    BY <2>1 DEF JobStores, JobStates
  <2> HIDE DEF set
  <2>3. next \in Moments
    BY <1>0, <2>2, ComputedNext
  <2> HIDE DEF next
  <2>4. job \in JobStates /\ [job EXCEPT !.running = None] \in JobStates
    BY <2>1, <2>3 DEF JobStores, JobStates, Moments
  <2> HIDE DEF job
  <2>5. edited \in JobStores
    BY <2>1, <2>4 DEF JobStores
  <2>6. Write(edited)
    BY <1>3 DEF Update, job, next, set
  <2> HIDE DEF edited
  <2> QED
    BY <2>1, <2>5, <2>6, WriteSound
<1>4. ASSUME NEW j \in Jobs, NEW forced \in BOOLEAN, ManualRun(j, forced) PROVE Sound'
  <2> DEFINE kept == Maintain(mem, FALSE)
             admitted == kept[j].running = None /\ (forced \/ Due(kept[j]))
  <2>1. mem \in JobStores /\ Loaded /\ disk \in JobStores
    BY <1>4 DEF ManualRun, Called, StoresOK, Loaded
  <2>2. kept \in JobStores
    BY <1>0, <2>1, Maintained
  <2>3. \/ Persist(Mark(kept, {j})) /\ SetBatch("manual", Reserved(j, forced))
        \/ mem' = kept /\ UNCHANGED <<disk, batch>>
    BY <1>4 DEF ManualRun
  <2>4. RestOK'
    BY <1>4 DEF ManualRun, RestOK
  <2> HIDE DEF kept
  <2>5. CASE Persist(Mark(kept, {j})) /\ SetBatch("manual", Reserved(j, forced))
    <3>1. Mark(kept, {j}) \in JobStores
      BY <1>0, <2>2, MarkIs
    <3>2. StoresOK' /\ Loaded'
      BY <2>5, <3>1, Persisted
    <3>3. BatchesOK' /\ batch'["catchup"] = batch["catchup"]
      BY <1>0, <2>5, ReservedWorks, SetSound DEF Flows
    <3> QED
      BY <2>1, <2>4, <3>2, <3>3, BootKept DEF Boot
  <2>6. CASE mem' = kept /\ UNCHANGED <<disk, batch>>
    <3>1. StoresOK' /\ Loaded' /\ BatchesOK'
      BY <2>1, <2>2, <2>6, NoneIsNoStore DEF StoresOK, Loaded, BatchesOK, WorksIf
    <3> QED
      BY <2>1, <2>4, <2>6, <3>1, BootKept DEF Boot
  <2> QED
    BY <2>3, <2>5, <2>6
<1> QED
  BY <1>1, <1>2, <1>3, <1>4 DEF Call

LEMMA SoundRest ==
    ASSUME Sound, List \/ Crash \/ Advance PROVE Sound'
<1> USE DEF Sound
<1>0. now \in Times /\ FALSE \in BOOLEAN
  BY Now
<1>1. CASE List
  <2>1. Loaded /\ mem \in JobStores
    BY <1>1 DEF List, StoresOK, Loaded
  <2>2. Maintain(mem, FALSE) \in JobStores
    BY <1>0, <2>1, Maintained
  <2>3. StoresOK' /\ Loaded'
    BY <1>1, <2>2, Persisted DEF List
  <2>4. RestOK' /\ BatchesOK' /\ UNCHANGED batch
    BY <1>1 DEF List, RestOK, BatchesOK, WorksIf, flows
  <2> QED
    BY <2>1, <2>3, <2>4, BootKept DEF Boot
<1>2. CASE Crash
  <2>1. Busy("clearing", {}) \in Batches /\ WorksIf(Busy("clearing", {})) /\ Busy("clearing", {}).stage = "clearing"
    BY BusyWorks, BatchIs DEF Stages
  <2>2. batch' = [f \in Flows |-> IF f = "catchup" THEN Busy("clearing", {}) ELSE Idle]
    BY <1>2 DEF Crash, Fresh
  <2>3. batch' \in [Flows -> Batches] /\ \A f \in Flows : WorksIf(batch'[f])
    BY <2>1, <2>2, IdleWorks
  <2>4. BatchesOK'
    BY <2>3 DEF BatchesOK, WorksIf
  <2>5. StoresOK' /\ RestOK' /\ ~Loaded' /\ ~armed'
    BY <1>2 DEF Crash, StoresOK, RestOK, Loaded
  <2>6. Boot'
    BY <2>1, <2>2, <2>5, BatchIs DEF Boot, Flows
  <2> QED
    BY <2>4, <2>5, <2>6
<1>3. CASE Advance
  <2>1. now' \in 1..MaxNow
    BY <1>3, Constants DEF Advance, RestOK
  <2>2. UNCHANGED <<stores, flows>>
    BY <1>3 DEF Advance
  <2> QED
    BY <2>1, <2>2 DEF stores, flows, StoresOK, RestOK, BatchesOK, WorksIf, Boot, Loaded
<1> QED
  BY <1>1, <1>2, <1>3

LEMMA SoundInit == Init => Sound
<1> SUFFICES ASSUME Init PROVE Sound
  OBVIOUS
<1>1. now = 1 /\ now \in Times
  BY Constants DEF Init, Times
<1>2. disk \in JobStores
  <2>1. PICK stored \in Stored : \E D \in SUBSET {j \in stored : Kind[j] = "at"} :
            disk = [j \in Jobs |-> IF j \in stored THEN NewJob(j, j \in D) ELSE Absent]
    BY DEF Init
  <2>2. PICK D \in SUBSET {j \in stored : Kind[j] = "at"} :
            disk = [j \in Jobs |-> IF j \in stored THEN NewJob(j, j \in D) ELSE Absent]
    BY <2>1
  <2>3. ASSUME NEW j \in Jobs PROVE NewJob(j, j \in D) \in JobStates
    <3>1. (j \in D) \in BOOLEAN
      OBVIOUS
    <3> QED
      BY <1>1, <3>1, NewJobIs
  <2> QED
    BY <2>2, <2>3, AbsentIs DEF JobStores
<1>3. Busy("clearing", {}) \in Batches /\ WorksIf(Busy("clearing", {})) /\ Busy("clearing", {}).stage = "clearing"
  BY BusyWorks, BatchIs DEF Stages
<1>4. batch = [f \in Flows |-> IF f = "catchup" THEN Busy("clearing", {}) ELSE Idle]
  BY DEF Init, Fresh
<1>5. BatchesOK
  BY <1>3, <1>4, IdleWorks DEF BatchesOK
<1>6. Boot
  BY <1>3, <1>4, BatchIs DEF Init, Boot, Flows, Loaded
<1>7. RestOK
  <2>1. now \in 1..MaxNow
    BY <1>1, Constants
  <2>2. attached \in BOOLEAN /\ armed \in BOOLEAN /\ interrupted \subseteq Jobs
    BY Zenon DEF Init
  <2> QED
    BY <2>1, <2>2 DEF RestOK
<1> QED
  BY <1>2, <1>5, <1>6, <1>7 DEF Init, StoresOK, Sound

LEMMA SoundNext == Sound /\ [Next]_vars => Sound'
<1> SUFFICES ASSUME Sound, [Next]_vars PROVE Sound'
  OBVIOUS
<1>1. CASE UNCHANGED vars
  BY <1>1 DEF vars, stores, flows, Sound, StoresOK, BatchesOK, WorksIf, RestOK, Boot, Loaded
<1>2. CASE Next
  BY <1>2, SoundStart, SoundTick, SoundExecute, SoundSettle, SoundCall, SoundRest DEF Next
<1> QED
  BY <1>1, <1>2

(* The state has its type, a flow has a batch exactly while it is at work,  *)
(* and nothing is at work before the store is loaded.                       *)
THEOREM CronTypes == Spec => [](TypeOK /\ Boot)
<1> DEFINE Inv == Sound /\ disturbed \subseteq Jobs
<1>1. Init => Inv
  BY SoundInit DEF Init
<1>2. Inv /\ [Next]_vars => Inv'
  <2>1. disturbed \subseteq Jobs /\ [Next]_vars => disturbed' \subseteq Jobs
    BY DEF Next, vars
  <2> QED
    BY <2>1, SoundNext
<1>3. Inv => TypeOK /\ Boot
  BY TypeParts DEF Sound
<1> QED
  BY <1>1, <1>2, <1>3, PTL DEF Spec

-----------------------------------------------------------------------------
(* The life of one job                                                      *)

(* A job as the operations leave it. *)
Plain(j, job) ==
    /\ Gone(job) => job = Absent
    /\ Ready(j, job) /\ Done(j, job) /\ (~job.enabled => job.next = None)
    /\ job.running # None => job.running <= now
    /\ job.lastRun # None => job.lastRun <= now
    /\ job.lastStatus = "ok" => job.lastRun # None

Begun(f, j) == batch[f].work[j].at \in {"live", "ended"}

(* Nothing has come between the job and its run. *)
Alone(j) ==
    /\ ~Excuse(j)
    /\ \A f, g \in Claims(j) : f = g
    /\ disk[j].running # None /\ mem[j].running # None /\ disk[j].running <= mem[j].running
    /\ \A f \in Flows : Begun(f, j) /\ disk[j].lastRun # None => disk[j].lastRun <= batch[f].work[j].started

JobInv(j) ==
    /\ Plain(j, disk[j])
    /\ Loaded => /\ Plain(j, mem[j]) /\ SameJob(mem[j], disk[j])
                 /\ disk[j].running # None \/ mem[j].running # None => Claims(j) # {}
    /\ \A f \in Flows : Begun(f, j) => batch[f].work[j].started <= now
    /\ Claims(j) # {} /\ j \notin disturbed => Alone(j)

Disturbs == disturbed' = {j \in Jobs : Claims(j)' # {} /\ (j \in disturbed \/ Excuse(j)')}

(* What a step may do to one job: leave it, but for repairs; mark it for a  *)
(* flow; settle what a flow has run; edit it; or load the store.            *)
SameClaims(j) ==
    \A f \in Flows :
        /\ batch'[f].work[j] = NoRun <=> batch[f].work[j] = NoRun
        /\ Begun(f, j)' => \/ batch'[f].work[j].started = now
                           \/ Begun(f, j) /\ batch'[f].work[j].started = batch[f].work[j].started
Fixed(j, a, b) == b = a \/ Repaired(j, a, b)
Remarked(j) == Claims(j) # {} /\ ~Gone(mem[j]) /\ mem'[j] = [mem[j] EXCEPT !.running = now]
Working == now' = now /\ Loaded /\ Loaded'

Left(j) ==
    /\ now' >= now
    /\ SameClaims(j)
    /\ \/ UNCHANGED <<disk, mem>>
       \/ /\ Working
          /\ \/ disk'[j] = mem'[j] /\ (Fixed(j, disk[j], disk'[j]) \/ Fixed(j, mem[j], disk'[j]))
             \/ disk'[j] = disk[j] /\ (Fixed(j, mem[j], mem'[j]) \/ Remarked(j))

MarkedFor(f, j) ==
    /\ Working
    /\ batch[f].work[j] = NoRun /\ batch'[f].work[j] \in {Waiting, Live(now)}
    /\ \A g \in Flows \ {f} : batch'[g].work[j] = batch[g].work[j]
    /\ \E a \in JobStates :
         /\ Fixed(j, disk[j], a) \/ Fixed(j, mem[j], a)
         /\ a.running = None /\ ~Gone(a)
         /\ disk'[j] = mem'[j] /\ disk'[j] \in JobStates
         /\ SameJob(a, disk'[j]) /\ disk'[j].running = now /\ disk'[j].next = a.next

SettledFor(f, j) ==
    /\ Working
    /\ batch[f].work[j].at = "ended" /\ batch'[f].work[j] = NoRun
    /\ \A g \in Flows \ {f} : batch'[g].work[j] = batch[g].work[j]
    /\ \/ UNCHANGED <<disk, mem>> /\ mem[j] = Absent
       \/ disk'[j] = mem'[j] /\ disk'[j] = Absent
       \/ /\ disk'[j] = mem'[j] /\ disk'[j] \in JobStates
          /\ disk'[j].running = None /\ disk'[j].lastRun = batch[f].work[j].started
          /\ disk'[j].lastStatus \in Statuses /\ Ready(j, disk'[j]) /\ Done(j, disk'[j])
          /\ ~disk'[j].enabled => disk'[j].next = None

Edited(j) ==
    /\ Working /\ UNCHANGED batch
    /\ disk'[j] = mem'[j] /\ disk'[j] \in JobStates
    /\ \/ disk'[j] = Absent
       \/ /\ Ready(j, disk'[j]) /\ Done(j, disk'[j]) /\ (~disk'[j].enabled => disk'[j].next = None)
          /\ ~Gone(disk'[j])
          /\ \/ /\ ~Gone(mem[j]) /\ disk'[j].lastRun = mem[j].lastRun /\ disk'[j].lastStatus = mem[j].lastStatus
                /\ disk'[j].running = IF disk'[j].enabled THEN mem[j].running ELSE None
             \/ /\ mem[j] = Absent /\ Claims(j) = {}
                /\ disk'[j].running = None /\ disk'[j].lastRun = None /\ disk'[j].lastStatus = "none"

Rebooted(j) ==
    /\ now' = now
    /\ \A f \in Flows : batch'[f].work[j] = NoRun
    /\ \/ disk' = disk /\ mem' = None
       \/ disk'[j] = mem'[j] /\ disk'[j] = [disk[j] EXCEPT !.running = None]

-----------------------------------------------------------------------------
LEMMA StillUndisturbed ==
    ASSUME Disturbs, NEW j \in Jobs, Claims(j)' # {}, j \notin disturbed'
    PROVE  j \notin disturbed /\ ~Excuse(j)'
BY DEF Disturbs

LEMMA PlainFixed ==
    ASSUME NEW j \in Jobs, NEW a \in JobStates, Plain(j, a), NEW b, Fixed(j, a, b)
    PROVE  Plain(j, b) /\ b \in JobStates /\ SameJob(a, b)
<1>1. CASE b = a
  BY <1>1 DEF SameJob
<1>2. CASE Repaired(j, a, b)
  <2>1. b \in JobStates /\ SameJob(a, b) /\ (Served(j, b) <=> Served(j, a))
    BY <1>2 DEF Repaired, SameJob, Served
  <2>2. Gone(b) => b = Absent
    BY <1>2, <2>1, GoneStays DEF Plain, Gone, SameJob
  <2>3. Ready(j, b) /\ Done(j, b) /\ (~b.enabled => b.next = None)
    BY <1>2, <2>1 DEF Plain, Repaired, Ready, Done, SameJob
  <2> QED
    BY <1>2, <2>1, <2>2, <2>3 DEF Plain, Repaired, SameJob
<1> QED
  BY <1>1, <1>2 DEF Fixed

LEMMA Numbers ==
    ASSUME NEW a \in JobStates
    PROVE  /\ a.running # None => a.running \in Nat
           /\ a.next # None => a.next \in Nat
           /\ a.lastRun # None => a.lastRun \in Nat
BY Constants DEF JobStates, Moments

LEMMA JobTypes ==
    ASSUME Sound, NEW j \in Jobs
    PROVE  /\ disk[j] \in JobStates /\ (Loaded => mem[j] \in JobStates)
           /\ now \in Times /\ now \in Nat
           /\ \A f \in Flows : batch[f].work[j] \in Works
BY Now DEF Sound, StoresOK, BatchesOK, JobStores, Loaded, Batches

LEMMA ClaimsSame == ASSUME NEW j \in Jobs, SameClaims(j) PROVE Claims(j)' = Claims(j)
BY DEF SameClaims, Claims

(* The marker of a run that nothing has come between is not repaired away.  *)
LEMMA AloneKeepsMarker ==
    ASSUME Sound, NEW j \in Jobs, Alone(j), SameJob(mem[j], disk[j]), Loaded,
           NEW a \in {disk[j], mem[j]}, NEW b, Fixed(j, a, b)
    PROVE  a.enabled /\ ~Stuck(a) /\ b.running = a.running
<1>1. disk[j].enabled /\ mem[j].enabled /\ ~Stuck(disk[j])
  BY DEF Alone, Excuse, SameJob
<1>2. ~Stuck(mem[j])
  <2>1. /\ disk[j].running \in Nat /\ mem[j].running \in Nat /\ disk[j].running <= mem[j].running
        /\ now \in Nat /\ StuckAfter \in Nat /\ disk[j].running # None
    BY JobTypes, Numbers, Constants DEF Alone
  <2> QED
    BY <1>1, <2>1 DEF Stuck
<1> QED
  BY <1>1, <1>2 DEF Fixed, Repaired

LEMMA LeftKeeps ==
    ASSUME Sound, Sound', NEW j \in Jobs, JobInv(j), Disturbs, Left(j)
    PROVE  JobInv(j)'
<1>0. /\ disk[j] \in JobStates /\ disk'[j] \in JobStates /\ now \in Nat /\ now' \in Nat /\ now' >= now
      /\ (Loaded => mem[j] \in JobStates) /\ (Loaded' => mem'[j] \in JobStates)
      /\ Claims(j)' = Claims(j)
  <2>1. Claims(j)' = Claims(j)
    BY ClaimsSame DEF Left
  <2>2. disk'[j] \in JobStates /\ (Loaded' => mem'[j] \in JobStates) /\ now' \in Nat
    BY Constants DEF Sound, StoresOK, JobStores, Loaded, RestOK
  <2> QED
    BY <2>1, <2>2, JobTypes DEF Left
<1>1. \A f \in Flows : Begun(f, j)' => batch'[f].work[j].started <= now'
  <2> SUFFICES ASSUME NEW f \in Flows, Begun(f, j)' PROVE batch'[f].work[j].started <= now'
    OBVIOUS
  <2>1. Begun(f, j) => batch[f].work[j].started <= now /\ batch[f].work[j].started \in Nat
    BY JobTypes, WorkKinds, Constants DEF JobInv, Begun
  <2> QED
    BY <1>0, <2>1 DEF Left, SameClaims
<1>2. Plain(j, disk[j]) /\ (Loaded => Plain(j, mem[j]) /\ SameJob(mem[j], disk[j]))
  BY DEF JobInv
<1>3. CASE UNCHANGED <<disk, mem>>
  <2>1. Plain(j, disk[j])' /\ (Loaded' => Plain(j, mem[j])')
    <3>1. ASSUME NEW x \in JobStates, Plain(j, x)
          PROVE  /\ x.running # None => x.running <= now'
                 /\ x.lastRun # None => x.lastRun <= now'
      BY <1>0, <3>1, Numbers DEF Plain
    <3>2. Plain(j, disk[j])'
      BY <1>0, <1>2, <1>3, <3>1 DEF Plain, Gone, Ready, Done, Served
    <3>3. Loaded' => Plain(j, mem[j])'
      BY <1>0, <1>2, <1>3, <3>1 DEF Plain, Gone, Ready, Done, Served, Loaded
    <3> QED
      BY <3>2, <3>3
  <2>2. ASSUME Claims(j)' # {}, j \notin disturbed' PROVE Alone(j)'
    <3>1. Alone(j) /\ ~Excuse(j)'
      BY <1>0, <2>2, StillUndisturbed DEF JobInv
    <3>2. ASSUME NEW f \in Flows, Begun(f, j)', disk'[j].lastRun # None
          PROVE  disk'[j].lastRun <= batch'[f].work[j].started
      BY <1>2, <1>3, <3>1, <3>2 DEF Alone, Left, SameClaims, Plain
    <3> QED
      BY <1>0, <1>3, <3>1, <3>2 DEF Alone
  <2> QED
    BY <1>0, <1>1, <1>2, <1>3, <2>1, <2>2 DEF JobInv, Loaded
<1>4. CASE /\ Working
           /\ disk'[j] = mem'[j] /\ (Fixed(j, disk[j], disk'[j]) \/ Fixed(j, mem[j], disk'[j]))
  <2>1. PICK a \in {disk[j], mem[j]} : Fixed(j, a, disk'[j])
    BY <1>4
  <2>2. Plain(j, a) /\ a \in JobStates /\ SameJob(a, disk[j])
    BY <1>0, <1>2, <1>4 DEF SameJob, Working
  <2>3. Plain(j, disk'[j]) /\ SameJob(a, disk'[j])
    BY <2>1, <2>2, PlainFixed
  <2>4. Plain(j, disk[j])' /\ Plain(j, mem[j])' /\ SameJob(mem[j], disk[j])'
    BY <1>4, <2>3 DEF Plain, Working, SameJob, Gone, Ready, Done, Served
  <2>5. disk'[j].running # None => Claims(j)' # {}
    BY <1>0, <1>4, <2>1 DEF Fixed, Repaired, JobInv, Working
  <2>6. ASSUME Claims(j)' # {}, j \notin disturbed' PROVE Alone(j)'
    <3>1. Alone(j) /\ ~Excuse(j)'
      BY <1>0, <2>6, StillUndisturbed DEF JobInv
    <3>2. disk'[j].running = a.running /\ a.running # None
      BY <1>2, <1>4, <2>1, <3>1, AloneKeepsMarker DEF Alone, Working
    <3>3. disk'[j].lastRun = disk[j].lastRun
      BY <2>2, <2>3 DEF SameJob
    <3>4. ASSUME NEW f \in Flows, Begun(f, j)', disk'[j].lastRun # None
          PROVE  disk'[j].lastRun <= batch'[f].work[j].started
      BY <1>2, <3>1, <3>3, <3>4 DEF Alone, Left, SameClaims, Plain
    <3>5. disk'[j].running <= mem'[j].running
      BY <1>0, <1>4, <3>2, Numbers
    <3> QED
      BY <1>0, <1>4, <3>1, <3>2, <3>4, <3>5 DEF Alone
  <2> QED
    BY <1>1, <1>4, <2>4, <2>5, <2>6 DEF JobInv
<1>5. CASE Working /\ disk'[j] = disk[j] /\ (Fixed(j, mem[j], mem'[j]) \/ Remarked(j))
  <2>1. Plain(j, mem'[j]) /\ SameJob(mem[j], mem'[j])
    <3>1. CASE Fixed(j, mem[j], mem'[j])
      BY <1>0, <1>2, <1>5, <3>1, PlainFixed DEF Working
    <3>2. CASE Remarked(j)
      <4>1. /\ SameJob(mem[j], mem'[j]) /\ mem'[j].next = mem[j].next /\ mem'[j].running = now
            /\ ~Gone(mem'[j])
        BY <1>0, <1>5, <3>2 DEF Remarked, JobStates, SameJob, Working, Gone
      <4> QED
        BY <1>0, <1>2, <1>5, <4>1 DEF Plain, SameJob, Ready, Done, Served, Working
    <3> QED
      BY <1>5, <3>1, <3>2
  <2>2. Plain(j, disk[j])' /\ Plain(j, mem[j])' /\ SameJob(mem[j], disk[j])'
    BY <1>2, <1>5, <2>1 DEF Plain, Working, SameJob, Gone, Ready, Done, Served
  <2>3. disk'[j].running # None \/ mem'[j].running # None => Claims(j)' # {}
    BY <1>0, <1>5 DEF Fixed, Repaired, Remarked, JobInv, Working
  <2>4. ASSUME Claims(j)' # {}, j \notin disturbed' PROVE Alone(j)'
    <3>1. Alone(j) /\ ~Excuse(j)'
      BY <1>0, <2>4, StillUndisturbed DEF JobInv
    <3>2. mem'[j].running # None /\ disk[j].running <= mem'[j].running
      <4>1. CASE Fixed(j, mem[j], mem'[j])
        BY <1>2, <1>5, <3>1, <4>1, AloneKeepsMarker DEF Alone, Working
      <4>2. CASE Remarked(j)
        <5>1. mem'[j].running = now
          BY <1>0, <1>5, <4>2 DEF Remarked, JobStates, Working
        <5> QED
          BY <1>0, <1>2, <3>1, <5>1, Constants DEF Alone, Plain
      <4> QED
        BY <1>5, <4>1, <4>2
    <3>4. ASSUME NEW f \in Flows, Begun(f, j)', disk'[j].lastRun # None
          PROVE  disk'[j].lastRun <= batch'[f].work[j].started
      BY <1>2, <1>5, <3>1, <3>4 DEF Alone, Left, SameClaims, Plain
    <3> QED
      BY <1>0, <1>5, <3>1, <3>2, <3>4 DEF Alone
  <2> QED
    BY <1>1, <1>5, <2>2, <2>3, <2>4 DEF JobInv
<1> QED
  BY <1>3, <1>4, <1>5 DEF Left

(* Where one flow's work on the job changes, the others' stays. *)
LEMMA OthersBegun ==
    ASSUME Sound, NEW f \in Flows, NEW j \in Jobs, JobInv(j),
           \A g \in Flows \ {f} : batch'[g].work[j] = batch[g].work[j],
           NEW g \in Flows \ {f}, Begun(g, j)', now' = now
    PROVE  batch'[g].work[j].started <= now'
BY DEF Begun, JobInv

LEMMA MarkedKeeps ==
    ASSUME Sound, Sound', NEW f \in Flows, NEW j \in Jobs, JobInv(j), Disturbs, MarkedFor(f, j)
    PROVE  JobInv(j)'
<1>0. /\ disk[j] \in JobStates /\ mem[j] \in JobStates /\ now \in Times /\ now \in Nat /\ now' = now
      /\ Loaded /\ Loaded'
  BY JobTypes DEF MarkedFor, Working
<1>1. PICK a \in JobStates :
         /\ Fixed(j, disk[j], a) \/ Fixed(j, mem[j], a)
         /\ a.running = None /\ ~Gone(a)
         /\ disk'[j] = mem'[j] /\ disk'[j] \in JobStates
         /\ SameJob(a, disk'[j]) /\ disk'[j].running = now /\ disk'[j].next = a.next
  BY DEF MarkedFor
<1>2. PICK x \in {disk[j], mem[j]} : Fixed(j, x, a)
  BY <1>1
<1>3. Plain(j, disk[j]) /\ Plain(j, mem[j]) /\ SameJob(mem[j], disk[j])
  BY <1>0 DEF JobInv
<1>4. Plain(j, a) /\ SameJob(disk[j], a)
  BY <1>0, <1>2, <1>3, PlainFixed DEF SameJob
<1>5. Plain(j, disk'[j])
  <2>1. Ready(j, disk'[j]) /\ Done(j, disk'[j]) /\ (~disk'[j].enabled => disk'[j].next = None)
    BY <1>1, <1>4 DEF Plain, SameJob, Ready, Done, Served
  <2>2. disk'[j].lastRun # None => disk'[j].lastRun <= now
    BY <1>1, <1>4 DEF Plain, SameJob
  <2>3. disk'[j].running <= now
    BY <1>0, <1>1
  <2>4. ~Gone(disk'[j]) /\ (disk'[j].lastStatus = "ok" => disk'[j].lastRun # None)
    BY <1>1, <1>4 DEF Plain, SameJob, Gone
  <2> QED
    BY <2>1, <2>2, <2>3, <2>4 DEF Plain
<1>6. Plain(j, disk[j])' /\ Plain(j, mem[j])' /\ SameJob(mem[j], disk[j])'
  BY <1>0, <1>1, <1>5 DEF Plain, SameJob, Gone, Ready, Done, Served
<1>7. f \in Claims(j)' /\ Claims(j)' = Claims(j) \union {f}
  BY <1>0, WorkIs DEF MarkedFor, Claims
<1>8. Begun(f, j)' => batch'[f].work[j].started = now
  BY <1>0, WorkIs DEF MarkedFor, Begun
<1>9. \A g \in Flows : Begun(g, j)' => batch'[g].work[j].started <= now'
  BY <1>0, <1>8, OthersBegun DEF MarkedFor
<1>10. ASSUME j \notin disturbed' PROVE Alone(j)'
  <2>1. ~Excuse(j)' /\ j \notin disturbed
    BY <1>7, <1>10, StillUndisturbed
  <2>2. Claims(j) = {}
    <3> SUFFICES ASSUME Claims(j) # {} PROVE FALSE
      OBVIOUS
    <3>1. Alone(j)
      BY <2>1 DEF JobInv
    <3>2. a.running = x.running /\ x.running # None
      BY <1>0, <1>2, <1>3, <3>1, AloneKeepsMarker DEF Alone
    <3> QED
      BY <1>1, <3>2
  <2>3. \A g, h \in Claims(j)' : g = h
    BY <1>7, <2>2
  <2>4. disk'[j].running # None /\ mem'[j].running # None /\ disk'[j].running <= mem'[j].running
    BY <1>0, <1>1, Constants
  <2>5. ASSUME NEW g \in Flows, Begun(g, j)', disk'[j].lastRun # None
        PROVE  disk'[j].lastRun <= batch'[g].work[j].started
    <3>1. g = f
      BY <2>3, <1>7, <2>5, WorkIs DEF Begun, Claims
    <3> QED
      BY <1>5, <1>8, <2>5, <3>1 DEF Plain
  <2> QED
    BY <2>1, <2>3, <2>4, <2>5 DEF Alone
<1> QED
  BY <1>6, <1>7, <1>9, <1>10 DEF JobInv

LEMMA SettledKeeps ==
    ASSUME Sound, Sound', NEW f \in Flows, NEW j \in Jobs, JobInv(j), Disturbs, SettledFor(f, j)
    PROVE  JobInv(j)'
<1>0. /\ disk[j] \in JobStates /\ mem[j] \in JobStates /\ now \in Times /\ now \in Nat /\ now' = now
      /\ Loaded /\ Loaded'
  BY JobTypes DEF SettledFor, Working
<1>1. Plain(j, disk[j]) /\ Plain(j, mem[j]) /\ SameJob(mem[j], disk[j])
  BY <1>0 DEF JobInv
<1>2. f \in Claims(j) /\ Claims(j)' = Claims(j) \ {f} /\ Begun(f, j)
  BY WorkIs DEF SettledFor, Claims, Begun
<1>3. Plain(j, disk[j])' /\ Plain(j, mem[j])' /\ SameJob(mem[j], disk[j])'
      /\ disk'[j].running = None /\ mem'[j].running = None
  <2>1. CASE UNCHANGED <<disk, mem>> /\ mem[j] = Absent
    <3>1. disk[j] = Absent
      BY <1>1, <2>1 DEF Plain, SameJob, Gone, Absent
    <3> QED
      BY <1>0, <1>1, <2>1, <3>1, AbsentIs DEF Plain, Gone, Ready, Done, Served, SameJob
  <2>2. CASE disk'[j] = mem'[j] /\ disk'[j] = Absent
    BY <2>2, AbsentIs DEF Plain, Gone, Ready, Done, Served, SameJob, Absent
  <2>3. CASE /\ disk'[j] = mem'[j] /\ disk'[j] \in JobStates
             /\ disk'[j].running = None /\ disk'[j].lastRun = batch[f].work[j].started
             /\ disk'[j].lastStatus \in Statuses /\ Ready(j, disk'[j]) /\ Done(j, disk'[j])
             /\ ~disk'[j].enabled => disk'[j].next = None
    <3>1. batch[f].work[j].started <= now' /\ batch[f].work[j].started # None
      BY <1>0, <1>2, JobTypes, WorkKinds, Constants DEF JobInv, Begun
    <3>2. ~Gone(disk'[j])
      BY <2>3 DEF Gone, Statuses
    <3> QED
      BY <1>0, <2>3, <3>1, <3>2 DEF Plain, Gone, Ready, Done, Served, SameJob
  <2> QED
    BY <2>1, <2>2, <2>3 DEF SettledFor
<1>4. ~Begun(f, j)'
  BY WorkIs DEF SettledFor, Begun
<1>5. \A g \in Flows : Begun(g, j)' => batch'[g].work[j].started <= now'
  BY <1>0, <1>4, OthersBegun DEF SettledFor
<1>6. ASSUME Claims(j)' # {}, j \notin disturbed' PROVE FALSE
  <2>1. j \notin disturbed
    BY <1>6, StillUndisturbed
  <2>2. Alone(j)
    BY <1>2, <2>1 DEF JobInv
  <2> QED
    BY <1>2, <1>6, <2>2 DEF Alone
<1> QED
  BY <1>3, <1>5, <1>6 DEF JobInv

LEMMA EditedKeeps ==
    ASSUME Sound, Sound', NEW j \in Jobs, JobInv(j), Disturbs, Edited(j)
    PROVE  JobInv(j)'
<1>0. /\ disk[j] \in JobStates /\ mem[j] \in JobStates /\ now \in Nat /\ now' = now
      /\ Loaded /\ Loaded' /\ disk'[j] = mem'[j] /\ disk'[j] \in JobStates
  BY JobTypes DEF Edited, Working
<1>1. Plain(j, mem[j]) /\ SameJob(mem[j], disk[j])
  BY <1>0 DEF JobInv
<1>2. Claims(j)' = Claims(j) /\ \A f \in Flows : Begun(f, j)' = Begun(f, j)
  BY DEF Edited, Claims, Begun
<1>3. Plain(j, disk'[j])
  <2>1. CASE disk'[j] = Absent
    BY <2>1, AbsentIs DEF Plain, Gone, Ready, Done, Served, Absent
  <2>2. CASE disk'[j] # Absent
    BY <1>0, <1>1, <2>2 DEF Edited, Plain
  <2> QED
    BY <2>1, <2>2
<1>4. Plain(j, disk[j])' /\ Plain(j, mem[j])' /\ SameJob(mem[j], disk[j])'
  BY <1>0, <1>3 DEF Plain, SameJob, Gone, Ready, Done, Served
<1>5. disk'[j].running # None => Claims(j)' # {}
  BY <1>0, <1>2, AbsentIs DEF Edited, JobInv
<1>6. ASSUME Claims(j)' # {}, j \notin disturbed' PROVE Alone(j)'
  <2>1. Alone(j) /\ ~Excuse(j)'
    BY <1>2, <1>6, StillUndisturbed DEF JobInv
  <2>2. disk'[j].enabled
    BY <2>1 DEF Excuse
  <2>3. disk'[j].lastRun = mem[j].lastRun /\ disk'[j].running = mem[j].running
    BY <1>2, <1>6, <2>2, AbsentIs DEF Edited
  <2>4. disk'[j].running <= mem'[j].running
    BY <1>0, <2>1, <2>3, Numbers DEF Alone
  <2>5. UNCHANGED batch
    BY DEF Edited
  <2> QED
    BY <1>0, <1>1, <1>2, <2>1, <2>3, <2>4, <2>5 DEF Alone, SameJob
<1> QED
  BY <1>0, <1>2, <1>4, <1>5, <1>6 DEF JobInv, Edited

LEMMA RebootedKeeps ==
    ASSUME Sound, Sound', NEW j \in Jobs, JobInv(j), Disturbs, Rebooted(j)
    PROVE  JobInv(j)'
<1>1. Claims(j)' = {} /\ \A f \in Flows : ~Begun(f, j)'
  BY WorkIs DEF Rebooted, Claims, Begun
<1>2. disk[j] \in JobStates /\ Plain(j, disk[j]) /\ now' = now
  BY JobTypes DEF JobInv, Rebooted
<1>3. CASE disk' = disk /\ mem' = None
  <2>1. Plain(j, disk[j])'
    BY <1>2, <1>3 DEF Plain, Gone, Ready, Done, Served
  <2> QED
    BY <1>1, <1>3, <2>1 DEF JobInv, Loaded
<1>4. CASE disk'[j] = mem'[j] /\ disk'[j] = [disk[j] EXCEPT !.running = None]
  <2>1. SameJob(disk[j], disk'[j]) /\ disk'[j].running = None /\ disk'[j].next = disk[j].next
    BY <1>2, <1>4 DEF JobStates, SameJob
  <2>2. Gone(disk'[j]) => disk'[j] = Absent
    BY <1>2, <1>4, <2>1 DEF Plain, Gone, SameJob, Absent
  <2>3. Plain(j, disk[j])' /\ Plain(j, mem[j])' /\ SameJob(mem[j], disk[j])'
    BY <1>2, <1>4, <2>1, <2>2 DEF Plain, SameJob, Gone, Ready, Done, Served
  <2> QED
    BY <1>1, <1>4, <2>1, <2>3 DEF JobInv
<1> QED
  BY <1>3, <1>4 DEF Rebooted

-----------------------------------------------------------------------------
(* What each step does to a job                                             *)

(* A one-shot job that has succeeded has not come due again. *)
Wanted(j) == Kind[j] = "at" => disk[j].lastStatus # "ok" \/ disk[j].lastRun < At[j]

LEMMA NoWork ==
    ASSUME Sound, NEW f \in Flows, batch[f].stage # "working"
    PROVE  \A j \in Jobs : batch[f].work[j] = NoRun
BY DEF Sound, BatchesOK, WorksIf

LEMMA FlowSame ==
    ASSUME Sound, NEW f \in Flows, NEW j \in Jobs, \A g \in Flows \ {f} : batch'[g] = batch[g],
           batch'[f].work[j] = batch[f].work[j]
    PROVE  SameClaims(j)
BY DEF SameClaims, Begun

LEMMA Batch ==
    ASSUME Sound, NEW f \in Flows, NEW b, SetBatch(f, b)
    PROVE  batch'[f] = b /\ \A g \in Flows \ {f} : batch'[g] = batch[g]
BY DEF Sound, BatchesOK, SetBatch

(* A job that is due has not succeeded before. *)
LEMMA DueIsWanted ==
    ASSUME Sound, NEW j \in Jobs, JobInv(j), NEW a \in JobStates, SameJob(a, disk[j]), Plain(j, a),
           Due(a) \/ Missed(j, a)
    PROVE  Wanted(j) /\ a.running = None /\ a.enabled /\ ~Gone(a)
<1>1. a.running = None /\ a.enabled /\ ~Gone(a)
  BY AbsentIs DEF Due, Missed, Plain
<1>2. ASSUME Kind[j] = "at", a.lastStatus = "ok" PROVE a.lastRun < At[j]
  <2>1. Due(a)
    BY <1>2 DEF Missed, Errors
  <2>2. ~Served(j, a)
    BY <2>1 DEF Due, Plain, Done
  <2>3. a.lastRun \in Nat /\ At[j] \in Nat
    BY <1>2, Numbers, CronAssumption DEF Plain, CronAssumption
  <2> QED
    BY <1>2, <2>2, <2>3 DEF Served
<1> QED
  BY <1>1, <1>2 DEF Wanted, SameJob

LEMMA MarkedBy ==
    ASSUME Sound, Sound', NEW f \in Flows, NEW j \in Jobs, Working,
           NEW store \in JobStores, NEW S \in SUBSET Jobs, Persist(Mark(store, S)), j \in S,
           Fixed(j, disk[j], store[j]) \/ Fixed(j, mem[j], store[j]),
           store[j].running = None, ~Gone(store[j]),
           NEW b, SetBatch(f, b), b.work[j] \in {Waiting, Live(now)}, batch[f].work[j] = NoRun
    PROVE  MarkedFor(f, j)
<1>1. store[j] \in JobStates /\ now \in Times
  BY Now DEF JobStores, Sound
<1>2. /\ disk'[j] = mem'[j] /\ SameJob(store[j], disk'[j])
      /\ disk'[j].running = now /\ disk'[j].next = store[j].next /\ disk'[j] \in JobStates
  <2>1. /\ Mark(store, S) \in JobStores /\ SameJob(store[j], Mark(store, S)[j])
        /\ Mark(store, S)[j].running = now /\ Mark(store, S)[j].next = store[j].next
    BY <1>1, MarkIs
  <2> QED
    BY <2>1 DEF Persist, JobStores
<1>3. batch'[f].work[j] = b.work[j] /\ \A g \in Flows \ {f} : batch'[g].work[j] = batch[g].work[j]
  BY Batch
<1> QED
  BY <1>1, <1>2, <1>3 DEF MarkedFor

LEMMA StartClass ==
    ASSUME Sound, Sound', NEW j \in Jobs, JobInv(j), Start
    PROVE  Left(j) \/ Rebooted(j) \/ (MarkedFor("catchup", j) /\ Wanted(j))
<1>0. now \in Times /\ now \in Nat /\ "catchup" \in Flows
  BY JobTypes DEF Flows
<1>1. CASE ClearMarkers
  <2>1. ~Loaded /\ \A f \in Flows \ {"catchup"} : batch[f].stage = "idle"
    BY <1>1 DEF ClearMarkers, Sound, Boot, Flows
  <2>2. batch'["catchup"] = Busy("collecting", {}) /\ \A f \in Flows \ {"catchup"} : batch'[f] = batch[f]
    BY <1>0, <1>1, Batch DEF ClearMarkers
  <2>3. \A f \in Flows : batch'[f].work[j] = NoRun
    BY <2>1, <2>2, NoWork, BatchIs DEF Stages
  <2>4. disk'[j] = mem'[j] /\ disk'[j] = [disk[j] EXCEPT !.running = None] /\ now' = now
    BY <1>1 DEF ClearMarkers, Persist
  <2> QED
    BY <2>3, <2>4 DEF Rebooted
<1>2. CASE CollectMissed
  <2> DEFINE missed == {k \in Jobs \ interrupted : Missed(k, mem[k])}
  <2>1. Loaded /\ mem \in JobStores /\ mem[j] \in JobStates /\ now' = now /\ batch["catchup"].work[j] = NoRun
    BY <1>0, <1>2, NoWork, JobTypes DEF CollectMissed, Sound, Boot, StoresOK, Loaded
  <2>2. Plain(j, mem[j]) /\ SameJob(mem[j], disk[j])
    BY <2>1 DEF JobInv
  <2>3. CASE missed = {}
    <3>1. SetBatch("catchup", Busy("finishing", {})) /\ UNCHANGED <<mem, disk>>
      BY <1>2, <2>3 DEF CollectMissed
    <3>2. SameClaims(j)
      BY <1>0, <2>1, <3>1, Batch, FlowSame, BatchIs DEF Stages
    <3> QED
      BY <1>0, <2>1, <3>1, <3>2 DEF Left
  <2>4. CASE missed # {}
    <3>1. SetBatch("catchup", Busy("working", missed)) /\ Persist(Mark(mem, missed))
      BY <1>2, <2>4 DEF CollectMissed
    <3>2. missed \in SUBSET Jobs /\ (j \in missed => Missed(j, mem[j]))
      OBVIOUS
    <3> HIDE DEF missed
    <3>3. Busy("working", missed).work[j] = IF j \in missed THEN Waiting ELSE NoRun
      BY <3>2, BatchIs DEF Stages
    <3>4. Working
      BY <1>0, <2>1, <3>1, <3>2, MarkIs, Persisted DEF Working
    <3>5. CASE j \in missed
      <4>1. Wanted(j) /\ mem[j].running = None /\ ~Gone(mem[j])
        BY <2>1, <2>2, <3>2, <3>5, DueIsWanted
      <4>2. Fixed(j, mem[j], mem[j])
        BY DEF Fixed
      <4> QED
        BY <1>0, <2>1, <3>1, <3>2, <3>3, <3>4, <3>5, <4>1, <4>2, MarkedBy
    <3>6. CASE j \notin missed
      <4>1. SameClaims(j)
        BY <1>0, <2>1, <3>1, <3>3, <3>6, Batch, FlowSame
      <4>2. disk'[j] = mem[j] /\ mem'[j] = mem[j]
        BY <3>1, <3>6 DEF Persist, Mark
      <4> QED
        BY <1>0, <2>1, <3>4, <4>1, <4>2 DEF Left, Fixed
    <3> QED
      BY <3>5, <3>6
  <2> QED
    BY <2>3, <2>4
<1>3. CASE FinishStart
  <2>1. disk \in JobStores /\ Loaded /\ now' = now /\ batch["catchup"].work[j] = NoRun
    BY <1>0, <1>3, NoWork DEF FinishStart, Sound, Boot, StoresOK
  <2>2. Persist(Recompute(disk)) /\ SetBatch("catchup", Idle)
    BY <1>3 DEF FinishStart
  <2>3. SameClaims(j)
    BY <1>0, <2>1, <2>2, Batch, FlowSame, BatchIs
  <2>4. Repaired(j, disk[j], Recompute(disk)[j]) /\ Recompute(disk) \in JobStores
    BY <1>0, <2>1, Recomputed
  <2>5. disk'[j] = mem'[j] /\ Fixed(j, disk[j], disk'[j]) /\ Loaded'
    BY <2>2, <2>4, Persisted DEF Fixed
  <2> QED
    BY <1>0, <2>1, <2>3, <2>5 DEF Left, Working
<1> QED
  BY <1>1, <1>2, <1>3 DEF Start

LEMMA TickClass ==
    ASSUME Sound, Sound', NEW j \in Jobs, JobInv(j), Tick
    PROVE  Left(j) \/ (MarkedFor("tick", j) /\ Wanted(j))
<1>0. now \in Times /\ now \in Nat /\ "tick" \in Flows /\ TRUE \in BOOLEAN
  BY JobTypes DEF Flows
<1>1. CASE OnTimer
  <2>1. batch["tick"].work[j] = NoRun /\ UNCHANGED <<now, disk, mem>> /\ SetBatch("tick", Busy("collecting", {}))
    BY <1>0, <1>1, NoWork DEF OnTimer, stores
  <2>2. SameClaims(j)
    BY <1>0, <2>1, Batch, FlowSame, BatchIs DEF Stages
  <2> QED
    BY <1>0, <2>1, <2>2 DEF Left
<1>2. CASE CollectDue
  <2> DEFINE due == {k \in Jobs : Due(disk[k])}
             kept == Maintain(disk, TRUE)
  <2>1. /\ Loaded /\ disk \in JobStores /\ disk[j] \in JobStates /\ now' = now
        /\ batch["tick"].work[j] = NoRun
    BY <1>0, <1>2, NoWork, JobTypes DEF CollectDue, Sound, Boot, StoresOK
  <2>2. kept \in JobStores /\ Repaired(j, disk[j], kept[j])
    BY <1>0, <2>1, Maintained
  <2>3. CASE due = {}
    <3>1. Persist(kept) /\ SetBatch("tick", Idle)
      BY <1>2, <2>3 DEF CollectDue
    <3> HIDE DEF kept
    <3>2. SameClaims(j)
      BY <1>0, <2>1, <3>1, Batch, FlowSame, BatchIs
    <3>3. disk'[j] = mem'[j] /\ Fixed(j, disk[j], disk'[j]) /\ Loaded'
      BY <2>2, <3>1, Persisted DEF Fixed
    <3> QED
      BY <1>0, <2>1, <3>2, <3>3 DEF Left, Working
  <2>4. CASE due # {}
    <3>1. SetBatch("tick", Busy("working", due)) /\ Persist(Mark(disk, due))
      BY <1>2, <2>4 DEF CollectDue
    <3>2. due \in SUBSET Jobs /\ (j \in due => Due(disk[j]))
      OBVIOUS
    <3> HIDE DEF due
    <3>3. Busy("working", due).work[j] = IF j \in due THEN Waiting ELSE NoRun
      BY <3>2, BatchIs DEF Stages
    <3>4. Working
      BY <1>0, <2>1, <3>1, <3>2, MarkIs, Persisted DEF Working
    <3>5. CASE j \in due
      <4>1. Wanted(j) /\ disk[j].running = None /\ ~Gone(disk[j])
        BY <2>1, <3>2, <3>5, DueIsWanted DEF JobInv, SameJob
      <4>2. Fixed(j, disk[j], disk[j])
        BY DEF Fixed
      <4> QED
        BY <1>0, <2>1, <3>1, <3>2, <3>3, <3>4, <3>5, <4>1, <4>2, MarkedBy
    <3>6. CASE j \notin due
      <4>1. SameClaims(j)
        BY <1>0, <2>1, <3>1, <3>3, <3>6, Batch, FlowSame
      <4>2. disk'[j] = disk[j] /\ mem'[j] = disk[j]
        BY <3>1, <3>6 DEF Persist, Mark
      <4> QED
        BY <1>0, <2>1, <3>4, <4>1, <4>2 DEF Left, Fixed
    <3> QED
      BY <3>5, <3>6
  <2> QED
    BY <2>3, <2>4
<1> QED
  BY <1>1, <1>2 DEF Tick

LEMMA ExecuteClass ==
    ASSUME Sound, Sound', NEW j \in Jobs, JobInv(j), Execute
    PROVE  Left(j)
<1>0. now \in Times /\ now \in Nat
  BY JobTypes
<1>1. ASSUME NEW f \in Flows, NEW k \in Jobs, StartJob(f, k) PROVE Left(j)
  <2>1. batch[f].work[k] # NoRun /\ Live(now) \in Works /\ Live(now) # NoRun
        /\ Live(now).at = "live" /\ Live(now).started = now
    BY <1>0, <1>1, WorkIs DEF StartJob
  <2>2. /\ \A g \in Flows \ {f} : batch'[g] = batch[g]
        /\ batch'[f].work[k] = Live(now)
        /\ \A i \in Jobs \ {k} : batch'[f].work[i] = batch[f].work[i]
    BY <1>1, <2>1, WorkSet DEF StartJob
  <2>3. SameClaims(j)
    <3>1. CASE j = k
      BY <2>1, <2>2, <3>1 DEF SameClaims, Begun
    <3>2. CASE j # k
      BY <2>2, <3>2, FlowSame
    <3> QED
      BY <3>1, <3>2
  <2>4. Loaded /\ mem \in JobStores /\ disk' = disk /\ now' = now
    BY <1>1, <2>1, WorkLoaded DEF StartJob
  <2>5. CASE mem' = mem
    BY <1>0, <2>3, <2>4, <2>5 DEF Left
  <2>6. CASE Has(mem, k) /\ mem' = [mem EXCEPT ![k].running = now]
    <3>1. Loaded'
      <4>1. [mem EXCEPT ![k].running = now] \in JobStores
        BY <1>0, <2>4 DEF JobStores, JobStates, Moments
      <4> QED
        BY <2>6, <4>1, NoneIsNoStore DEF Loaded
    <3>2. CASE j = k
      <4>1. ~Gone(mem[j])
        BY <2>4, <2>6, <3>2 DEF JobInv, Plain, Has
      <4>2. f \in Claims(j)
        BY <2>1, <3>2 DEF Claims
      <4>3. Remarked(j)
        BY <2>4, <2>6, <3>2, <4>1, <4>2 DEF Remarked, JobStores
      <4> QED
        BY <1>0, <2>3, <2>4, <3>1, <4>3 DEF Left, Working
    <3>3. CASE j # k
      <4>1. mem'[j] = mem[j]
        BY <2>4, <2>6, <3>3 DEF JobStores
      <4> QED
        BY <1>0, <2>3, <2>4, <3>1, <4>1 DEF Left, Working, Fixed
    <3> QED
      BY <3>2, <3>3
  <2> QED
    BY <1>1, <2>5, <2>6 DEF StartJob
<1>2. ASSUME NEW f \in Flows, NEW k \in Jobs, NEW x \in Outcomes, EndJob(f, k, x) PROVE Left(j)
  <2> DEFINE w == Ended(batch[f].work[k].started, now, x)
  <2>1. batch[f].work[k] \in Works /\ x \in Statuses /\ batch[f].work[k].at = "live"
    BY <1>2, CronAssumption DEF EndJob, Sound, BatchesOK, Batches, CronAssumption
  <2>2. w \in Works /\ w # NoRun /\ batch[f].work[k] # NoRun /\ w.at = "ended"
        /\ w.started = batch[f].work[k].started
    <3>1. batch[f].work[k].started \in Times /\ batch[f].work[k] # NoRun
      BY <2>1, WorkKinds, WorkIs
    <3>2. \A t, u \in Times, y \in Statuses :
            Ended(t, u, y) \in Works /\ Ended(t, u, y).at = "ended" /\ Ended(t, u, y).started = t
      BY WorkIs
    <3>3. w \in Works /\ w.at = "ended" /\ w.started = batch[f].work[k].started
      BY <1>0, <2>1, <3>1, <3>2
    <3> HIDE DEF w
    <3> QED
      BY <3>1, <3>3, WorkIs
  <2>3. SetBatch(f, [batch[f] EXCEPT !.work[k] = w])
    BY <1>2 DEF EndJob
  <2> HIDE DEF w
  <2>4. /\ \A g \in Flows \ {f} : batch'[g] = batch[g]
        /\ batch'[f].work[k] = w
        /\ \A i \in Jobs \ {k} : batch'[f].work[i] = batch[f].work[i]
    BY <2>2, <2>3, WorkSet
  <2>5. SameClaims(j)
    <3>1. CASE j = k
      BY <2>1, <2>2, <2>4, <3>1 DEF SameClaims, Begun
    <3>2. CASE j # k
      BY <2>4, <3>2, FlowSame
    <3> QED
      BY <3>1, <3>2
  <2> QED
    BY <1>0, <1>2, <2>5 DEF EndJob, stores, Left
<1> QED
  BY <1>1, <1>2 DEF Execute

(* A result, repaired with the rest of the store. *)
LEMMA OutcomeFixed ==
    ASSUME NEW j \in Jobs, NEW a, a = Absent \/ (a \in JobStates /\ Ready(j, a) /\ Done(j, a)),
           a.running = None, NEW b, Repaired(j, a, b)
    PROVE  IF a = Absent THEN b = Absent
           ELSE /\ b \in JobStates /\ b.running = None /\ SameJob(a, b)
                /\ Ready(j, b) /\ Done(j, b) /\ (~b.enabled => b.next = None)
<1>1. CASE a = Absent
  BY <1>1, GoneStays
<1>2. CASE a # Absent
  <2>1. b \in JobStates /\ SameJob(a, b) /\ b.running = None /\ (Served(j, b) <=> Served(j, a))
    BY <1>2 DEF Repaired, SameJob, Served
  <2> QED
    BY <1>2, <2>1 DEF Repaired, Ready, Done, SameJob
<1> QED
  BY <1>1, <1>2

LEMMA SettledBy ==
    ASSUME Sound, Sound', NEW f \in Flows, NEW j \in Jobs, Working,
           NEW r, r = batch[f].work[j], r.at = "ended",
           NEW b, SetBatch(f, b), b.work[j] = NoRun,
           NEW store \in JobStores, NEW p \in BOOLEAN, NEW kept \in JobStores, Persist(kept),
           Repaired(j, ApplyOutcome(store, j, r, p), kept[j])
    PROVE  SettledFor(f, j)
<1> DEFINE a == ApplyOutcome(store, j, r, p)
<1>1. r \in Works
  BY DEF Sound, BatchesOK, Batches
<1>2. \/ a = Absent
      \/ /\ a \in JobStates /\ a.running = None /\ a.lastRun = r.started
         /\ a.lastStatus = r.status /\ r.status \in Statuses /\ Ready(j, a) /\ Done(j, a)
  BY <1>1, OutcomeIs
<1>3. a.running = None
  BY <1>2, AbsentIs
<1> HIDE DEF a
<1>4. IF a = Absent THEN kept[j] = Absent
      ELSE /\ kept[j] \in JobStates /\ kept[j].running = None /\ SameJob(a, kept[j])
           /\ Ready(j, kept[j]) /\ Done(j, kept[j]) /\ (~kept[j].enabled => kept[j].next = None)
  BY <1>2, <1>3, OutcomeFixed DEF a
<1>5. disk'[j] = kept[j] /\ mem'[j] = kept[j]
  BY DEF Persist
<1>6. batch'[f].work[j] = NoRun /\ \A g \in Flows \ {f} : batch'[g].work[j] = batch[g].work[j]
  BY Batch
<1> QED
  BY <1>2, <1>4, <1>5, <1>6 DEF SettledFor, SameJob

(* A manual run is of one job. *)
ByHand == \A j, k \in Jobs : batch["manual"].work[j] # NoRun /\ batch["manual"].work[k] # NoRun => j = k

LEMMA SettleClass ==
    ASSUME Sound, Sound', NEW j \in Jobs, JobInv(j), ByHand, Settle
    PROVE  Left(j) \/ \E f \in Flows : SettledFor(f, j)
<1>0. now \in Times /\ now \in Nat /\ "manual" \in Flows /\ TRUE \in BOOLEAN /\ FALSE \in BOOLEAN
  BY JobTypes DEF Flows
<1>1. ASSUME NEW f \in Flows, SettleBatch(f) PROVE Left(j) \/ SettledFor(f, j)
  <2> DEFINE work == batch[f].work
             settled == [k \in Jobs |-> IF work[k] = NoRun THEN disk[k] ELSE ApplyOutcome(disk, k, work[k], FALSE)]
             kept == Maintain(settled, FALSE)
  <2>1. batch[f].stage = "working" /\ \A k \in Jobs : work[k] # NoRun => work[k] \in Works /\ work[k].at = "ended"
    BY <1>1, WorkKinds DEF SettleBatch, AllEnded, Sound, BatchesOK, Batches
  <2>2. disk \in JobStores /\ Loaded /\ now' = now
    BY <1>1, <2>1, WorkLoaded DEF Sound, StoresOK, SettleBatch
  <2>3. \A k \in Jobs : settled[k] \in JobStates
    BY <1>0, <2>1, <2>2, OutcomeType DEF JobStores
  <2>4. settled \in JobStores
    BY <2>3 DEF JobStores
  <2>5. Persist(kept)
    BY <1>1 DEF SettleBatch
  <2>6. settled[j] = IF work[j] = NoRun THEN disk[j] ELSE ApplyOutcome(disk, j, work[j], FALSE)
    OBVIOUS
  <2> HIDE DEF settled
  <2>7. kept \in JobStores /\ Repaired(j, settled[j], kept[j])
    BY <1>0, <2>4, Maintained
  <2> HIDE DEF kept
  <2>8. PICK b : SetBatch(f, b) /\ b.work[j] = NoRun
    <3>1. SetBatch(f, Idle) \/ SetBatch(f, Busy("finishing", {}))
      BY <1>1 DEF SettleBatch
    <3>2. Idle.work[j] = NoRun /\ Busy("finishing", {}).work[j] = NoRun
      BY BatchIs DEF Stages
    <3> QED
      BY <3>1, <3>2
  <2>9. Working
    BY <2>2, <2>5, <2>7, Persisted DEF Working
  <2>10. CASE work[j] = NoRun
    <3>1. SameClaims(j)
      BY <2>8, <2>10, Batch, FlowSame
    <3>2. disk'[j] = mem'[j] /\ Fixed(j, disk[j], disk'[j])
      BY <2>5, <2>6, <2>7, <2>10 DEF Persist, Fixed
    <3> QED
      BY <1>0, <2>9, <3>1, <3>2 DEF Left, Working
  <2>11. CASE work[j] # NoRun
    BY <1>0, <2>1, <2>2, <2>5, <2>6, <2>7, <2>8, <2>9, <2>11, SettledBy
  <2> QED
    BY <2>10, <2>11
<1>2. ASSUME NEW k \in Jobs, SettleManual(k) PROVE Left(j) \/ SettledFor("manual", j)
  <2> DEFINE r == batch["manual"].work[k]
             p == batch["manual"].forced
             mine == ApplyOutcome(mem, k, r, p)
             merged == IF Has(disk, k) THEN [disk EXCEPT ![k] = mine] ELSE disk
             kept == Maintain(merged, TRUE)
  <2>1. /\ batch["manual"] \in Batches /\ r \in Works /\ r # NoRun /\ r.at = "ended" /\ p \in BOOLEAN
        /\ \A i \in Jobs : batch["manual"].work[i] # NoRun => batch["manual"].work[i].at = "ended"
    BY <1>0, <1>2, WorkKinds DEF SettleManual, AllEnded, Sound, BatchesOK, Batches
  <2>2. mem \in JobStores /\ disk \in JobStores /\ Loaded /\ now' = now
    BY <1>0, <1>2, <2>1, WorkLoaded DEF Sound, StoresOK, SettleManual
  <2>3. mine \in JobStates
    BY <2>1, <2>2, OutcomeType
  <2> HIDE DEF mine
  <2>4. merged \in JobStores
    BY <2>2, <2>3 DEF JobStores
  <2>5. SetBatch("manual", Idle) /\ Idle.work[j] = NoRun
    BY <1>2, BatchIs DEF SettleManual
  <2>6. CASE ~Has(mem, k)
    <3>1. UNCHANGED <<disk, mem>>
      BY <1>2, <2>6 DEF SettleManual, stores
    <3>2. CASE batch["manual"].work[j] = NoRun
      <4>1. SameClaims(j)
        BY <1>0, <2>5, <3>2, Batch, FlowSame
      <4> QED
        BY <1>0, <2>2, <3>1, <4>1 DEF Left
    <3>3. CASE batch["manual"].work[j] # NoRun
      <4>1. j = k
        BY <2>1, <3>3 DEF ByHand
      <4>2. mem[j] = Absent /\ Working
        BY <2>2, <2>6, <3>1, <4>1 DEF Has, Working, Loaded
      <4>3. batch'["manual"].work[j] = NoRun /\ \A g \in Flows \ {"manual"} : batch'[g].work[j] = batch[g].work[j]
        BY <1>0, <2>5, Batch
      <4> QED
        BY <2>1, <3>1, <4>1, <4>2, <4>3 DEF SettledFor
    <3> QED
      BY <3>2, <3>3
  <2>7. CASE Has(mem, k)
    <3>1. Persist(kept)
      BY <1>2, <2>7 DEF SettleManual, mine
    <3> HIDE DEF merged
    <3>2. kept \in JobStores /\ Repaired(j, merged[j], kept[j])
      BY <1>0, <2>2, <2>4, Maintained
    <3> HIDE DEF kept
    <3>3. Working
      BY <2>2, <3>1, <3>2, Persisted DEF Working
    <3>4. CASE j = k
      <4>1. Has(disk, j)
        BY <2>2, <2>7, <3>4, AbsentIs DEF Has, JobInv, SameJob, Plain, Gone
      <4>2. merged[j] = ApplyOutcome(mem, j, r, p)
        BY <2>2, <3>4, <4>1 DEF merged, mine, JobStores
      <4> QED
        BY <1>0, <2>1, <2>2, <2>5, <3>1, <3>2, <3>3, <3>4, <4>2, SettledBy
    <3>5. CASE j # k
      <4>1. batch["manual"].work[j] = NoRun
        BY <2>1, <3>5 DEF ByHand
      <4>2. SameClaims(j)
        BY <1>0, <2>5, <4>1, Batch, FlowSame
      <4>3. merged[j] = disk[j]
        BY <2>2, <3>5 DEF merged, JobStores
      <4>4. disk'[j] = mem'[j] /\ Fixed(j, disk[j], disk'[j])
        BY <3>1, <3>2, <4>3 DEF Persist, Fixed
      <4> QED
        BY <1>0, <3>3, <4>2, <4>4 DEF Left, Working
    <3> QED
      BY <3>4, <3>5
  <2> QED
    BY <2>6, <2>7
<1> QED
  BY <1>0, <1>1, <1>2 DEF Settle

LEMMA CallClass ==
    ASSUME Sound, Sound', NEW j \in Jobs, JobInv(j), Call
    PROVE  Left(j) \/ Edited(j) \/ MarkedFor("manual", j)
<1>0. now \in Times /\ now \in Nat /\ "manual" \in Flows /\ TRUE \in BOOLEAN /\ FALSE \in BOOLEAN
  BY JobTypes DEF Flows
<1>1. Loaded /\ mem \in JobStores /\ mem[j] \in JobStates /\ Plain(j, mem[j]) /\ SameJob(mem[j], disk[j])
  <2>1. Loaded
    BY DEF Call, Add, Remove, Update, ManualRun, Called
  <2> QED
    BY <2>1, JobTypes DEF JobInv, Sound, StoresOK, Loaded
(* An edit writes the whole store. *)
<1>2. ASSUME NEW store \in JobStores, Write(store)
      PROVE  /\ disk'[j] = store[j] /\ mem'[j] = store[j] /\ Working /\ UNCHANGED batch
             /\ SameClaims(j)
             /\ Fixed(j, mem[j], store[j]) => Left(j)
  <2>1. disk' = store /\ mem' = store /\ Loaded' /\ now' = now /\ batch' = batch
    BY <1>2, Persisted DEF Write
  <2>2. SameClaims(j) /\ Working
    BY <1>1, <2>1 DEF SameClaims, Begun, Working
  <2> QED
    BY <1>0, <1>1, <2>1, <2>2 DEF Left, Working
<1>3. ASSUME NEW k \in Jobs, Add(k) PROVE Left(j) \/ Edited(j)
  <2> DEFINE new == NewJob(k, Kind[k] = "at")
             store == [mem EXCEPT ![k] = new]
             kept == Recompute(store)
  <2>1. /\ new \in JobStates /\ new.running = None /\ new.lastRun = None
        /\ new.lastStatus = "none" /\ Ready(k, new) /\ Done(k, new)
    <3>1. (Kind[k] = "at") \in BOOLEAN
      OBVIOUS
    <3> QED
      BY <1>0, <3>1, NewJobIs
  <2> HIDE DEF new
  <2>2. store \in JobStores
    BY <1>1, <2>1 DEF JobStores
  <2>3. kept \in JobStores /\ Repaired(j, store[j], kept[j])
    BY <1>0, <2>2, Recomputed
  <2>4. Write(kept)
    BY <1>3 DEF Add, new
  <2> HIDE DEF kept
  <2>5. CASE j = k
    <3>1. store[j] = new /\ mem[j] = Absent /\ Claims(j) = {}
      BY <1>1, <1>3, <2>5 DEF Add, Has, JobStores
    <3> HIDE DEF store
    <3>2. /\ kept[j] \in JobStates /\ SameJob(new, kept[j]) /\ kept[j].running = None
          /\ Served(j, kept[j]) = FALSE /\ Served(j, new) = FALSE
      BY <2>1, <2>3, <3>1 DEF Repaired, SameJob, Served
    <3>3. /\ Ready(j, kept[j]) /\ Done(j, kept[j]) /\ (~kept[j].enabled => kept[j].next = None)
          /\ ~Gone(kept[j])
      BY <2>1, <2>3, <3>1, <3>2 DEF Repaired, Ready, Done, SameJob, Gone
    <3>4. /\ disk'[j] = kept[j] /\ mem'[j] = kept[j] /\ Working /\ UNCHANGED batch
      BY <1>2, <2>3, <2>4
    <3> QED
      BY <2>1, <3>1, <3>2, <3>3, <3>4 DEF Edited, SameJob
  <2>6. CASE j # k
    <3>1. store[j] = mem[j]
      BY <1>1, <2>6 DEF JobStores
    <3> QED
      BY <1>2, <2>3, <2>4, <3>1 DEF Fixed
  <2> QED
    BY <2>5, <2>6
<1>4. ASSUME NEW k \in Jobs, Remove(k) PROVE Left(j) \/ Edited(j)
  <2> DEFINE store == [mem EXCEPT ![k] = Absent]
  <2>1. store \in JobStores /\ store[j] = IF j = k THEN Absent ELSE mem[j]
    BY <1>1, AbsentIs DEF JobStores
  <2>2. Write(store)
    BY <1>4 DEF Remove
  <2> HIDE DEF store
  <2>3. CASE j = k
    BY <1>2, <2>1, <2>2, <2>3, AbsentIs DEF Edited
  <2>4. CASE j # k
    BY <1>2, <2>1, <2>2, <2>4 DEF Fixed
  <2> QED
    BY <2>3, <2>4
<1>5. ASSUME NEW k \in Jobs, NEW e \in BOOLEAN, Update(k, e) PROVE Left(j) \/ Edited(j)
  <2> DEFINE set == [mem[k] EXCEPT !.enabled = e]
             next == ComputeNext(k, set, now)
             job == [mem[k] EXCEPT !.enabled = e, !.next = next]
             final == IF e THEN job ELSE [job EXCEPT !.running = None]
             edited == [mem EXCEPT ![k] = final]
  <2>1. mem[k] \in JobStates /\ mem[k] # Absent
    BY <1>1, <1>5 DEF Update, Has, JobStores
  <2>2. /\ set \in JobStates /\ set.enabled = e /\ set.lastRun = mem[k].lastRun
        /\ set.lastStatus = mem[k].lastStatus /\ set.lastRun \in Moments
    BY <2>1 DEF JobStates
  <2> HIDE DEF set
  <2>3. next \in Moments /\ (next = None <=> ~e \/ Served(k, set))
    BY <1>0, <2>2, ComputedNext
  <2> HIDE DEF next
  <2>4. /\ job \in JobStates /\ job.enabled = e /\ job.next = next /\ job.lastRun = mem[k].lastRun
        /\ job.lastStatus = mem[k].lastStatus /\ job.running = mem[k].running
    BY <2>1, <2>3 DEF JobStates
  <2> HIDE DEF job
  <2>5. /\ final \in JobStates /\ final.enabled = e /\ final.next = next /\ final.lastRun = mem[k].lastRun
        /\ final.lastStatus = mem[k].lastStatus /\ final.running = IF e THEN mem[k].running ELSE None
    BY <2>4 DEF JobStates, Moments
  <2> HIDE DEF final
  <2>6. edited \in JobStores /\ edited[j] = IF j = k THEN final ELSE mem[j]
    BY <1>1, <2>5 DEF JobStores
  <2>7. Write(edited)
    BY <1>5 DEF Update, final, job, next, set
  <2> HIDE DEF edited
  <2>8. CASE j = k
    <3>1. ~Gone(mem[j])
      BY <1>1, <2>1, <2>8 DEF Plain
    <3>2. Served(j, final) <=> Served(j, set)
      BY <2>2, <2>5, <2>8 DEF Served
    <3>3. Ready(j, final) /\ Done(j, final) /\ (~final.enabled => final.next = None) /\ ~Gone(final)
      BY <2>3, <2>5, <2>8, <3>1, <3>2 DEF Ready, Done, Gone
    <3>4. disk'[j] = final /\ mem'[j] = final /\ Working /\ UNCHANGED batch
      BY <1>2, <2>6, <2>7, <2>8
    <3> QED
      BY <2>5, <2>8, <3>1, <3>3, <3>4 DEF Edited
  <2>9. CASE j # k
    BY <1>2, <2>6, <2>7, <2>9 DEF Fixed
  <2> QED
    BY <2>8, <2>9
<1>6. ASSUME NEW k \in Jobs, NEW forced \in BOOLEAN, ManualRun(k, forced)
      PROVE  Left(j) \/ MarkedFor("manual", j)
  <2> DEFINE kept == Maintain(mem, FALSE)
  <2>1. kept \in JobStores /\ Repaired(j, mem[j], kept[j]) /\ Fixed(j, mem[j], kept[j])
    BY <1>0, <1>1, Maintained DEF Fixed
  <2>2. batch["manual"].work[j] = NoRun /\ now' = now /\ Has(mem, k)
    BY <1>6, BatchIs DEF ManualRun
  <2>3. \/ /\ kept[k].running = None
           /\ Persist(Mark(kept, {k})) /\ SetBatch("manual", Reserved(k, forced))
        \/ mem' = kept /\ UNCHANGED <<disk, batch>>
    BY <1>6 DEF ManualRun
  <2> HIDE DEF kept
  <2>4. CASE /\ kept[k].running = None
             /\ Persist(Mark(kept, {k})) /\ SetBatch("manual", Reserved(k, forced))
    <3>1. {k} \in SUBSET Jobs /\ Mark(kept, {k}) \in JobStores
      BY <1>0, <2>1, MarkIs
    <3>2. Working
      BY <1>1, <2>2, <2>4, <3>1, Persisted DEF Working
    <3>3. Reserved(k, forced).work[j] = IF j = k THEN Live(now) ELSE NoRun
      BY <1>0, BatchIs
    <3>4. CASE j = k
      <4>1. ~Gone(kept[j])
        BY <1>1, <2>1, <2>2, <3>4 DEF Has, Plain, Repaired, SameJob, Gone
      <4> QED
        BY <1>0, <2>1, <2>2, <2>4, <3>1, <3>2, <3>3, <3>4, <4>1, MarkedBy
    <3>5. CASE j # k
      <4>1. SameClaims(j)
        BY <1>0, <2>2, <2>4, <3>3, <3>5, Batch, FlowSame
      <4>2. disk'[j] = kept[j] /\ mem'[j] = kept[j]
        BY <2>4, <3>5 DEF Persist, Mark
      <4> QED
        BY <1>0, <2>1, <3>2, <4>1, <4>2 DEF Left, Working
    <3> QED
      BY <3>4, <3>5
  <2>5. CASE mem' = kept /\ UNCHANGED <<disk, batch>>
    <3>1. SameClaims(j)
      BY <2>5 DEF SameClaims, Begun
    <3>2. Working
      BY <1>1, <2>1, <2>2, <2>5, NoneIsNoStore DEF Working, Loaded
    <3> QED
      BY <1>0, <2>1, <2>5, <3>1, <3>2 DEF Left, Working
  <2> QED
    BY <2>3, <2>4, <2>5
<1> QED
  BY <1>3, <1>4, <1>5, <1>6 DEF Call

LEMMA RestClass ==
    ASSUME Sound, Sound', NEW j \in Jobs, JobInv(j), List \/ Crash \/ Advance \/ UNCHANGED vars
    PROVE  Left(j) \/ Rebooted(j)
<1>0. now \in Times /\ now \in Nat /\ FALSE \in BOOLEAN
  BY JobTypes
<1>1. CASE List
  <2>1. Loaded /\ mem \in JobStores
    BY <1>1 DEF List, Sound, StoresOK, Loaded
  <2>2. Maintain(mem, FALSE) \in JobStores /\ Repaired(j, mem[j], Maintain(mem, FALSE)[j])
    BY <1>0, <2>1, Maintained
  <2>3. Persist(Maintain(mem, FALSE)) /\ now' = now /\ batch' = batch
    BY <1>1 DEF List, flows
  <2>4. SameClaims(j)
    BY <2>3 DEF SameClaims, Begun
  <2>5. disk'[j] = mem'[j] /\ Fixed(j, mem[j], disk'[j]) /\ Loaded'
    BY <2>2, <2>3, Persisted DEF Fixed
  <2> QED
    BY <1>0, <2>1, <2>3, <2>4, <2>5 DEF Left, Working
<1>2. CASE Crash
  <2>1. \A f \in Flows : batch'[f].work[j] = NoRun
    BY <1>2, BatchIs DEF Crash, Fresh, Stages
  <2> QED
    BY <1>2, <2>1 DEF Crash, Rebooted
<1>3. CASE Advance
  <2>1. now' >= now /\ UNCHANGED <<disk, mem, batch>>
    BY <1>0, <1>3 DEF Advance, stores, flows
  <2> QED
    BY <2>1 DEF Left, SameClaims, Begun
<1>4. CASE UNCHANGED vars
  <2>1. now' >= now /\ UNCHANGED <<disk, mem, batch>>
    BY <1>0, <1>4 DEF vars, stores, flows
  <2> QED
    BY <2>1 DEF Left, SameClaims, Begun
<1> QED
  BY <1>1, <1>2, <1>3, <1>4

-----------------------------------------------------------------------------
(* The invariant                                                            *)

LEMMA ByHandKept ==
    ASSUME Sound, Sound', ByHand, [Next]_vars PROVE ByHand'
<1>0. now \in Times /\ "manual" \in Flows
  BY Now DEF Flows, Sound
<1>1. ASSUME \A j \in Jobs : batch'["manual"].work[j] # NoRun => batch["manual"].work[j] # NoRun
      PROVE  ByHand'
  BY <1>1 DEF ByHand
<1>2. CASE Start \/ Tick
  <2>1. batch'["manual"] = batch["manual"]
    <3>1. \E f \in {"catchup", "tick"}, b \in {batch'["catchup"], batch'["tick"]} : SetBatch(f, b)
      <4>1. \E f \in {"catchup", "tick"} : \E b : SetBatch(f, b)
        BY <1>2 DEF Start, Tick, ClearMarkers, CollectMissed, FinishStart, OnTimer, CollectDue
      <4> QED
        BY <4>1, Batch DEF Flows
    <3> QED
      BY <3>1, Batch DEF Flows
  <2> QED
    BY <1>1, <2>1
<1>3. CASE Execute
  <2>1. ASSUME NEW f \in Flows, NEW k \in Jobs, NEW w, batch[f].work[k] # NoRun,
               SetBatch(f, [batch[f] EXCEPT !.work[k] = w])
        PROVE  ByHand'
    <3>1. batch[f] \in Batches
      BY DEF Sound, BatchesOK
    <3>2. batch'[f] = [batch[f] EXCEPT !.work[k] = w] /\ \A g \in Flows \ {f} : batch'[g] = batch[g]
      BY <2>1, Batch
    <3>3. \A j \in Jobs \ {k} : batch'[f].work[j] = batch[f].work[j]
      BY <3>1, <3>2 DEF Batches
    <3> QED
      BY <1>0, <1>1, <2>1, <3>2, <3>3
  <2>2. ASSUME NEW f \in Flows, NEW k \in Jobs, StartJob(f, k) PROVE ByHand'
    BY <2>1, <2>2, WorkIs DEF StartJob
  <2>3. ASSUME NEW f \in Flows, NEW k \in Jobs, NEW x \in Outcomes, EndJob(f, k, x) PROVE ByHand'
    BY <2>1, <2>3, WorkIs DEF EndJob
  <2> QED
    BY <1>3, <2>2, <2>3 DEF Execute
<1>4. CASE Settle
  <2>1. PICK f \in Flows : \E b : SetBatch(f, b) /\ (f = "manual" => b = Idle)
    BY <1>0, <1>4 DEF Settle, SettleBatch, SettleManual
  <2>2. batch'["manual"] \in {batch["manual"], Idle}
    BY <1>0, <2>1, Batch
  <2> QED
    BY <1>1, <2>2, BatchIs
<1>5. CASE Call
  <2>1. batch'["manual"] = batch["manual"]
        \/ \E k \in Jobs, forced \in BOOLEAN : SetBatch("manual", Reserved(k, forced))
    BY <1>5 DEF Call, Add, Remove, Update, Write, ManualRun
  <2>2. ASSUME NEW k \in Jobs, NEW forced \in BOOLEAN, SetBatch("manual", Reserved(k, forced)) PROVE ByHand'
    BY <1>0, <2>2, Batch, BatchIs DEF ByHand
  <2> QED
    BY <1>1, <2>1, <2>2
<1>6. CASE List \/ Advance \/ UNCHANGED vars
  BY <1>1, <1>6 DEF List, Advance, vars, flows
<1>7. CASE Crash
  BY <1>7, BatchIs DEF Crash, Fresh, ByHand, Flows
<1> QED
  BY <1>2, <1>3, <1>4, <1>5, <1>6, <1>7 DEF Next

CronInv == Sound /\ ByHand /\ \A j \in Jobs : JobInv(j)

(* Every step puts every job into one of the classes. *)
LEMMA StepClass ==
    ASSUME CronInv, [Next]_vars, NEW j \in Jobs
    PROVE  \/ Left(j) \/ Rebooted(j) \/ Edited(j)
           \/ \E f \in Flows : SettledFor(f, j) \/ (MarkedFor(f, j) /\ (f = "manual" \/ Wanted(j)))
<1>1. Sound /\ Sound' /\ ByHand /\ JobInv(j) /\ {"tick", "catchup", "manual"} = Flows
  BY SoundNext DEF CronInv, Flows
<1>2. CASE Start
  BY <1>1, <1>2, StartClass
<1>3. CASE Tick
  BY <1>1, <1>3, TickClass
<1>4. CASE Execute
  BY <1>1, <1>4, ExecuteClass
<1>5. CASE Settle
  BY <1>1, <1>5, SettleClass
<1>6. CASE Call
  BY <1>1, <1>6, CallClass
<1>7. CASE List \/ Crash \/ Advance \/ UNCHANGED vars
  BY <1>1, <1>7, RestClass
<1> QED
  BY <1>2, <1>3, <1>4, <1>5, <1>6, <1>7 DEF Next

LEMMA CronInit == Init => CronInv
<1> SUFFICES ASSUME Init PROVE CronInv
  OBVIOUS
<1>1. Sound /\ now \in Times
  BY SoundInit, Now DEF Sound
<1>2. \A f \in Flows, j \in Jobs : batch[f].work[j] = NoRun
  BY BatchIs DEF Init, Fresh, Stages
<1>3. ByHand
  BY <1>2 DEF ByHand, Flows
<1>4. ASSUME NEW j \in Jobs PROVE JobInv(j)
  <2>1. disk[j] = Absent \/ \E d \in BOOLEAN : disk[j] = NewJob(j, d)
    <3>1. \E stored, D : disk = [k \in Jobs |-> IF k \in stored THEN NewJob(k, k \in D) ELSE Absent]
      BY Zenon DEF Init
    <3>2. PICK stored, D : disk = [k \in Jobs |-> IF k \in stored THEN NewJob(k, k \in D) ELSE Absent]
      BY <3>1
    <3>3. disk[j] = IF j \in stored THEN NewJob(j, j \in D) ELSE Absent
      BY <3>2
    <3>4. (j \in D) \in BOOLEAN
      OBVIOUS
    <3> QED
      BY <3>3, <3>4
  <2>2. Plain(j, disk[j]) /\ disk[j].running = None
    <3>1. CASE disk[j] = Absent
      BY <3>1, AbsentIs DEF Plain, Ready, Done, Served, Absent
    <3>2. ASSUME NEW d \in BOOLEAN, disk[j] = NewJob(j, d) PROVE Plain(j, disk[j]) /\ disk[j].running = None
      BY <1>1, <3>2, NewJobIs DEF Plain, Gone
    <3> QED
      BY <2>1, <3>1, <3>2
  <2>3. ~Loaded
    BY DEF Init, Loaded
  <2> QED
    BY <1>2, <2>2, <2>3, WorkIs DEF JobInv, Claims, Begun
<1> QED
  BY <1>1, <1>3, <1>4 DEF CronInv

LEMMA CronStep == CronInv /\ [Next]_vars => CronInv'
<1> SUFFICES ASSUME CronInv, [Next]_vars PROVE CronInv'
  OBVIOUS
<1>1. Sound /\ Sound' /\ ByHand'
  BY SoundNext, ByHandKept DEF CronInv
<1>2. ASSUME NEW j \in Jobs PROVE JobInv(j)'
  <2>1. JobInv(j)
    BY DEF CronInv
  <2>2. CASE Next
    <3>1. Disturbs
      BY <2>2 DEF Next, Disturbs
    <3> QED
      BY <1>1, <2>1, <3>1, StepClass, LeftKeeps, RebootedKeeps, EditedKeeps, SettledKeeps, MarkedKeeps
  <2>3. CASE UNCHANGED vars
    BY <2>1, <2>3 DEF vars, stores, flows, JobInv, Plain, Gone, Ready, Done, Served, Loaded, SameJob,
                      Claims, Begun, Alone, Excuse, Stuck
  <2> QED
    BY <2>2, <2>3
<1> QED
  BY <1>1, <1>2 DEF CronInv

LEMMA CronInvariance == Spec => []CronInv
BY CronInit, CronStep, PTL DEF Spec

-----------------------------------------------------------------------------
(* Theorems                                                                 *)

(* A marker on file is that of a run which will take it away, or start() is *)
(* about to clear it: no job is left marked by runs, edits and crashes.     *)
THEOREM MarkersAreBacked == Spec => []MarkerIsBacked
<1>1. CronInv => MarkerIsBacked
  BY DEF CronInv, JobInv, MarkerIsBacked, Sound, Boot
<1> QED
  BY <1>1, CronInvariance, PTL

(* Ticks, catch-up, manual runs and edits give no job two runs, save those  *)
(* that were disabled or removed under a run or whose marker was called     *)
(* stuck.                                                                   *)
THEOREM NoJobRunsTwice == Spec => []OneRunAtATime
<1>1. ASSUME CronInv, NEW j \in Jobs, j \notin disturbed PROVE Cardinality(LiveRuns(j)) <= 1
  <2>1. LiveRuns(j) \subseteq Claims(j)
    BY WorkIs DEF LiveRuns, Claims
  <2>2. \A f, g \in LiveRuns(j) : f = g
    BY <1>1, <2>1 DEF CronInv, JobInv, Alone
  <2>3. LiveRuns(j) = {} \/ \E f \in Flows : LiveRuns(j) = {f}
    BY <2>2 DEF LiveRuns
  <2>4. CASE LiveRuns(j) = {}
    BY <2>4, FS_EmptySet
  <2>5. ASSUME NEW f \in Flows, LiveRuns(j) = {f} PROVE Cardinality(LiveRuns(j)) <= 1
    <3>1. Cardinality({f}) = 1
      BY FS_Singleton
    <3> QED
      BY <2>5, <3>1
  <2> QED
    BY <2>3, <2>4, <2>5
<1>2. CronInv => OneRunAtATime
  BY <1>1 DEF OneRunAtATime
<1> QED
  BY <1>2, CronInvariance, PTL

(* The result on file gives way to that of an earlier run in no order in    *)
(* which a tick, the catch-up and manual runs end.                          *)
THEOREM NoResultIsLost == Spec => ResultsAreKept
<1>1. ASSUME CronInv, [Next]_vars, NEW j \in Jobs,
             j \notin disturbed, disk[j].lastRun # None, disk'[j] # Absent
      PROVE  disk'[j].lastRun # None /\ disk'[j].lastRun >= disk[j].lastRun
  <2>0. /\ Sound /\ JobInv(j) /\ disk[j] \in JobStates /\ disk[j].lastRun \in Nat
        /\ (Loaded => mem[j] \in JobStates)
    BY <1>1, JobTypes, Numbers DEF CronInv
  <2>1. CASE disk'[j].lastRun = disk[j].lastRun
    BY <1>1, <2>0, <2>1
  <2>2. CASE Left(j)
    <3>1. ASSUME NEW a \in JobStates, NEW b, Fixed(j, a, b) PROVE b.lastRun = a.lastRun
      BY <3>1 DEF Fixed, Repaired, SameJob
    <3>2. disk'[j].lastRun = disk[j].lastRun
      BY <2>0, <2>2, <3>1 DEF Left, JobInv, SameJob, Working
    <3> QED
      BY <2>1, <3>2
  <2>3. CASE Rebooted(j)
    <3>1. disk'[j].lastRun = disk[j].lastRun
      BY <2>0, <2>3 DEF Rebooted, JobStates
    <3> QED
      BY <2>1, <3>1
  <2>4. CASE Edited(j)
    <3>1. mem[j].lastRun = disk[j].lastRun
      BY <2>0, <2>4 DEF Edited, Working, JobInv, SameJob
    <3>2. mem[j] # Absent
      BY <1>1, <3>1, AbsentIs
    <3> QED
      BY <1>1, <2>1, <2>4, <3>1, <3>2 DEF Edited
  <2>5. ASSUME NEW f \in Flows, MarkedFor(f, j) PROVE disk'[j].lastRun = disk[j].lastRun
    <3>1. PICK a \in JobStates : (Fixed(j, disk[j], a) \/ Fixed(j, mem[j], a)) /\ SameJob(a, disk'[j])
      BY <2>5 DEF MarkedFor
    <3> QED
      BY <2>0, <2>5, <3>1 DEF MarkedFor, Working, Fixed, Repaired, SameJob, JobInv
  <2>6. ASSUME NEW f \in Flows, SettledFor(f, j)
        PROVE  disk'[j].lastRun # None /\ disk'[j].lastRun >= disk[j].lastRun
    <3>1. CASE UNCHANGED <<disk, mem>>
      BY <1>1, <2>0, <3>1
    <3>2. CASE disk'[j].lastRun = batch[f].work[j].started
      <4>1. Begun(f, j) /\ Claims(j) # {}
        BY <2>6, WorkIs DEF SettledFor, Begun, Claims
      <4>2. batch[f].work[j].started \in Nat /\ batch[f].work[j].started # None
        BY <2>0, <4>1, JobTypes, WorkKinds, Constants DEF Begun
      <4>3. disk[j].lastRun <= batch[f].work[j].started
        BY <1>1, <2>0, <4>1 DEF JobInv, Alone
      <4> QED
        BY <2>0, <3>2, <4>2, <4>3
    <3> QED
      BY <1>1, <2>6, <3>1, <3>2 DEF SettledFor
  <2> QED
    BY <1>1, <2>1, <2>2, <2>3, <2>4, <2>5, <2>6, StepClass
<1>2. CronInv /\ [Next]_vars =>
        [\A j \in Jobs : (j \notin disturbed /\ disk[j].lastRun # None /\ disk'[j] # Absent)
            => disk'[j].lastRun # None /\ disk'[j].lastRun >= disk[j].lastRun]_vars
  BY <1>1
<1> QED
  BY <1>2, CronInvariance, PTL DEF Spec, ResultsAreKept

(* A one-shot job that has succeeded is marked by hand only, until it is    *)
(* due again.                                                               *)
THEOREM SuccessIsFinal == Spec => OneShotOnce
<1>1. ASSUME CronInv, [Next]_vars, NEW j \in Jobs, NEW f \in {"tick", "catchup"},
             Kind[j] = "at", batch[f].work[j] = NoRun, batch'[f].work[j] # NoRun
      PROVE  disk[j].lastStatus # "ok" \/ disk[j].lastRun < At[j]
  <2>1. f \in Flows /\ f # "manual" /\ NoRun.at = "none"
    BY WorkIs DEF Flows
  <2>2. ~Left(j) /\ ~Rebooted(j)
    BY <1>1, <2>1 DEF Left, SameClaims, Rebooted
  <2>3. ~Edited(j)
    BY <1>1 DEF Edited
  <2>4. ASSUME NEW g \in Flows PROVE ~SettledFor(g, j)
    BY <1>1, <2>1 DEF SettledFor
  <2>5. ASSUME NEW g \in Flows, MarkedFor(g, j) PROVE g = f
    BY <1>1, <2>1, <2>5 DEF MarkedFor
  <2>6. Wanted(j)
    BY <1>1, <2>1, <2>2, <2>3, <2>4, <2>5, StepClass
  <2> QED
    BY <1>1, <2>6 DEF Wanted
<1>2. CronInv /\ [Next]_vars =>
        [\A j \in Jobs, f \in {"tick", "catchup"} :
            (Kind[j] = "at" /\ batch[f].work[j] = NoRun /\ batch'[f].work[j] # NoRun)
            => disk[j].lastStatus # "ok" \/ disk[j].lastRun < At[j]]_vars
  BY <1>1
<1> QED
  BY <1>2, CronInvariance, PTL DEF Spec, OneShotOnce

-----------------------------------------------------------------------------
(* The timer                                                                *)

Pending(store) == \E j \in Jobs : store[j].enabled /\ store[j].next # None

LEMMA ArmedFor == ASSUME NEW store, ArmTimer(store), Persist(store) PROVE Pending(mem') => armed'
BY DEF ArmTimer, Persist, Pending

(* A repair gives no time to what had none. *)
LEMMA NothingNewPends ==
    ASSUME CronInv, Loaded, Pending(Maintain(mem, FALSE)) PROVE Pending(mem)
<1> DEFINE kept == Maintain(mem, FALSE)
<1>1. mem \in JobStores /\ now \in Times /\ FALSE \in BOOLEAN
  BY Now DEF CronInv, Sound, StoresOK, Loaded
<1>2. \A j \in Jobs : Repaired(j, mem[j], kept[j])
  BY <1>1, Maintained
<1> HIDE DEF kept
<1>3. PICK j \in Jobs : kept[j].enabled /\ kept[j].next # None
  BY DEF Pending, kept
<1>4. Plain(j, mem[j]) /\ Repaired(j, mem[j], kept[j])
  BY <1>2 DEF CronInv, JobInv
<1>5. mem[j].enabled /\ mem[j].next # None
  BY <1>3, <1>4 DEF Plain, Ready, Repaired, SameJob
<1> QED
  BY <1>5 DEF Pending

(* Whatever is edited, run by hand or repaired, and whatever a tick or the  *)
(* catch-up does meanwhile, a store with something to run has its timer.    *)
THEOREM TimerIsArmed == Spec => []SchedulerLives
<1> DEFINE Quiet == Loaded /\ batch["catchup"].stage = "idle"
           Lives == Quiet /\ Pending(mem) => armed \/ batch["tick"].stage # "idle"
<1>1. Lives <=> SchedulerLives
  BY DEF SchedulerLives, Pending
<1>2. Init => Lives
  BY DEF Init, Loaded
<1>3. ASSUME CronInv, Lives, [Next]_vars, Quiet', Pending(mem')
      PROVE  armed' \/ batch'["tick"].stage # "idle"
  <2>0. /\ Sound /\ now \in Times /\ "catchup" \in Flows /\ "tick" \in Flows /\ "manual" \in Flows
        /\ batch'["catchup"].stage = "idle" /\ Loaded'
    BY <1>3, Now DEF Flows, CronInv, Sound
  (* A step that leaves the timer and the stages. *)
  <2>1. ASSUME armed' = armed, batch'["catchup"].stage = batch["catchup"].stage,
               batch'["tick"].stage = batch["tick"].stage, Loaded, Pending(mem') => Pending(mem)
        PROVE  armed' \/ batch'["tick"].stage # "idle"
    BY <1>3, <2>0, <2>1
  <2>2. CASE Start
    <3>1. ~ClearMarkers
      <4> SUFFICES ASSUME ClearMarkers PROVE FALSE
        OBVIOUS
      <4>1. batch'["catchup"] = Busy("collecting", {})
        BY <2>0, Batch DEF ClearMarkers
      <4> QED
        BY <2>0, <4>1, BatchIs DEF Stages
    <3>2. ~CollectMissed
      <4> SUFFICES ASSUME CollectMissed PROVE FALSE
        OBVIOUS
      <4>1. \E stage \in {"finishing", "working"}, S \in SUBSET Jobs : SetBatch("catchup", Busy(stage, S))
        <5>1. {j \in Jobs \ interrupted : Missed(j, mem[j])} \in SUBSET Jobs
          OBVIOUS
        <5> QED
          BY <5>1 DEF CollectMissed
      <4>2. PICK stage \in {"finishing", "working"}, S \in SUBSET Jobs : SetBatch("catchup", Busy(stage, S))
        BY <4>1
      <4>3. batch'["catchup"].stage = stage
        BY <2>0, <4>2, Batch, BatchIs DEF Stages
      <4> QED
        BY <2>0, <4>2, <4>3
    <3>3. FinishStart
      BY <2>2, <3>1, <3>2 DEF Start
    <3> QED
      BY <1>3, <3>3, ArmedFor DEF FinishStart
  <2>3. CASE Tick
    <3>1. CASE OnTimer
      <4>1. batch'["tick"] = Busy("collecting", {})
        BY <2>0, <3>1, Batch DEF OnTimer
      <4> QED
        BY <4>1, BatchIs DEF Stages
    <3>2. CASE CollectDue
      <4> DEFINE due == {j \in Jobs : Due(disk[j])}
      <4>1. CASE due = {}
        BY <1>3, <3>2, <4>1, ArmedFor DEF CollectDue
      <4>2. CASE due # {}
        <5>1. SetBatch("tick", Busy("working", due))
          BY <3>2, <4>2 DEF CollectDue
        <5>2. due \in SUBSET Jobs
          OBVIOUS
        <5> HIDE DEF due
        <5>3. batch'["tick"].stage = "working"
          BY <2>0, <5>1, <5>2, Batch, BatchIs DEF Stages
        <5> QED
          BY <5>3
      <4> QED
        BY <4>1, <4>2
    <3> QED
      BY <2>3, <3>1, <3>2 DEF Tick
  <2>4. CASE Execute
    <3>1. ASSUME NEW f \in Flows, NEW k \in Jobs, NEW w, batch[f].work[k] # NoRun,
                 SetBatch(f, [batch[f] EXCEPT !.work[k] = w])
          PROVE  /\ Loaded /\ mem \in JobStores
                 /\ \A g \in Flows : batch'[g].stage = batch[g].stage
      <4>1. Loaded /\ mem \in JobStores /\ batch[f] \in Batches
        BY <2>0, <3>1, WorkLoaded DEF Sound, BatchesOK
      <4>2. batch'[f] = [batch[f] EXCEPT !.work[k] = w] /\ \A g \in Flows \ {f} : batch'[g] = batch[g]
        BY <2>0, <3>1, Batch
      <4> QED
        BY <4>1, <4>2 DEF Batches
    <3>2. ASSUME NEW f \in Flows, NEW k \in Jobs, StartJob(f, k)
          PROVE  armed' \/ batch'["tick"].stage # "idle"
      <4>1. Loaded /\ mem \in JobStores /\ \A g \in Flows : batch'[g].stage = batch[g].stage
        BY <3>1, <3>2, WorkIs DEF StartJob
      <4>2. Pending(mem') => Pending(mem)
        BY <3>2, <4>1 DEF StartJob, Pending, JobStores, JobStates
      <4> QED
        BY <2>0, <2>1, <3>2, <4>1, <4>2 DEF StartJob
    <3>3. ASSUME NEW f \in Flows, NEW k \in Jobs, NEW x \in Outcomes, EndJob(f, k, x)
          PROVE  armed' \/ batch'["tick"].stage # "idle"
      <4>1. Loaded /\ \A g \in Flows : batch'[g].stage = batch[g].stage
        BY <3>1, <3>3, WorkIs DEF EndJob
      <4> QED
        BY <2>0, <2>1, <3>3, <4>1 DEF EndJob, stores
    <3> QED
      BY <2>4, <3>2, <3>3 DEF Execute
  <2>5. CASE Settle
    <3>1. ASSUME NEW f \in Flows, SettleBatch(f) PROVE armed'
      <4>1. f # "catchup"
        <5> SUFFICES ASSUME f = "catchup" PROVE FALSE
          OBVIOUS
        <5>1. batch'["catchup"] = Busy("finishing", {})
          BY <2>0, <3>1, Batch DEF SettleBatch
        <5> QED
          BY <2>0, <5>1, BatchIs DEF Stages
      <4>2. f = "tick"
        BY <3>1, <4>1 DEF SettleBatch, Flows
      <4> QED
        BY <1>3, <3>1, <4>2, ArmedFor DEF SettleBatch
    <3>2. ASSUME NEW k \in Jobs, SettleManual(k) PROVE armed' \/ batch'["tick"].stage # "idle"
      <4>1. CASE Has(mem, k)
        BY <1>3, <3>2, <4>1, ArmedFor DEF SettleManual
      <4>2. CASE ~Has(mem, k)
        <5>1. Loaded
          BY <2>0, <3>2, WorkLoaded DEF SettleManual
        <5>2. UNCHANGED <<mem, armed>> /\ batch'["catchup"] = batch["catchup"] /\ batch'["tick"] = batch["tick"]
          BY <2>0, <3>2, <4>2, Batch DEF SettleManual, stores, Flows
        <5> QED
          BY <2>1, <5>1, <5>2
      <4> QED
        BY <4>1, <4>2
    <3> QED
      BY <2>5, <3>1, <3>2 DEF Settle
  <2>6. CASE Call
    <3>1. Loaded
      BY <2>6 DEF Call, Add, Remove, Update, ManualRun, Called
    <3>2. ASSUME NEW store, Write(store) PROVE armed'
      BY <1>3, <3>2, ArmedFor DEF Write
    <3>3. ASSUME NEW k \in Jobs, NEW forced \in BOOLEAN, ManualRun(k, forced)
          PROVE  armed' \/ batch'["tick"].stage # "idle"
      <4> DEFINE kept == Maintain(mem, FALSE)
      <4>1. batch'["catchup"] = batch["catchup"] /\ batch'["tick"] = batch["tick"] /\ armed' = armed
        BY <2>0, <3>3, Batch DEF ManualRun, Flows
      <4>2. kept \in JobStores
        BY <2>0, <3>1, Maintained DEF Sound, StoresOK, Loaded
      <4>3. mem' = kept \/ mem' = Mark(kept, {k})
        BY <3>3 DEF ManualRun, Persist
      <4> HIDE DEF kept
      <4>4. Pending(mem') => Pending(kept)
        BY <2>0, <4>2, <4>3, MarkIs DEF Pending, SameJob
      <4>5. Pending(mem') => Pending(mem)
        BY <1>3, <3>1, <4>4, NothingNewPends DEF kept
      <4> QED
        BY <2>1, <3>1, <4>1, <4>5
    <3> QED
      BY <2>6, <3>2, <3>3 DEF Call, Add, Remove, Update
  <2>7. CASE List
    <3>1. Loaded /\ UNCHANGED <<armed, batch>> /\ mem' = Maintain(mem, FALSE)
      BY <2>7 DEF List, flows, Persist
    <3> QED
      BY <1>3, <2>1, <3>1, NothingNewPends
  <2>8. CASE Crash
    BY <2>0, <2>8 DEF Crash, Loaded
  <2>9. CASE Advance \/ UNCHANGED vars
    <3>1. UNCHANGED <<mem, armed, batch>>
      BY <2>9 DEF Advance, vars, stores, flows
    <3> QED
      BY <2>0, <2>1, <3>1 DEF Loaded
  <2> QED
    BY <1>3, <2>2, <2>3, <2>4, <2>5, <2>6, <2>7, <2>8, <2>9 DEF Next
<1>4. CronInv /\ Lives /\ [Next]_vars => Lives'
  BY <1>3
<1> HIDE DEF Lives
<1> QED
  BY <1>1, <1>2, <1>4, CronInvariance, PTL DEF Spec
-----------------------------------------------------------------------------
(* The slots                                                                *)

(* The slots of a period follow the moment they are computed for.           *)
LEMMA SlotsFollow ==
    ASSUME NEW t \in Nat \ {0}
    PROVE  /\ (t \div Period + 1) * Period > t
           /\ LaterOf(1, (t + Period - 1) \div Period) * Period >= t
<1> DEFINE P == Period
<1>1. P \in Nat \ {0}
  BY Constants
<1>2. ASSUME NEW x \in Nat, NEW m \in Nat \ {0}
      PROVE  x \div m \in Nat /\ x < (x \div m + 1) * m
  BY <1>2
<1>3. (t \div P + 1) * P > t
  BY <1>1, <1>2
<1>4. (t + P - 1) \div P \in Nat /\ t + P - 1 < ((t + P - 1) \div P + 1) * P
  <2>1. t + P - 1 \in Nat
    BY <1>1
  <2> QED
    BY <1>1, <1>2, <2>1
<1>5. ASSUME NEW q \in Nat, NEW m \in Nat \ {0}, t + m - 1 < (q + 1) * m
      PROVE  LaterOf(1, q) * m >= t
  <2>1. (q + 1) * m = q * m + m /\ q * m \in Nat
    BY <1>5
  <2>2. q * m >= t
    BY <1>5, <2>1
  <2>3. q # 0
    BY <2>2
  <2>4. LaterOf(1, q) = q
    BY <2>3 DEF LaterOf
  <2> QED
    BY <2>2, <2>4
<1> QED
  BY <1>1, <1>3, <1>4, <1>5

(* A job waits for a time after its last run, unless it is a one-shot job,  *)
(* which keeps the time it was given until it has succeeded.                *)
Timely(j, job) ==
    job.next # None /\ job.lastRun # None =>
        job.lastRun < job.next \/ (Kind[j] = "at" /\ job.next = Later(At[j]))

LEMMA ComputedAfter ==
    ASSUME NEW j \in Jobs, NEW job, job.enabled \in BOOLEAN, job.lastRun \in Times,
           NEW t \in 1..MaxNow, job.lastRun <= t,
           NEW c, c = ComputeNext(j, job, t), c # None
    PROVE  IF Kind[j] = "at" THEN c = Later(At[j]) ELSE job.lastRun < c
<1>1. /\ MaxNow \in Nat /\ t \in Nat \ {0} /\ t <= MaxNow /\ t \in Times
      /\ Period \in Nat \ {0} /\ job.lastRun \in Nat \ {0} /\ job.lastRun # None
  BY Constants DEF Times
<1>2. ~(~job.enabled \/ Served(j, job))
  BY DEF ComputeNext
<1>3. ASSUME NEW x \in Nat, job.lastRun < x PROVE job.lastRun < Later(x)
  BY <1>1, <1>3 DEF Later
<1>4. /\ (t \div Period + 1) * Period \in Nat
      /\ LaterOf(1, (t + Period - 1) \div Period) * Period \in Nat
  BY <1>1, Slots
<1>5. /\ (t \div Period + 1) * Period > t
      /\ LaterOf(1, (t + Period - 1) \div Period) * Period >= t
  BY <1>1, SlotsFollow
<1>6. CASE Kind[j] = "at"
  BY <1>2, <1>6 DEF ComputeNext
<1>7. CASE Kind[j] = "cron"
  <2> DEFINE x == (t \div Period + 1) * Period
  <2>1. x \in Nat /\ x > t /\ c = Later(x)
    BY <1>2, <1>4, <1>5, <1>7 DEF ComputeNext
  <2> HIDE DEF x
  <2>2. job.lastRun < x
    BY <1>1, <2>1
  <2> QED
    BY <1>3, <1>7, <2>1, <2>2
<1>8. CASE Kind[j] \notin {"at", "cron"} /\ job.lastRun + Period > t
  <2>1. c = Later(job.lastRun + Period)
    BY <1>1, <1>2, <1>8 DEF ComputeNext
  <2>2. job.lastRun + Period \in Nat /\ job.lastRun < job.lastRun + Period
    BY <1>1
  <2> QED
    BY <1>3, <1>8, <2>1, <2>2
<1>9. CASE Kind[j] \notin {"at", "cron"} /\ ~(job.lastRun + Period > t)
  <2> DEFINE x == LaterOf(1, (t + Period - 1) \div Period) * Period
  <2>1. x \in Nat /\ x >= t /\ c = Later(x)
    BY <1>2, <1>4, <1>5, <1>9 DEF ComputeNext
  <2> HIDE DEF x
  <2>2. job.lastRun < x
    BY <1>1, <1>9, <2>1
  <2> QED
    BY <1>3, <1>9, <2>1, <2>2
<1> QED
  BY <1>6, <1>7, <1>8, <1>9

(* The maintenance of a job whose slot has been executed or is missing: its *)
(* new slot is timely.                                                      *)
LEMMA SlotComputed ==
    ASSUME NEW j \in Jobs, NEW job \in JobStates, now \in 1..MaxNow,
           job.lastRun # None => job.lastRun <= now
    PROVE  Timely(j, [job EXCEPT !.next = ComputeNext(j, job, now)])
<1> DEFINE c == ComputeNext(j, job, now)
           b == [job EXCEPT !.next = c]
<1>1. b.next = c /\ b.lastRun = job.lastRun
  BY DEF JobStates
<1>2. ASSUME c # None, job.lastRun # None
      PROVE  job.lastRun < c \/ (Kind[j] = "at" /\ c = Later(At[j]))
  <2>1. job.enabled \in BOOLEAN /\ job.lastRun \in Times
    BY <1>2 DEF JobStates, Moments
  <2> HIDE DEF c
  <2> QED
    BY <1>2, <2>1, ComputedAfter DEF c
<1> HIDE DEF b, c
<1>3. Timely(j, b)
  BY <1>1, <1>2 DEF Timely
<1> QED
  BY <1>3 DEF b, c

(* What the maintenance does to a slot: it is kept, but for that of a       *)
(* one-shot job which has succeeded, and what it leaves is timely.          *)
LEMMA MaintainedSlot ==
    ASSUME NEW store \in JobStores, NEW expired \in BOOLEAN, now \in 1..MaxNow, NEW j \in Jobs,
           store[j].lastRun # None => store[j].lastRun <= now,
           Timely(j, store[j]) \/ (expired /\ store[j].running = None)
    PROVE  LET b == Maintain(store, expired)[j]
           IN  /\ Timely(j, b)
               /\ Timely(j, store[j]) /\ store[j].enabled /\ store[j].next # None =>
                     b.next = store[j].next \/ (expired /\ b.next = None)
<1> DEFINE n == Normalize(store[j])
           executed == /\ expired /\ n.next # None /\ now >= n.next /\ n.running = None
                       /\ n.lastRun # None /\ n.lastRun >= n.next
           c == ComputeNext(j, n, now)
           m == [n EXCEPT !.next = c]
           b == Maintain(store, expired)[j]
<1>1. store[j] \in JobStates /\ now \in Times /\ now \in Nat
  BY Constants DEF JobStores, Times
<1>2. /\ n \in JobStates /\ n.enabled = store[j].enabled /\ n.lastRun = store[j].lastRun
      /\ n.next = IF store[j].enabled THEN store[j].next ELSE None
      /\ n.running = None \/ n.running = store[j].running
  BY <1>1, NormalizeRepairs DEF SameJob
<1>3. b = IF n.enabled /\ (n.next = None \/ executed) THEN m ELSE n
  BY DEF Maintain
<1>4. Timely(j, m)
  BY <1>1, <1>2, SlotComputed
<1>5. m.next = c
  BY <1>2 DEF JobStates
<1>6. /\ n.next # None => n.next \in Nat
      /\ n.lastRun # None => n.lastRun \in Nat
  BY <1>2, Numbers
<1> HIDE DEF n, m, c, b
<1>7. Timely(j, b)
  <2>1. CASE b = m
    BY <1>4, <2>1
  <2>2. CASE b = n /\ ~(n.enabled /\ (n.next = None \/ executed))
    <3>1. ASSUME n.next # None, n.lastRun # None PROVE Timely(j, n)
      <4>1. n.enabled /\ n.next = store[j].next
        BY <1>2, <3>1
      <4>2. CASE Timely(j, store[j])
        BY <1>2, <4>1, <4>2 DEF Timely
      <4>3. CASE expired /\ store[j].running = None
        <5>1. ~(now >= n.next /\ n.lastRun >= n.next)
          BY <1>2, <2>2, <3>1, <4>1, <4>3
        <5>2. n.lastRun <= now
          BY <1>2, <3>1
        <5>3. n.lastRun < n.next
          BY <1>1, <1>6, <3>1, <5>1, <5>2
        <5> QED
          BY <5>3 DEF Timely
      <4> QED
        BY <4>2, <4>3
    <3> QED
      BY <2>2, <3>1 DEF Timely
  <2> QED
    BY <1>3, <2>1, <2>2
<1>8. ASSUME Timely(j, store[j]), store[j].enabled, store[j].next # None
      PROVE  b.next = store[j].next \/ (expired /\ b.next = None)
  <2>1. n.next = store[j].next /\ n.enabled
    BY <1>2, <1>8
  <2>2. ASSUME executed PROVE c = n.next \/ c = None
    <3>1. Kind[j] = "at" /\ n.next = Later(At[j])
      <4>1. ~(n.lastRun < n.next)
        BY <1>6, <2>2
      <4> QED
        BY <1>2, <1>8, <2>1, <2>2, <4>1 DEF Timely
    <3> QED
      BY <3>1 DEF c, ComputeNext
  <2> QED
    BY <1>3, <1>5, <1>8, <2>1, <2>2
<1> QED
  BY <1>7, <1>8 DEF b

LEMMA RecomputedSlot ==
    ASSUME NEW store \in JobStores, now \in 1..MaxNow, NEW j \in Jobs,
           store[j].lastRun # None => store[j].lastRun <= now, Timely(j, store[j])
    PROVE  Timely(j, Recompute(store)[j])
<1> DEFINE n == Normalize(store[j])
           m == [n EXCEPT !.next = ComputeNext(j, n, now)]
           b == Recompute(store)[j]
<1>1. store[j] \in JobStates
  BY DEF JobStores
<1>2. /\ n \in JobStates /\ n.lastRun = store[j].lastRun
      /\ n.next = None \/ n.next = store[j].next
  BY <1>1, NormalizeRepairs DEF SameJob
<1>3. b = m \/ b = n
  BY DEF Recompute
<1>4. Timely(j, m)
  BY <1>2, SlotComputed
<1>5. Timely(j, n)
  <2> HIDE DEF n
  <2> QED
    BY <1>2 DEF Timely
<1> HIDE DEF n, m, b
<1> QED
  BY <1>3, <1>4, <1>5 DEF b

(* The slot after a run follows its beginning, unless the schedule was kept *)
(* for a forced run; its marker is gone.                                    *)
LEMMA AppliedSlot ==
    ASSUME NEW j \in Jobs, NEW job \in JobStates, NEW r,
           r.started \in Times, r.ended \in 1..MaxNow, r.status \in Statuses, r.started <= r.ended
    PROVE  Timely(j, ApplyJobResult(j, job, r, FALSE))
<1> DEFINE failed == r.status \in Errors
           errors == IF ~failed THEN 0 ELSE IF job.errors > MaxAttempts THEN job.errors ELSE job.errors + 1
           ran == [job EXCEPT !.running = None, !.lastRun = r.started,
                              !.lastStatus = r.status, !.errors = errors]
           based == [ran EXCEPT !.lastRun = IF Kind[j] = "every" THEN r.started ELSE @]
           natural == ComputeNext(j, based, r.ended)
           retry == Later(r.ended + Backoff)
           again == r.status = "transient" /\ errors <= MaxAttempts
           b == ApplyJobResult(j, job, r, FALSE)
<1>1. /\ r.started \in Nat \ {0} /\ r.ended \in Nat \ {0} /\ Backoff \in Nat \ {0} /\ MaxNow \in Nat
      /\ r.ended <= MaxNow /\ r.ended \in Times
  BY Constants DEF Times
<1>2. retry \in Nat /\ r.started < retry
  BY <1>1 DEF Later
<1>3. /\ r.ended \in Times /\ b.lastRun = r.started
  BY <1>1, Applied
<1>4. ran.lastRun = r.started /\ ran.enabled = job.enabled /\ based.lastRun = r.started /\ based.enabled = job.enabled
  BY DEF JobStates
<1>5. natural \in Moments /\ (job.enabled /\ Kind[j] # "at" => natural # None)
  <2>1. based.enabled \in BOOLEAN /\ based.lastRun \in Moments
    BY <1>4 DEF JobStates, Moments
  <2> HIDE DEF based
  <2> QED
    BY <1>1, <1>4, <2>1, ComputedNext DEF Served
<1>6. natural # None /\ Kind[j] # "at" => r.started < natural
  <2>1. based.enabled \in BOOLEAN /\ based.lastRun \in Times /\ based.lastRun = r.started
    BY <1>4 DEF JobStates
  <2> HIDE DEF based
  <2> QED
    BY <2>1, ComputedAfter
<1>7. CASE Kind[j] = "at"
  <2>1. b = [ran EXCEPT !.enabled = again /\ @, !.next = IF again THEN retry ELSE None]
    BY <1>7 DEF ApplyJobResult
  <2>2. b.next = IF again THEN retry ELSE None
    <3> HIDE DEF again, retry
    <3> QED
      BY <2>1 DEF JobStates
  <2> HIDE DEF b, retry
  <2> QED
    BY <1>2, <1>3, <2>2 DEF Timely, b
<1>8. CASE Kind[j] # "at"
  <2> DEFINE next == IF ~job.enabled THEN None ELSE IF failed THEN LaterOf(natural, retry) ELSE natural
  <2>1. b = [ran EXCEPT !.next = next]
    BY <1>8 DEF ApplyJobResult
  <2>2. b.next = next
    <3> HIDE DEF next
    <3> QED
      BY <2>1 DEF JobStates
  <2> HIDE DEF b, retry, natural
  <2>3. job.enabled => natural # None /\ natural \in Nat /\ r.started < natural
    BY <1>5, <1>6, <1>8, Constants DEF Moments
  <2>4. next # None => r.started < next
    BY <1>1, <1>2, <2>3 DEF LaterOf
  <2> HIDE DEF next
  <2> QED
    BY <1>3, <2>2, <2>4 DEF Timely, b
<1> QED
  BY <1>7, <1>8

LEMMA OutcomeSlot ==
    ASSUME NEW store \in JobStores, NEW j \in Jobs, NEW r \in Works, r.at = "ended",
           r.ended <= now, now \in 1..MaxNow, r.started <= r.ended, NEW p \in BOOLEAN
    PROVE  LET b == ApplyOutcome(store, j, r, p)
           IN  /\ b \in JobStates /\ b.running = None /\ (b.lastRun # None => b.lastRun <= now)
               /\ p \/ Timely(j, b)
<1> DEFINE b == ApplyOutcome(store, j, r, p)
<1>1. r.started \in Times /\ r.ended \in Times /\ r.status \in Statuses /\ store[j] \in JobStates
  BY WorkKinds DEF JobStores
<1>2. r.ended \in 1..MaxNow /\ r.started <= now
  <2>1. r.started \in Nat \ {0} /\ r.ended \in Nat \ {0} /\ MaxNow \in Nat
    BY <1>1, Constants
  <2>2. now \in Nat /\ now <= MaxNow
    BY <2>1
  <2> QED
    BY <2>1, <2>2
<1>3. CASE b = Absent
  BY <1>3, AbsentIs DEF Timely
<1>4. CASE b # Absent
  <2>1. b = ApplyJobResult(j, store[j], r, p)
    BY <1>4 DEF ApplyOutcome
  <2>2. b \in JobStates /\ b.running = None /\ b.lastRun = r.started
    BY <1>1, <2>1, Applied
  <2>3. ~p => Timely(j, b)
    BY <1>1, <1>2, <2>1, AppliedSlot
  <2> QED
    BY <1>2, <2>2, <2>3
<1> QED
  BY <1>3, <1>4

(* Runs end after they began, and not in the future. *)
InOrder(w) == w.at = "ended" => w.started <= w.ended /\ w.ended <= now
RunsInOrder == \A f \in Flows, j \in Jobs : InOrder(batch[f].work[j])

(* The slots of the store in memory and on file are timely, and those on    *)
(* file are those in memory.                                                *)
SlotInv(j) ==
    /\ Timely(j, disk[j])
    /\ Loaded => /\ Timely(j, mem[j])
                 /\ disk[j].enabled /\ disk[j].next # None => mem[j].next = disk[j].next

(* What a step does to a slot: both stores get a timely one, the process    *)
(* ends, or the store in memory is repaired.                                *)
SlotStep(j) ==
    \/ disk'[j] = mem'[j] /\ Timely(j, disk'[j])
    \/ disk' = disk /\ mem' = None
    \/ /\ disk'[j] = disk[j] /\ (Loaded' => Loaded)
       /\ Loaded => /\ Timely(j, mem'[j])
                    /\ mem[j].enabled /\ mem[j].next # None => mem'[j].next = mem[j].next
SlotHeld(j) == disk[j].enabled /\ disk[j].next # None => disk'[j].next \in {disk[j].next, None}
SlotMoved(j) ==
    \/ \E f \in Claims(j) : batch'[f].work[j] = NoRun
    \/ FinishStart
    \/ \E k \in Jobs : Add(k) \/ Update(j, TRUE)

LEMMA SlotStepKeeps ==
    ASSUME NEW j \in Jobs, JobInv(j), SlotInv(j), SlotStep(j) PROVE SlotInv(j)'
BY DEF SlotStep, SlotInv, JobInv, SameJob, Loaded, Timely

LEMMA RunsStayInOrder ==
    ASSUME CronInv, RunsInOrder, [Next]_vars PROVE RunsInOrder'
<1>0. Sound /\ now \in Times /\ now \in Nat /\ Flows = {"tick", "catchup", "manual"}
  BY Now DEF CronInv, Sound, Flows
(* A step that gives a flow work which is not ended, or leaves it. *)
<1>1. ASSUME now' = now, NEW f \in Flows, NEW b, SetBatch(f, b),
             \A j \in Jobs : b.work[j].at # "ended" \/ b.work[j] = batch[f].work[j] \/ InOrder(b.work[j])
      PROVE  RunsInOrder'
  <2>1. batch'[f] = b /\ \A g \in Flows \ {f} : batch'[g] = batch[g]
    BY <1>0, <1>1, Batch
  <2> QED
    BY <1>1, <2>1 DEF RunsInOrder, InOrder
<1>2. ASSUME UNCHANGED batch, now' = now \/ now' = now + 1 PROVE RunsInOrder'
  <2>1. ASSUME NEW f \in Flows, NEW j \in Jobs, batch[f].work[j].at = "ended"
        PROVE  batch[f].work[j].ended <= now'
    <3>1. batch[f].work[j].ended \in Nat
      BY <1>0, <2>1, JobTypes, WorkKinds, Constants
    <3> QED
      BY <1>0, <1>2, <2>1, <3>1 DEF RunsInOrder, InOrder
  <2> QED
    BY <1>2, <2>1 DEF RunsInOrder, InOrder
<1>3. /\ \A j \in Jobs : Idle.work[j].at # "ended"
      /\ \A stage \in Stages, S \in SUBSET Jobs, j \in Jobs : Busy(stage, S).work[j].at # "ended"
      /\ \A k, j \in Jobs, forced \in BOOLEAN : Reserved(k, forced).work[j].at # "ended"
  BY <1>0, BatchIs, WorkIs
<1>4. CASE Start
  <2>1. now' = now /\ \E stage \in Stages, S \in SUBSET Jobs :
           SetBatch("catchup", Busy(stage, S)) \/ SetBatch("catchup", Idle)
    <3>1. {} \in SUBSET Jobs /\ {j \in Jobs \ interrupted : Missed(j, mem[j])} \in SUBSET Jobs
      OBVIOUS
    <3> QED
      BY <1>4, <3>1 DEF Start, ClearMarkers, CollectMissed, FinishStart, Stages
  <2> QED
    BY <1>0, <1>1, <1>3, <2>1
<1>5. CASE Tick
  <2>1. now' = now /\ \E stage \in Stages, S \in SUBSET Jobs :
           SetBatch("tick", Busy(stage, S)) \/ SetBatch("tick", Idle)
    <3>1. {} \in SUBSET Jobs /\ {j \in Jobs : Due(disk[j])} \in SUBSET Jobs
      OBVIOUS
    <3> QED
      BY <1>5, <3>1 DEF Tick, OnTimer, CollectDue, Stages
  <2> QED
    BY <1>0, <1>1, <1>3, <2>1
<1>6. ASSUME NEW f \in Flows, NEW k \in Jobs, NEW w, SetBatch(f, [batch[f] EXCEPT !.work[k] = w]),
             now' = now, InOrder(w)
      PROVE  RunsInOrder'
  <2> DEFINE b == [batch[f] EXCEPT !.work[k] = w]
  <2>1. \A j \in Jobs : b.work[j] = IF j = k THEN w ELSE batch[f].work[j]
    BY <1>0 DEF Sound, BatchesOK, Batches
  <2>2. SetBatch(f, b)
    BY <1>6
  <2> HIDE DEF b
  <2>3. \A j \in Jobs : b.work[j] = batch[f].work[j] \/ InOrder(b.work[j])
    BY <1>6, <2>1
  <2> QED
    BY <1>1, <1>6, <2>2, <2>3
<1>7. CASE Execute
  <2>1. ASSUME NEW f \in Flows, NEW k \in Jobs, StartJob(f, k) PROVE RunsInOrder'
    <3>1. Live(now).at = "live"
      BY <1>0, WorkIs
    <3> QED
      BY <1>6, <2>1, <3>1 DEF StartJob, InOrder
  <2>2. ASSUME NEW f \in Flows, NEW k \in Jobs, NEW x \in Outcomes, EndJob(f, k, x) PROVE RunsInOrder'
    <3> DEFINE w == Ended(batch[f].work[k].started, now, x)
    <3>1. w.started = batch[f].work[k].started /\ w.ended = now
      BY DEF Ended
    <3>2. batch[f].work[k].started <= now
      BY <2>2 DEF EndJob, CronInv, JobInv, Begun
    <3> HIDE DEF w
    <3>3. InOrder(w)
      BY <1>0, <3>1, <3>2 DEF InOrder
    <3>4. SetBatch(f, [batch[f] EXCEPT !.work[k] = w]) /\ now' = now
      BY <2>2 DEF EndJob, w
    <3> QED
      BY <1>6, <3>3, <3>4
  <2> QED
    BY <1>7, <2>1, <2>2 DEF Execute
<1>8. CASE Settle
  <2>1. now' = now /\ \E f \in Flows, stage \in Stages, S \in SUBSET Jobs :
           SetBatch(f, Busy(stage, S)) \/ SetBatch(f, Idle)
    <3>1. {} \in SUBSET Jobs
      OBVIOUS
    <3> QED
      BY <1>0, <1>8, <3>1 DEF Settle, SettleBatch, SettleManual, Stages
  <2> QED
    BY <1>1, <1>3, <2>1
<1>9. CASE Call
  <2>1. now' = now /\ (UNCHANGED batch
           \/ \E k \in Jobs, forced \in BOOLEAN : SetBatch("manual", Reserved(k, forced)))
    BY <1>9 DEF Call, Add, Remove, Update, ManualRun, Write
  <2> QED
    BY <1>0, <1>1, <1>2, <1>3, <2>1
<1>10. CASE List \/ Advance \/ UNCHANGED vars
  <2>1. UNCHANGED batch /\ (now' = now \/ now' = now + 1)
    BY <1>10 DEF List, Advance, vars, flows
  <2> QED
    BY <1>2, <2>1
<1>11. CASE Crash
  <2>1. \A f \in Flows : \E b : batch'[f] = b /\ \A j \in Jobs : b.work[j].at # "ended"
    <3>1. {} \in SUBSET Jobs /\ "clearing" \in Stages
      BY DEF Stages
    <3> QED
      BY <1>3, <1>11, <3>1 DEF Crash, Fresh
  <2> QED
    BY <2>1 DEF RunsInOrder, InOrder
<1> QED
  BY <1>4, <1>5, <1>7, <1>8, <1>9, <1>10, <1>11 DEF Next

(* The facts about a state that the steps use. *)
LEMMA SlotFacts ==
    ASSUME CronInv, NEW j \in Jobs
    PROVE  /\ now \in 1..MaxNow /\ now \in Times
           /\ disk \in JobStores /\ disk[j] \in JobStates
           /\ disk[j].lastRun # None => disk[j].lastRun <= now
           /\ Loaded => /\ mem \in JobStores /\ mem[j] \in JobStates /\ SameJob(mem[j], disk[j])
                        /\ mem[j].lastRun # None => mem[j].lastRun <= now
BY JobTypes DEF CronInv, Sound, StoresOK, RestOK, Loaded, JobInv, Plain

(* Both stores become one that has the slots of the old.                    *)
LEMMA SlotWritten ==
    ASSUME CronInv, NEW j \in Jobs, SlotInv(j), NEW store, Persist(store),
           NEW a \in {disk[j], mem[j]}, a = disk[j] \/ Loaded,
           store[j].lastRun = a.lastRun, store[j].next = a.next
    PROVE  SlotStep(j) /\ SlotHeld(j)
<1>1. disk'[j] = store[j] /\ mem'[j] = store[j]
  BY DEF Persist
<1>2. Timely(j, store[j])
  BY DEF SlotInv, Timely
<1>3. SlotHeld(j)
  BY <1>1 DEF SlotHeld, SlotInv
<1> QED
  BY <1>1, <1>2, <1>3 DEF SlotStep

(* Both stores become one that was repaired.                                *)
LEMMA SlotRepaired ==
    ASSUME CronInv, NEW j \in Jobs, SlotInv(j), NEW expired \in BOOLEAN,
           NEW store \in JobStores, Persist(Maintain(store, expired)),
           store[j] = disk[j] \/ (Loaded /\ store[j] = mem[j])
    PROVE  SlotStep(j) /\ SlotHeld(j)
<1> DEFINE b == Maintain(store, expired)[j]
<1>1. /\ store[j].lastRun # None => store[j].lastRun <= now
      /\ Timely(j, store[j]) /\ store[j].enabled = disk[j].enabled
      /\ disk[j].enabled /\ disk[j].next # None => store[j].next = disk[j].next
  BY SlotFacts DEF SlotInv, SameJob
<1>2. Timely(j, b) /\ (store[j].enabled /\ store[j].next # None => b.next \in {store[j].next, None})
  BY <1>1, SlotFacts, MaintainedSlot
<1>3. disk'[j] = b /\ mem'[j] = b
  BY DEF Persist
<1> HIDE DEF b
<1> QED
  BY <1>1, <1>2, <1>3 DEF SlotStep, SlotHeld

LEMMA StartSlots ==
    ASSUME CronInv, NEW j \in Jobs, SlotInv(j), Start
    PROVE  SlotStep(j) /\ (SlotMoved(j) \/ SlotHeld(j))
<1>0. now \in 1..MaxNow /\ now \in Times /\ disk \in JobStores /\ disk[j] \in JobStates
  BY SlotFacts
<1>1. CASE ClearMarkers
  <2> DEFINE store == [k \in Jobs |-> [disk[k] EXCEPT !.running = None]]
  <2>1. store[j].lastRun = disk[j].lastRun /\ store[j].next = disk[j].next
    BY <1>0 DEF JobStates
  <2>2. Persist(store)
    BY <1>1 DEF ClearMarkers
  <2> HIDE DEF store
  <2> QED
    BY <2>1, <2>2, SlotWritten
<1>2. CASE CollectMissed
  <2> DEFINE missed == {k \in Jobs \ interrupted : Missed(k, mem[k])}
  <2>1. Loaded /\ mem \in JobStores
    BY <1>2, SlotFacts DEF CollectMissed, CronInv, Sound, Boot
  <2>2. missed \in SUBSET Jobs
    OBVIOUS
  <2>3. CASE missed = {}
    <3>1. UNCHANGED <<mem, disk>>
      BY <1>2, <2>3 DEF CollectMissed
    <3> QED
      BY <2>1, <3>1 DEF SlotStep, SlotHeld, SlotInv
  <2>4. CASE missed # {}
    <3>1. Persist(Mark(mem, missed))
      BY <1>2, <2>4 DEF CollectMissed
    <3> HIDE DEF missed
    <3>2. Mark(mem, missed)[j].lastRun = mem[j].lastRun /\ Mark(mem, missed)[j].next = mem[j].next
      BY <1>0, <2>1, <2>2, MarkIs DEF SameJob
    <3> QED
      BY <2>1, <3>1, <3>2, SlotWritten
  <2> QED
    BY <2>3, <2>4
<1>3. CASE FinishStart
  <2>1. Timely(j, Recompute(disk)[j])
    BY <1>0, SlotFacts, RecomputedSlot DEF SlotInv
  <2>2. disk'[j] = Recompute(disk)[j] /\ mem'[j] = Recompute(disk)[j]
    BY <1>3 DEF FinishStart, Persist
  <2> QED
    BY <1>3, <2>1, <2>2 DEF SlotStep, SlotMoved
<1> QED
  BY <1>1, <1>2, <1>3 DEF Start

LEMMA TickSlots ==
    ASSUME CronInv, NEW j \in Jobs, SlotInv(j), Tick
    PROVE  SlotStep(j) /\ SlotHeld(j)
<1>0. now \in Times /\ disk \in JobStores
  BY SlotFacts
<1>1. CASE OnTimer
  BY <1>1 DEF OnTimer, stores, SlotStep, SlotHeld, SlotInv, Loaded
<1>2. CASE CollectDue
  <2> DEFINE due == {k \in Jobs : Due(disk[k])}
  <2>1. due \in SUBSET Jobs
    OBVIOUS
  <2>2. CASE due = {}
    <3>1. Persist(Maintain(disk, TRUE))
      BY <1>2, <2>2 DEF CollectDue
    <3> QED
      BY <1>0, <3>1, SlotRepaired
  <2>3. CASE due # {}
    <3>1. Persist(Mark(disk, due))
      BY <1>2, <2>3 DEF CollectDue
    <3> HIDE DEF due
    <3>2. Mark(disk, due)[j].lastRun = disk[j].lastRun /\ Mark(disk, due)[j].next = disk[j].next
      BY <1>0, <2>1, MarkIs DEF SameJob
    <3> QED
      BY <3>1, <3>2, SlotWritten
  <2> QED
    BY <2>2, <2>3
<1> QED
  BY <1>1, <1>2 DEF Tick

LEMMA ExecuteSlots ==
    ASSUME CronInv, NEW j \in Jobs, SlotInv(j), Execute
    PROVE  SlotStep(j) /\ SlotHeld(j)
<1>1. Sound
  BY DEF CronInv
<1>2. ASSUME NEW f \in Flows, NEW k \in Jobs, StartJob(f, k) PROVE SlotStep(j) /\ SlotHeld(j)
  <2>1. Loaded /\ mem \in JobStores
    BY <1>1, <1>2, WorkLoaded, WorkIs DEF StartJob
  <2>2. disk' = disk /\ (mem' = mem \/ mem' = [mem EXCEPT ![k].running = now])
    BY <1>2 DEF StartJob
  <2>3. mem'[j].next = mem[j].next /\ mem'[j].lastRun = mem[j].lastRun
    BY <2>1, <2>2 DEF JobStores, JobStates
  <2> QED
    BY <2>1, <2>2, <2>3 DEF SlotStep, SlotHeld, SlotInv, Timely
<1>3. ASSUME NEW f \in Flows, NEW k \in Jobs, NEW x \in Outcomes, EndJob(f, k, x)
      PROVE  SlotStep(j) /\ SlotHeld(j)
  BY <1>3 DEF EndJob, stores, SlotStep, SlotHeld, SlotInv, Loaded
<1> QED
  BY <1>2, <1>3 DEF Execute

LEMMA SettleSlots ==
    ASSUME CronInv, RunsInOrder, NEW j \in Jobs, SlotInv(j), Settle
    PROVE  SlotStep(j) /\ (SlotMoved(j) \/ SlotHeld(j))
<1>0. /\ now \in 1..MaxNow /\ now \in Times /\ disk \in JobStores /\ disk[j] \in JobStates
      /\ Sound /\ ByHand /\ "manual" \in Flows /\ TRUE \in BOOLEAN /\ FALSE \in BOOLEAN
  BY SlotFacts DEF CronInv, Flows
(* A job whose run is settled. *)
<1>1. ASSUME NEW f \in Flows, NEW b, SetBatch(f, b), b.work[j] = NoRun, batch[f].work[j] # NoRun
      PROVE  SlotMoved(j)
  <2>1. batch'[f].work[j] = NoRun /\ f \in Claims(j)
    BY <1>0, <1>1, Batch DEF Claims
  <2> QED
    BY <2>1 DEF SlotMoved
<1>2. ASSUME NEW f \in Flows, batch[f].work[j] # NoRun, batch[f].work[j].at = "ended",
             NEW store \in JobStores, NEW p \in BOOLEAN
      PROVE  LET a == ApplyOutcome(store, j, batch[f].work[j], p)
             IN  a \in JobStates /\ a.running = None /\ (a.lastRun # None => a.lastRun <= now)
                 /\ (p \/ Timely(j, a))
  <2>1. InOrder(batch[f].work[j]) /\ batch[f].work[j] \in Works
    BY <1>0, JobTypes DEF RunsInOrder
  <2> QED
    BY <1>0, <1>2, <2>1, OutcomeSlot DEF InOrder
<1>3. ASSUME NEW f \in Flows, SettleBatch(f) PROVE SlotStep(j) /\ (SlotMoved(j) \/ SlotHeld(j))
  <2> DEFINE work == batch[f].work
             settled == [k \in Jobs |-> IF work[k] = NoRun THEN disk[k] ELSE ApplyOutcome(disk, k, work[k], FALSE)]
  <2>1. \A k \in Jobs : work[k] # NoRun => work[k] \in Works /\ work[k].at = "ended"
    BY <1>0, <1>3, WorkKinds DEF SettleBatch, AllEnded, Sound, BatchesOK, Batches
  <2>2. settled \in JobStores
    <3>1. \A k \in Jobs : settled[k] \in JobStates
      BY <1>0, <2>1, OutcomeType DEF JobStores
    <3> QED
      BY <3>1 DEF JobStores
  <2>3. Persist(Maintain(settled, FALSE))
    BY <1>3 DEF SettleBatch
  <2>4. settled[j] = IF work[j] = NoRun THEN disk[j] ELSE ApplyOutcome(disk, j, work[j], FALSE)
    OBVIOUS
  <2> HIDE DEF settled
  <2>5. CASE work[j] = NoRun
    BY <1>0, <2>2, <2>3, <2>4, <2>5, SlotRepaired
  <2>6. CASE work[j] # NoRun
    <3>1. Timely(j, settled[j]) /\ (settled[j].lastRun # None => settled[j].lastRun <= now)
      BY <1>0, <1>2, <2>1, <2>4, <2>6
    <3>2. Timely(j, Maintain(settled, FALSE)[j])
      BY <1>0, <2>2, <3>1, MaintainedSlot
    <3>3. SlotStep(j)
      BY <2>3, <3>2 DEF SlotStep, Persist
    <3>4. SetBatch(f, Idle) \/ SetBatch(f, Busy("finishing", {}))
      BY <1>3 DEF SettleBatch
    <3>5. Idle.work[j] = NoRun /\ Busy("finishing", {}).work[j] = NoRun
      BY BatchIs DEF Stages
    <3> QED
      BY <1>1, <2>6, <3>3, <3>4, <3>5
  <2> QED
    BY <2>5, <2>6
<1>4. ASSUME NEW k \in Jobs, SettleManual(k) PROVE SlotStep(j) /\ (SlotMoved(j) \/ SlotHeld(j))
  <2> DEFINE r == batch["manual"].work[k]
             p == batch["manual"].forced
             mine == ApplyOutcome(mem, k, r, p)
             merged == IF Has(disk, k) THEN [disk EXCEPT ![k] = mine] ELSE disk
  <2>1. r \in Works /\ r # NoRun /\ r.at = "ended" /\ p \in BOOLEAN
    BY <1>0, <1>4, WorkKinds DEF SettleManual, AllEnded, Sound, BatchesOK, Batches
  <2>2. mem \in JobStores /\ Loaded
    BY <1>0, <1>4, <2>1, WorkLoaded
  <2>3. mine \in JobStates
    BY <2>1, <2>2, OutcomeType
  <2>4. j = k => /\ mine.running = None /\ (mine.lastRun # None => mine.lastRun <= now)
    BY <1>0, <1>2, <2>1, <2>2
  <2>5. SetBatch("manual", Idle) /\ Idle.work[j] = NoRun
    BY <1>4, BatchIs DEF SettleManual
  <2>6. UNCHANGED <<disk, mem>> \/ Persist(Maintain(merged, TRUE))
    BY <1>4 DEF SettleManual, stores
  <2> HIDE DEF mine
  <2>7. merged \in JobStores /\ merged[j] = IF j = k /\ Has(disk, k) THEN mine ELSE disk[j]
    BY <1>0, <2>3 DEF JobStores
  <2> HIDE DEF merged
  <2>8. CASE UNCHANGED <<disk, mem>>
    BY <2>2, <2>8 DEF SlotStep, SlotHeld, SlotInv
  <2>9. CASE Persist(Maintain(merged, TRUE)) /\ merged[j] = disk[j]
    BY <1>0, <2>7, <2>9, SlotRepaired
  <2>10. CASE Persist(Maintain(merged, TRUE)) /\ j = k /\ merged[j] = mine
    <3>1. Timely(j, Maintain(merged, TRUE)[j])
      BY <1>0, <2>4, <2>7, <2>10, MaintainedSlot
    <3>2. SlotStep(j)
      BY <2>10, <3>1 DEF SlotStep, Persist
    <3> QED
      BY <1>0, <1>1, <2>1, <2>5, <2>10, <3>2
  <2> QED
    BY <2>6, <2>7, <2>8, <2>9, <2>10
<1> QED
  BY <1>3, <1>4 DEF Settle

LEMMA CallSlots ==
    ASSUME CronInv, NEW j \in Jobs, SlotInv(j), Call
    PROVE  SlotStep(j) /\ (SlotMoved(j) \/ SlotHeld(j))
<1>0. Loaded /\ FALSE \in BOOLEAN
  BY DEF Call, Add, Remove, Update, ManualRun, Called
<1>1. /\ now \in 1..MaxNow /\ now \in Times
      /\ mem \in JobStores /\ mem[j] \in JobStates /\ disk[j] \in JobStates /\ SameJob(mem[j], disk[j])
      /\ mem[j].lastRun # None => mem[j].lastRun <= now
      /\ Timely(j, mem[j])
  BY <1>0, SlotFacts DEF SlotInv
<1>2. ASSUME NEW k \in Jobs, Add(k) PROVE SlotStep(j) /\ SlotMoved(j)
  <2> DEFINE new == NewJob(k, Kind[k] = "at")
             store == [mem EXCEPT ![k] = new]
  <2>1. new \in JobStates /\ new.lastRun = None
    <3>1. (Kind[k] = "at") \in BOOLEAN
      OBVIOUS
    <3> QED
      BY <1>1, <3>1, NewJobIs
  <2>2. Write(Recompute(store))
    BY <1>2 DEF Add
  <2> HIDE DEF new
  <2>3. store \in JobStores /\ store[j] = IF j = k THEN new ELSE mem[j]
    BY <1>1, <2>1 DEF JobStores
  <2> HIDE DEF store
  <2>4. Timely(j, store[j]) /\ (store[j].lastRun # None => store[j].lastRun <= now)
    BY <1>1, <2>1, <2>3 DEF Timely
  <2>5. Timely(j, Recompute(store)[j])
    BY <1>1, <2>3, <2>4, RecomputedSlot
  <2>6. SlotStep(j)
    BY <2>2, <2>5 DEF SlotStep, Write, Persist
  <2> QED
    BY <1>2, <2>6 DEF SlotMoved
(* The store in memory is written, but for one job. *)
<1>3. ASSUME NEW store, Write(store), store[j] = mem[j] PROVE SlotStep(j) /\ SlotHeld(j)
  BY <1>0, <1>3, SlotWritten DEF Write
<1>4. ASSUME NEW k \in Jobs, Remove(k) PROVE SlotStep(j) /\ SlotHeld(j)
  <2> DEFINE store == [mem EXCEPT ![k] = Absent]
  <2>1. store[j] = IF j = k THEN Absent ELSE mem[j]
    BY <1>1 DEF JobStores
  <2>2. Write(store)
    BY <1>4 DEF Remove
  <2> HIDE DEF store
  <2>3. CASE j = k
    <3>1. disk'[j] = Absent /\ mem'[j] = Absent
      BY <2>1, <2>2, <2>3 DEF Write, Persist
    <3> QED
      BY <3>1, AbsentIs DEF SlotStep, SlotHeld, Timely
  <2> QED
    BY <1>3, <2>1, <2>2, <2>3
<1>5. ASSUME NEW k \in Jobs, NEW e \in BOOLEAN, Update(k, e)
      PROVE  SlotStep(j) /\ (SlotMoved(j) \/ SlotHeld(j))
  <2> DEFINE set == [mem[k] EXCEPT !.enabled = e]
             next == ComputeNext(k, set, now)
             job == [mem[k] EXCEPT !.enabled = e, !.next = next]
             final == IF e THEN job ELSE [job EXCEPT !.running = None]
             edited == [mem EXCEPT ![k] = final]
  <2>1. mem[k] \in JobStates
    BY <1>1 DEF JobStores
  <2>2. edited[j] = IF j = k THEN final ELSE mem[j]
    BY <1>1 DEF JobStores
  <2>3. Write(edited)
    BY <1>5 DEF Update
  <2>4. CASE j # k
    <3> HIDE DEF edited
    <3> QED
      BY <1>3, <2>2, <2>3, <2>4
  <2>5. CASE j = k
    <3>1. set \in JobStates /\ set.lastRun = mem[j].lastRun /\ set.enabled = e
      BY <2>1, <2>5 DEF JobStates
    <3>2. final.next = next /\ final.lastRun = mem[j].lastRun
      <4> HIDE DEF next
      <4> QED
        BY <2>1, <2>5 DEF JobStates
    <3>3. Timely(j, final)
      <4>1. Timely(j, [set EXCEPT !.next = next])
        <5> HIDE DEF set
        <5> QED
          BY <1>1, <2>5, <3>1, SlotComputed
      <4>2. [set EXCEPT !.next = next].next = next /\ [set EXCEPT !.next = next].lastRun = mem[j].lastRun
        <5> HIDE DEF set, next
        <5> QED
          BY <3>1 DEF JobStates
      <4> HIDE DEF set, final
      <4> QED
        BY <3>2, <4>1, <4>2 DEF Timely
    <3>4. disk'[j] = final /\ mem'[j] = final
      <4> HIDE DEF edited, final
      <4> QED
        BY <2>2, <2>3, <2>5 DEF Write, Persist
    <3>5. ~e => next = None
      <4> HIDE DEF set
      <4> QED
        BY <3>1 DEF ComputeNext
    <3> HIDE DEF final
    <3>6. SlotStep(j)
      BY <3>3, <3>4 DEF SlotStep
    <3>7. CASE e = TRUE
      BY <1>5, <2>5, <3>6, <3>7 DEF SlotMoved
    <3>8. CASE e = FALSE
      BY <3>2, <3>4, <3>5, <3>6, <3>8 DEF SlotHeld
    <3> QED
      BY <3>7, <3>8
  <2> QED
    BY <2>4, <2>5
<1>6. ASSUME NEW k \in Jobs, NEW forced \in BOOLEAN, ManualRun(k, forced)
      PROVE  SlotStep(j) /\ SlotHeld(j)
  <2> DEFINE kept == Maintain(mem, FALSE)
  <2>1. kept \in JobStores /\ SameJob(mem[j], kept[j])
    BY <1>0, <1>1, Maintained DEF Repaired
  <2>2. Timely(j, kept[j]) /\ (mem[j].enabled /\ mem[j].next # None => kept[j].next = mem[j].next)
    BY <1>0, <1>1, MaintainedSlot
  <2>3. Persist(Mark(kept, {k})) \/ (mem' = kept /\ UNCHANGED disk)
    BY <1>6 DEF ManualRun
  <2> HIDE DEF kept
  <2>4. CASE mem' = kept /\ UNCHANGED disk
    BY <1>0, <2>2, <2>4 DEF SlotStep, SlotHeld
  <2>5. CASE Persist(Mark(kept, {k}))
    <3>1. {k} \in SUBSET Jobs
      OBVIOUS
    <3>2. Mark(kept, {k})[j].lastRun = kept[j].lastRun /\ Mark(kept, {k})[j].next = kept[j].next
      BY <1>1, <2>1, <3>1, MarkIs DEF SameJob
    <3>3. disk'[j] = Mark(kept, {k})[j] /\ mem'[j] = Mark(kept, {k})[j]
      BY <2>5 DEF Persist
    <3>4. disk'[j].next = kept[j].next /\ Timely(j, disk'[j]) /\ disk'[j] = mem'[j]
      BY <2>2, <3>2, <3>3 DEF Timely
    <3>5. disk[j].enabled /\ disk[j].next # None => kept[j].next = disk[j].next
      BY <1>0, <1>1, <2>2 DEF SlotInv, SameJob
    <3> QED
      BY <3>4, <3>5 DEF SlotStep, SlotHeld
  <2> QED
    BY <2>3, <2>4, <2>5
<1> QED
  BY <1>2, <1>4, <1>5, <1>6 DEF Call

LEMMA RestSlots ==
    ASSUME CronInv, NEW j \in Jobs, SlotInv(j), List \/ Crash \/ Advance \/ UNCHANGED vars
    PROVE  SlotStep(j) /\ SlotHeld(j)
<1>1. CASE List
  <2>1. Loaded /\ FALSE \in BOOLEAN /\ mem \in JobStores /\ Persist(Maintain(mem, FALSE))
    BY <1>1, SlotFacts DEF List
  <2> QED
    BY <2>1, SlotRepaired
<1>2. CASE Crash
  BY <1>2 DEF Crash, SlotStep, SlotHeld
<1>3. CASE Advance \/ UNCHANGED vars
  BY <1>3 DEF Advance, vars, stores, SlotStep, SlotHeld, SlotInv, Loaded
<1> QED
  BY <1>1, <1>2, <1>3

(* A slot that is due stays until its run is settled: no tick, manual run,  *)
(* read, restart or result of another job moves it into the future.  An     *)
(* edit of the job, the addition of another one and the end of start() do.  *)
THEOREM NoSlotIsSkipped == Spec => SlotsAreRun
<1> DEFINE SlotsAreTimely == \A j \in Jobs : SlotInv(j)
<1>1. Init => RunsInOrder /\ SlotsAreTimely
  <2> SUFFICES ASSUME Init PROVE RunsInOrder /\ SlotsAreTimely
    OBVIOUS
  <2>1. now \in Times
    BY SoundInit, Now DEF Sound
  <2>2. \A f \in Flows, j \in Jobs : batch[f].work[j] = NoRun
    BY BatchIs DEF Init, Fresh, Stages
  <2>3. RunsInOrder
    BY <2>2, WorkIs DEF RunsInOrder, InOrder
  <2>4. ASSUME NEW j \in Jobs PROVE SlotInv(j)
    <3>1. \E stored, D : disk = [k \in Jobs |-> IF k \in stored THEN NewJob(k, k \in D) ELSE Absent]
      BY Zenon DEF Init
    <3>2. PICK stored, D : disk = [k \in Jobs |-> IF k \in stored THEN NewJob(k, k \in D) ELSE Absent]
      BY <3>1
    <3>3. disk[j] = (IF j \in stored THEN NewJob(j, j \in D) ELSE Absent) /\ (j \in D) \in BOOLEAN
      BY <3>2
    <3>4. disk[j].lastRun = None
      BY <2>1, <3>3, NewJobIs, AbsentIs
    <3>5. ~Loaded
      BY DEF Init, Loaded
    <3> QED
      BY <3>4, <3>5 DEF SlotInv, Timely
  <2> QED
    BY <2>3, <2>4
<1>2. ASSUME CronInv, RunsInOrder, SlotsAreTimely, [Next]_vars, NEW j \in Jobs
      PROVE  SlotStep(j) /\ (SlotMoved(j) \/ SlotHeld(j))
  <2>1. SlotInv(j)
    BY <1>2
  <2> HIDE DEF SlotsAreTimely
  <2> QED
    BY <1>2, <2>1, StartSlots, TickSlots, ExecuteSlots, SettleSlots, CallSlots, RestSlots DEF Next
<1>3. CronInv /\ RunsInOrder /\ SlotsAreTimely /\ [Next]_vars => RunsInOrder' /\ SlotsAreTimely'
  <2> SUFFICES ASSUME CronInv, RunsInOrder, SlotsAreTimely, [Next]_vars PROVE RunsInOrder' /\ SlotsAreTimely'
    OBVIOUS
  <2>1. ASSUME NEW j \in Jobs PROVE SlotInv(j)'
    BY <1>2, SlotStepKeeps DEF CronInv
  <2> QED
    BY <2>1, RunsStayInOrder
<1>4. ASSUME CronInv, RunsInOrder, SlotsAreTimely, [Next]_vars, NEW j \in Jobs,
             disk[j].enabled, disk[j].next # None, disk[j].next <= now,
             disk'[j].enabled, disk'[j].next # None, disk'[j].next > now
      PROVE  SlotMoved(j)
  <2>1. disk'[j].next # disk[j].next
    <3>1. disk[j].next \in Nat /\ now \in Nat
      BY <1>4, JobTypes, Numbers DEF CronInv
    <3> QED
      BY <1>4, <3>1
  <2>2. ~SlotHeld(j)
    BY <1>4, <2>1 DEF SlotHeld
  <2> QED
    BY <1>2, <1>4, <2>2
<1>5. CronInv /\ RunsInOrder /\ SlotsAreTimely /\ [Next]_vars =>
        [\A j \in Jobs :
           (/\ disk[j].enabled /\ disk[j].next # None /\ disk[j].next <= now
            /\ disk'[j].enabled /\ disk'[j].next # None /\ disk'[j].next > now)
           => \/ \E f \in Claims(j) : batch'[f].work[j] = NoRun
              \/ FinishStart
              \/ \E k \in Jobs : Add(k) \/ Update(j, TRUE)]_vars
  <2> HIDE DEF SlotsAreTimely
  <2> QED
    BY <1>4 DEF SlotMoved
<1> HIDE DEF SlotsAreTimely
<1> QED
  BY <1>1, <1>3, <1>5, CronInvariance, PTL DEF Spec, SlotsAreRun
=============================================================================
