----------------------- MODULE SessionWriteLockProofs -----------------------
(* Theorems about the session write lock, for any tasks, processes, pids    *)
(* and number of faults.                                                    *)
EXTENDS SessionWriteLock, FiniteSetTheorems, TLAPS

(* The steps of one task, and those of a process or of time. *)
TaskStep(t) ==
    \/ Reenter(t) \/ Contend(t) \/ GiveUp(t) \/ Release(t)
    \/ WriteFails(t) \/ StatFails(t) \/ UnlinkFails(t)
ProcStep(p) ==
    \/ Evict(p) \/ WatchdogUnlinks(p) \/ ReleaseAll(p)
    \/ SweepReads(p) \/ Sweep(p) \/ Crash(p) \/ Start(p)

-----------------------------------------------------------------------------
(* Types *)

(* Only a process that is up has tasks at work, and who judges has read. *)
AtWork ==
    /\ \A t \in Tasks : stage[t] # "idle" => pid[ProcOf[t]] # None
    /\ \A t \in Tasks : stage[t] = "judging" => seen[t] # None
    /\ \A p \in Procs : sweep[p] = "judging" => seen[p] # None

LEMMA TypeInit == Init => TypeOK /\ AtWork
<1> SUFFICES ASSUME Init PROVE TypeOK /\ AtWork
  OBVIOUS
<1> USE LockAssumption
<1>1. stage \in [Tasks -> Stages] /\ AtWork
  BY DEF Init, Stages, AtWork
<1>2. sweep \in [Procs -> SweepStages]
  BY DEF Init, SweepStages
<1>3. started \in [Pids -> Nat \union {None}] /\ pid \in [Procs -> Pids \union {None}]
  BY DEF Init
<1>4. held \in [Procs -> [maker : Tasks, count : Nat \ {0}] \union {None}]
  BY DEF Init
<1>5. watchdog \in [Procs -> BOOLEAN]
  BY DEF Init
<1>6. startTimes \in BOOLEAN
  BY Zenon DEF Init
<1>7. file \in Files \union {None} /\ faults \in 0..MaxFaults /\ harm \in {"none", "swept", "usurped"}
  BY DEF Init
<1>8. seen \in [Tasks \union Procs -> Payloads \union {None}]
  BY DEF Init
<1> QED
  BY <1>1, <1>2, <1>3, <1>4, <1>5, <1>6, <1>7, <1>8, Zenon DEF TypeOK

LEMMA PayloadIs ==
    ASSUME TypeOK, Written
    PROVE  /\ Payload \in Payloads /\ Payload # None
           /\ Payload.pid = file.pid /\ Payload.start = file.start
<1>1. file \in Files /\ file.pid \in Pids
  BY DEF TypeOK, Written, Files
<1>2. Payload \in Payloads
  BY <1>1 DEF Payload, Payloads, Files
<1> QED
  BY <1>2, LockAssumption DEF Payload

LEMMA TypeTask ==
    ASSUME TypeOK, AtWork, HolderCount, NEW t \in Tasks, TaskStep(t)
    PROVE  TypeOK' /\ AtWork'
<1> USE LockAssumption
<1> USE DEF processes, To
<1>0. t \notin Procs
  OBVIOUS
<1>1. CASE Reenter(t)
  <2>1. stage' \in [Tasks -> Stages]
    BY <1>1 DEF Reenter, TypeOK, Stages
  <2>3. pid[ProcOf[t]] # None
    <3>1. ProcOf[t] \in Procs /\ held[ProcOf[t]].count # 0
      BY <1>1 DEF Reenter, TypeOK
    <3>2. Holders(ProcOf[t]) # {}
      BY <1>1, <3>1, FS_EmptySet DEF Reenter, HolderCount
    <3> QED
      BY <3>2 DEF Holders, AtWork
  <2>4. AtWork'
    BY <1>1, <2>3 DEF Reenter, TypeOK, AtWork
  <2>2. held' \in [Procs -> [maker : Tasks, count : Nat \ {0}] \union {None}]
    BY <1>1 DEF Reenter, TypeOK
  <2> QED
    BY <1>1, <2>1, <2>2, <2>4 DEF Reenter, TypeOK
<1>2. CASE Open(t)
  BY <1>2 DEF Open, Tries, NewFile, Files, TypeOK, AtWork, Stages
<1>3. CASE Write(t)
  <2>1. pid[ProcOf[t]] \in Pids
    BY <1>3 DEF Write, AtWork, TypeOK
  <2>2. StartTime(ProcOf[t]) \in Nat \union {None}
    BY <2>1 DEF StartTime, TypeOK
  <2>3. file' \in Files \union {None}
    BY <2>1, <2>2, <1>3 DEF Write, TypeOK, Files
  <2>4. stage' \in [Tasks -> Stages] /\ AtWork'
    BY <1>3 DEF Write, TypeOK, Stages, AtWork
  <2> QED
    BY <1>3, <2>3, <2>4 DEF Write, TypeOK
<1>4. CASE Finish(t)
  <2>1. stage' \in [Tasks -> Stages] /\ AtWork'
    BY <1>4 DEF Finish, Forgotten, TypeOK, Stages, AtWork
  <2>2. held' \in [Procs -> [maker : Tasks, count : Nat \ {0}] \union {None}]
    BY <1>4 DEF Finish, TypeOK
  <2> QED
    BY <1>4, <2>1, <2>2 DEF Finish, TypeOK
<1>5. CASE Refused(t)
  <2>1. \/ UNCHANGED seen /\ (stage' = [stage EXCEPT ![t] = "stating"] \/ stage' = [stage EXCEPT ![t] = "removing"])
        \/ /\ stage' = [stage EXCEPT ![t] = "judging"]
           /\ seen' = [seen EXCEPT ![t] = Payload] /\ Payload \in Payloads /\ Payload # None
    BY <1>5, PayloadIs DEF Refused
  <2>2. stage' \in [Tasks -> Stages] /\ seen' \in [Tasks \union Procs -> Payloads \union {None}]
    BY <2>1 DEF TypeOK, Stages
  <2>3. pid[ProcOf[t]] # None
    BY <1>5 DEF Refused, Tries, AtWork
  <2>4. AtWork'
    BY <1>0, <1>5, <2>1, <2>3 DEF Refused, TypeOK, AtWork
  <2> QED
    BY <1>5, <2>2, <2>4 DEF Refused, TypeOK
<1>6. CASE Judge(t)
  BY <1>0, <1>6 DEF Judge, TypeOK, AtWork, Stages
<1>7. CASE Stat(t) \/ GiveUp(t) \/ WriteFails(t) \/ StatFails(t) \/ UnlinkFails(t)
  <2>1. PICK s \in Stages \ {"judging"} : stage' = [stage EXCEPT ![t] = s]
    BY <1>7 DEF Stat, GiveUp, WriteFails, StatFails, UnlinkFails, Stages
  <2>2. stage[t] # "idle" /\ UNCHANGED <<processes, seen, file, held, watchdog, sweep, harm>>
    BY <1>7 DEF Stat, GiveUp, WriteFails, StatFails, UnlinkFails, Unlinking
  <2>3. stage' \in [Tasks -> Stages] /\ AtWork'
    BY <2>1, <2>2 DEF TypeOK, AtWork
  <2>4. faults' \in 0..MaxFaults
    BY <1>7 DEF Stat, GiveUp, WriteFails, StatFails, UnlinkFails, TypeOK
  <2> QED
    BY <2>2, <2>3, <2>4 DEF TypeOK
<1>8. CASE UnlinkFile(t)
  BY <1>8 DEF UnlinkFile, Unlink, TypeOK, AtWork, Stages, Unlinking
<1>9. CASE Release(t)
  <2>1. stage' \in [Tasks -> Stages] /\ AtWork'
    BY <1>9 DEF Release, TypeOK, AtWork, Stages
  <2>2. held' \in [Procs -> [maker : Tasks, count : Nat \ {0}] \union {None}]
    <3>1. CASE held' = [held EXCEPT ![ProcOf[t]] = None] \/ UNCHANGED held
      BY <3>1 DEF TypeOK
    <3>3. stage[t] = "in" => held[ProcOf[t]] # None
      BY DEF HolderCount, Holders
    <3>2. CASE stage[t] = "in" /\ held[ProcOf[t]].count > 1 /\ held' = [held EXCEPT ![ProcOf[t]].count = @ - 1]
      <4>1. held[ProcOf[t]] \in [maker : Tasks, count : Nat \ {0}]
        BY <3>2, <3>3 DEF TypeOK
      <4> DEFINE h == [held[ProcOf[t]] EXCEPT !.count = @ - 1]
      <4>2. h \in [maker : Tasks, count : Nat \ {0}]
        BY <3>2, <4>1
      <4>3. held' = [held EXCEPT ![ProcOf[t]] = h]
        BY <3>2
      <4> QED
        BY <4>2, <4>3 DEF TypeOK
    <3> QED
      BY <1>9, <3>1, <3>2, <3>3 DEF Release
  <2> QED
    BY <1>9, <2>1, <2>2 DEF Release, TypeOK
<1> QED
  BY <1>1, <1>2, <1>3, <1>4, <1>5, <1>6, <1>7, <1>8, <1>9 DEF TaskStep, Contend

LEMMA TypeProc ==
    ASSUME TypeOK, AtWork, NEW p \in Procs, ProcStep(p)
    PROVE  TypeOK' /\ AtWork'
<1> USE LockAssumption
<1> USE DEF processes, SweepTo
<1>0. p \notin Tasks
  OBVIOUS
<1>1. CASE Evict(p)
  BY <1>1 DEF Evict, Forgotten, TypeOK, AtWork, Stages
<1>2. CASE WatchdogUnlinks(p) \/ SweepUnlinks(p)
  <2>1. harm' \in {"none", "swept", "usurped"} /\ file' = None
    BY <1>2 DEF WatchdogUnlinks, SweepUnlinks, Unlink, TypeOK
  <2>2. watchdog' \in [Procs -> BOOLEAN] /\ sweep' \in [Procs -> SweepStages]
    BY <1>2 DEF WatchdogUnlinks, SweepUnlinks, TypeOK, SweepStages
  <2>3. UNCHANGED <<processes, seen, stage, held, faults>>
    BY <1>2 DEF WatchdogUnlinks, SweepUnlinks
  <2>4. AtWork'
    BY <1>2, <2>3 DEF WatchdogUnlinks, SweepUnlinks, TypeOK, AtWork
  <2> QED
    BY <2>1, <2>2, <2>3, <2>4 DEF TypeOK
<1>3. CASE ReleaseAll(p)
  <2>1. stage' \in [Tasks -> Stages] /\ AtWork'
    BY <1>3 DEF ReleaseAll, Forgotten, TypeOK, AtWork, Stages
  <2>2. harm' \in {"none", "swept", "usurped"}
    BY <1>3 DEF ReleaseAll, TypeOK
  <2> QED
    BY <1>3, <2>1, <2>2 DEF ReleaseAll, TypeOK
<1>4. CASE SweepReads(p)
  <2>1. \/ UNCHANGED seen /\ sweep' = [sweep EXCEPT ![p] = "removing"]
        \/ /\ sweep' = [sweep EXCEPT ![p] = "judging"]
           /\ seen' = [seen EXCEPT ![p] = Payload] /\ Payload \in Payloads /\ Payload # None
    BY <1>4, PayloadIs DEF SweepReads
  <2>2. sweep' \in [Procs -> SweepStages] /\ seen' \in [Tasks \union Procs -> Payloads \union {None}]
    BY <2>1 DEF TypeOK, SweepStages
  <2>3. harm' \in {"none", "swept", "usurped"}
    BY <1>4 DEF SweepReads, TypeOK
  <2>4. AtWork'
    BY <1>0, <1>4, <2>1 DEF SweepReads, TypeOK, AtWork
  <2> QED
    BY <1>4, <2>2, <2>3, <2>4 DEF SweepReads, TypeOK
<1>5. CASE SweepJudges(p)
  BY <1>0, <1>5 DEF SweepJudges, TypeOK, AtWork, SweepStages
<1>6. CASE Crash(p)
  <2>1. stage' \in [Tasks -> Stages] /\ sweep' \in [Procs -> SweepStages]
    BY <1>6 DEF Crash, TypeOK, Stages, SweepStages
  <2>2. seen' \in [Tasks \union Procs -> Payloads \union {None}]
    BY <1>6, Zenon DEF Crash, TypeOK
  <2>3. AtWork'
    <3>1. ASSUME NEW t \in Tasks, stage'[t] # "idle" PROVE pid'[ProcOf[t]] # None /\ seen'[t] = seen[t] /\ stage'[t] = stage[t]
      BY <1>0, <1>6, <3>1 DEF Crash, TypeOK, AtWork
    <3>2. ASSUME NEW q \in Procs, sweep'[q] = "judging" PROVE seen'[q] = seen[q] /\ sweep[q] = "judging"
      BY <1>6, <3>2 DEF Crash, TypeOK
    <3> QED
      BY <3>1, <3>2 DEF AtWork
  <2>4. started' \in [Pids -> Nat \union {None}]
    BY <1>6 DEF Crash, StartedNow, TypeOK
  <2>5. faults' \in 0..MaxFaults /\ harm' = harm /\ startTimes' = startTimes /\ file' = file
    BY <1>6 DEF Crash, TypeOK
  <2>6. pid' \in [Procs -> Pids \union {None}] /\ watchdog' \in [Procs -> BOOLEAN]
        /\ held' \in [Procs -> [maker : Tasks, count : Nat \ {0}] \union {None}]
    BY <1>6 DEF Crash, TypeOK
  <2> QED
    BY <2>1, <2>2, <2>3, <2>4, <2>5, <2>6 DEF TypeOK
<1>7. CASE Start(p)
  <2>1. started' \in [Pids -> Nat \union {None}] /\ pid' \in [Procs -> Pids \union {None}]
    BY <1>7 DEF Start, StartedNow, TypeOK
  <2>2. AtWork'
    BY <1>0, <1>7 DEF Start, TypeOK, AtWork
  <2> QED
    BY <1>7, <2>1, <2>2 DEF Start, TypeOK
<1> QED
  BY <1>1, <1>2, <1>3, <1>4, <1>5, <1>6, <1>7 DEF ProcStep, Sweep

-----------------------------------------------------------------------------
(* The reference count *)

LEMMA CountsUnchanged ==
    ASSUME HolderCount, UNCHANGED held, \A p \in Procs : Holders(p)' = Holders(p)
    PROVE  HolderCount'
BY DEF HolderCount

(* Where a process forgets its lock, nobody there holds one; the others     *)
(* keep theirs.                                                             *)
LEMMA CountsForget ==
    ASSUME HolderCount, TypeOK, NEW p \in Procs,
           held' = [held EXCEPT ![p] = None], stage' = Forgotten(p)
    PROVE  HolderCount'
<1> SUFFICES ASSUME NEW q \in Procs
             PROVE  IF held'[q] = None THEN Holders(q)' = {} ELSE held'[q].count = Cardinality(Holders(q)')
  BY DEF HolderCount
<1>1. CASE q = p
  BY <1>1 DEF Holders, Forgotten, TypeOK
<1>2. CASE q # p
  <2>1. Holders(q)' = Holders(q) /\ held'[q] = held[q]
    BY <1>2 DEF Holders, Forgotten, TypeOK
  <2> QED
    BY <2>1 DEF HolderCount
<1> QED
  BY <1>1, <1>2

(* A step that moves one task in its process. *)
LEMMA OthersKeepCounts ==
    ASSUME HolderCount, TypeOK, LockAssumption, NEW t \in Tasks, NEW s,
           stage' = [stage EXCEPT ![t] = s],
           \A q \in Procs \ {ProcOf[t]} : held'[q] = held[q],
           IF held'[ProcOf[t]] = None THEN Holders(ProcOf[t])' = {}
           ELSE held'[ProcOf[t]].count = Cardinality(Holders(ProcOf[t])')
    PROVE  HolderCount'
<1> SUFFICES ASSUME NEW q \in Procs, q # ProcOf[t]
             PROVE  IF held'[q] = None THEN Holders(q)' = {} ELSE held'[q].count = Cardinality(Holders(q)')
  BY DEF HolderCount
<1>1. Holders(q)' = Holders(q) /\ held'[q] = held[q]
  BY DEF Holders, TypeOK
<1> QED
  BY <1>1 DEF HolderCount

LEMMA HoldersFinite == ASSUME NEW p PROVE IsFiniteSet(Holders(p))
BY LockAssumption, FS_Subset DEF Holders

LEMMA CountsTask ==
    ASSUME TypeOK, HolderCount, NEW t \in Tasks, TaskStep(t)
    PROVE  HolderCount'
<1> USE LockAssumption
<1> DEFINE p == ProcOf[t]
<1>0. p \in Procs /\ IsFiniteSet(Holders(p))
  BY HoldersFinite
<1>1. CASE Reenter(t)
  <2>1. stage' = [stage EXCEPT ![t] = "in"] /\ stage[t] = "idle" /\ held[p] # None
    BY <1>1 DEF Reenter, To
  <2>2. Holders(p)' = Holders(p) \union {t} /\ t \notin Holders(p)
    BY <2>1 DEF Holders, TypeOK
  <2>3. Cardinality(Holders(p)') = Cardinality(Holders(p)) + 1
    BY <1>0, <2>2, FS_AddElement
  <2>4. held'[p].count = held[p].count + 1
    BY <1>0, <1>1, <2>1 DEF Reenter, TypeOK
  <2>5. held'[p].count = Cardinality(Holders(p)')
    BY <1>0, <2>1, <2>3, <2>4 DEF HolderCount
  <2>6. held'[p] # None
    BY <1>0, <1>1, <2>1 DEF Reenter, TypeOK
  <2>7. \A q \in Procs \ {p} : held'[q] = held[q]
    BY <1>1 DEF Reenter, TypeOK
  <2> QED
    BY <2>1, <2>5, <2>6, <2>7, OthersKeepCounts
<1>2. CASE \/ Open(t) \/ Write(t) \/ Refused(t) \/ Judge(t) \/ Stat(t) \/ UnlinkFile(t)
            \/ GiveUp(t) \/ WriteFails(t) \/ StatFails(t) \/ UnlinkFails(t)
  <2>1. UNCHANGED held /\ \A q \in Procs : Holders(q)' = Holders(q)
    <3>1. stage[t] # "in" /\ UNCHANGED held
      BY <1>2 DEF Open, Write, Refused, Tries, Judge, Stat, GiveUp, WriteFails, StatFails, UnlinkFile,
                  UnlinkFails, Unlinking
    <3>2. PICK s : s # "in" /\ stage' = [stage EXCEPT ![t] = s]
      BY <1>2 DEF Open, Write, Refused, Judge, Stat, GiveUp, WriteFails, StatFails, UnlinkFile, UnlinkFails, To
    <3> QED
      BY <3>1, <3>2 DEF Holders, TypeOK
  <2> QED
    BY <2>1, CountsUnchanged
<1>3. CASE Finish(t)
  <2>1. Holders(p)' = {t}
    BY <1>3 DEF Finish, Forgotten, Holders, TypeOK
  <2>2. Cardinality(Holders(p)') = 1
    BY <2>1, FS_Singleton
  <2>3. held'[p] = [maker |-> t, count |-> 1]
    BY <1>0, <1>3 DEF Finish, TypeOK
  <2>4. held'[p] # None /\ held'[p].count = 1
    BY <2>3
  <2>5. ASSUME NEW q \in Procs, q # p PROVE Holders(q)' = Holders(q) /\ held'[q] = held[q]
    BY <1>3, <2>5 DEF Finish, Forgotten, Holders, TypeOK
  <2> QED
    BY <2>2, <2>4, <2>5 DEF HolderCount
<1>4. CASE Release(t)
  <2>1. CASE stage[t] = "evicted"
    <3>1. UNCHANGED held /\ \A q \in Procs : Holders(q)' = Holders(q)
      BY <1>4, <2>1 DEF Release, To, Holders, TypeOK
    <3> QED
      BY <3>1, CountsUnchanged
  <2>2. CASE stage[t] = "in"
    <3>1. Holders(p)' = Holders(p) \ {t} /\ t \in Holders(p)
      BY <1>4, <2>2 DEF Release, To, Holders, TypeOK
    <3>2. Cardinality(Holders(p)') = Cardinality(Holders(p)) - 1
      <4> HIDE LockAssumption
      <4> QED
        BY <1>0, <3>1, FS_RemoveElement
    <3>3. held[p] # None /\ held[p].count = Cardinality(Holders(p)) /\ held[p].count \in Nat \ {0}
      BY <1>0, <3>1 DEF HolderCount, TypeOK
    <3>4. \A q \in Procs \ {p} : held'[q] = held[q]
      BY <1>4 DEF Release, TypeOK
    <3>5. IF held'[p] = None THEN Holders(p)' = {} ELSE held'[p].count = Cardinality(Holders(p)')
      <4>1. CASE held[p].count > 1
        <5>1. held'[p] = [held[p] EXCEPT !.count = @ - 1]
          BY <1>0, <1>4, <2>2, <4>1 DEF Release, TypeOK
        <5>2. held[p] \in [maker : Tasks, count : Nat \ {0}]
          BY <1>0, <3>3 DEF TypeOK
        <5>3. held'[p] # None /\ held'[p].count = held[p].count - 1
          BY <4>1, <5>1, <5>2
        <5> QED
          BY <3>2, <3>3, <5>3
      <4>2. CASE ~(held[p].count > 1)
        <5>1. held'[p] = None
          BY <1>0, <1>4, <2>2, <4>2 DEF Release, TypeOK
        <5>2. Cardinality(Holders(p)') = 0
          BY <3>2, <3>3, <4>2
        <5>3. Holders(p)' = {}
          BY <1>0, <3>1, <5>2, FS_RemoveElement, FS_EmptySet
        <5> QED
          BY <5>1, <5>3
      <4> QED
        BY <4>1, <4>2
    <3>6. PICK s : stage' = [stage EXCEPT ![t] = s]
      BY <1>4 DEF Release, To
    <3> QED
      BY <3>4, <3>5, <3>6, OthersKeepCounts
  <2> QED
    BY <1>4, <2>1, <2>2 DEF Release
<1> QED
  BY <1>1, <1>2, <1>3, <1>4 DEF TaskStep, Contend

LEMMA CountsProc ==
    ASSUME TypeOK, HolderCount, NEW p \in Procs, ProcStep(p)
    PROVE  HolderCount'
<1>1. CASE Evict(p) \/ ReleaseAll(p)
  BY <1>1, CountsForget DEF Evict, ReleaseAll
<1>2. CASE WatchdogUnlinks(p) \/ SweepReads(p) \/ Sweep(p) \/ Start(p)
  <2>1. UNCHANGED <<held, stage>>
    BY <1>2 DEF WatchdogUnlinks, SweepReads, Sweep, SweepJudges, SweepUnlinks, Start
  <2> QED
    BY <2>1, CountsUnchanged DEF Holders
<1>3. CASE Crash(p)
  <2> SUFFICES ASSUME NEW q \in Procs
               PROVE  IF held'[q] = None THEN Holders(q)' = {} ELSE held'[q].count = Cardinality(Holders(q)')
    BY DEF HolderCount
  <2>1. CASE q = p
    BY <1>3, <2>1 DEF Crash, Holders, TypeOK
  <2>2. CASE q # p
    <3>1. Holders(q)' = Holders(q) /\ held'[q] = held[q]
      BY <1>3, <2>2 DEF Crash, Holders, TypeOK
    <3> QED
      BY <3>1 DEF HolderCount
  <2> QED
    BY <2>1, <2>2
<1> QED
  BY <1>1, <1>2, <1>3 DEF ProcStep

-----------------------------------------------------------------------------
(* Every step is one of a task, of a process or of time. *)
LEMMA Steps ==
    ASSUME Next
    PROVE  (\E t \in Tasks : TaskStep(t)) \/ (\E p \in Procs : ProcStep(p)) \/ Age \/ OverlongHold
BY DEF Next, TaskStep, ProcStep

LEMMA TypeNext == TypeOK /\ AtWork /\ HolderCount /\ [Next]_vars => TypeOK' /\ AtWork' /\ HolderCount'
<1> SUFFICES ASSUME TypeOK, AtWork, HolderCount, [Next]_vars PROVE TypeOK' /\ AtWork' /\ HolderCount'
  OBVIOUS
<1>1. CASE Age \/ OverlongHold
  <2>1. file' \in Files \union {None}
    BY <1>1 DEF Age, OverlongHold, Backed, TypeOK, Files
  <2>2. faults' \in 0..MaxFaults
    BY <1>1, LockAssumption DEF Age, OverlongHold, TypeOK
  <2>3. UNCHANGED <<held, stage>>
    BY <1>1 DEF Age, OverlongHold
  <2>4. HolderCount'
    BY <2>3, CountsUnchanged DEF Holders
  <2> QED
    BY <1>1, <2>1, <2>2, <2>4 DEF Age, OverlongHold, TypeOK, AtWork, processes
<1>2. CASE UNCHANGED vars
  <2>1. HolderCount'
    BY <1>2, CountsUnchanged DEF vars, Holders
  <2> QED
    BY <1>2, <2>1 DEF vars, processes, TypeOK, AtWork
<1> QED
  BY <1>1, <1>2, Steps, TypeTask, TypeProc, CountsTask, CountsProc

(* The state has its type, and the reference count of a lock in HELD_LOCKS  *)
(* is the number of tasks that will give that lock back.                    *)
THEOREM CountsAreRight == Spec => [](TypeOK /\ AtWork /\ HolderCount)
<1>1. Init => HolderCount
  BY DEF Init, HolderCount, Holders
<1> QED
  BY <1>1, TypeInit, TypeNext, PTL DEF Spec

(* Types alone: whatever the faults, the state stays what the code can hold.*)
THEOREM LockTypes == Spec => []TypeOK
BY CountsAreRight, PTL

-----------------------------------------------------------------------------
(* Until a usurpation, the lock in force is the one whose file is there, so *)
(* that there is one at most.                                               *)

MakerIsHere == \A p \in Procs : held[p] # None => ProcOf[held[p].maker] = p
Claiming == {"writing", "written"}
FileOfLock ==
    /\ \A t \in Tasks : InForce(t) => file # None /\ file.maker = t
    /\ \A t \in Tasks, p \in Procs : stage[t] \in Claiming => held[p] = None
Types == TypeOK /\ AtWork /\ HolderCount
LockInv == MakerIsHere /\ (harm = "usurped" \/ FileOfLock)

LEMMA LockInForce ==
    ASSUME Types, MakerIsHere, FileOfLock, NEW p \in Procs, held[p] # None
    PROVE  /\ held[p].maker \in Tasks /\ InForce(held[p].maker)
           /\ Backed /\ file.maker = held[p].maker
           /\ \A t \in Tasks : stage[t] \notin Claiming
<1>1. held[p].maker \in Tasks /\ ProcOf[held[p].maker] = p
  BY DEF Types, TypeOK, MakerIsHere
<1> QED
  BY <1>1 DEF InForce, FileOfLock, Backed

(* The steps but Finish give no process another lock, and those but Open    *)
(* begin no claim.                                                          *)
SameLocks == \A q \in Procs : held'[q] # None => held[q] # None /\ held'[q].maker = held[q].maker
NoNewClaim ==
    \A u \in Tasks :
        /\ stage'[u] = "writing" => stage[u] = "writing"
        /\ stage'[u] = "written" => stage[u] \in Claiming

LEMMA SameLocksTask ==
    ASSUME Types, NEW t \in Tasks, TaskStep(t)
    PROVE  Finish(t) \/ SameLocks
<1> USE LockAssumption DEF Types, SameLocks
<1> DEFINE p == ProcOf[t]
<1>1. ASSUME held[p] # None, NEW c \in Nat, held' = [held EXCEPT ![p].count = c] PROVE SameLocks
  <2>1. held[p] \in [maker : Tasks, count : Nat \ {0}]
    BY <1>1 DEF TypeOK
  <2> QED
    BY <1>1, <2>1 DEF TypeOK
<1>2. CASE held' = [held EXCEPT ![p] = None] \/ UNCHANGED held
  BY <1>2 DEF TypeOK
<1>3. held[p] # None => held[p].count + 1 \in Nat /\ held[p].count - 1 \in Nat
  <2>1. held[p] # None => held[p].count \in Nat \ {0}
    BY DEF TypeOK
  <2> QED
    BY <2>1
<1>4. CASE Reenter(t)
  <2>1. held[p] # None /\ held' = [held EXCEPT ![p].count = held[p].count + 1]
    BY <1>4 DEF Reenter
  <2> QED
    BY <1>1, <1>3, <2>1
<1>5. CASE Release(t)
  <2>1. stage[t] = "in" => held[p] # None
    BY DEF HolderCount, Holders
  <2>2. \/ UNCHANGED held \/ held' = [held EXCEPT ![p] = None]
        \/ (held[p] # None /\ held' = [held EXCEPT ![p].count = held[p].count - 1])
    BY <1>5, <2>1 DEF Release
  <2> QED
    BY <1>1, <1>2, <1>3, <2>2
<1>6. CASE \/ Open(t) \/ Write(t) \/ Refused(t) \/ Judge(t) \/ Stat(t) \/ UnlinkFile(t)
            \/ GiveUp(t) \/ WriteFails(t) \/ StatFails(t) \/ UnlinkFails(t)
  <2>1. UNCHANGED held
    BY <1>6 DEF Open, Write, Refused, Judge, Stat, UnlinkFile, GiveUp, WriteFails, StatFails, UnlinkFails
  <2> QED
    BY <1>2, <2>1
<1> QED
  BY <1>4, <1>5, <1>6 DEF TaskStep, Contend

LEMMA SameLocksProc == ASSUME Types, NEW p \in Procs, ProcStep(p) PROVE SameLocks
<1>1. held' = [held EXCEPT ![p] = None] \/ UNCHANGED held
  BY DEF ProcStep, Evict, WatchdogUnlinks, ReleaseAll, SweepReads, Sweep, SweepJudges, SweepUnlinks,
         Crash, Start
<1> QED
  BY <1>1 DEF Types, TypeOK, SameLocks

LEMMA NoNewClaimTask ==
    ASSUME Types, NEW t \in Tasks, TaskStep(t)
    PROVE  Open(t) \/ NoNewClaim
<1> USE DEF Types, NoNewClaim, Claiming
<1>1. ASSUME NEW s \in Stages \ Claiming, stage' = [stage EXCEPT ![t] = s] PROVE NoNewClaim
  BY <1>1 DEF TypeOK
<1>2. CASE Reenter(t) \/ Refused(t)
  BY <1>1, <1>2 DEF Reenter, Refused, To, Stages
<1>7. CASE Write(t)
  BY <1>7 DEF Write, To, TypeOK
<1>3. CASE Judge(t) \/ Stat(t) \/ GiveUp(t) \/ WriteFails(t) \/ StatFails(t) \/ UnlinkFails(t)
  BY <1>1, <1>3 DEF Judge, Stat, GiveUp, WriteFails, StatFails, UnlinkFails, To, Stages
<1>4. CASE UnlinkFile(t)
  BY <1>1, <1>4 DEF UnlinkFile, To, Stages
<1>5. CASE Release(t)
  BY <1>1, <1>5 DEF Release, To, Stages
<1>6. CASE Finish(t)
  BY <1>6 DEF Finish, Forgotten, TypeOK
<1> QED
  BY <1>2, <1>3, <1>4, <1>5, <1>6, <1>7 DEF TaskStep, Contend

LEMMA NoNewClaimProc == ASSUME Types, NEW p \in Procs, ProcStep(p) PROVE NoNewClaim
<1> USE DEF Types, NoNewClaim, Claiming
<1>1. CASE Crash(p)
  BY <1>1 DEF Crash, TypeOK
<1>2. CASE Evict(p) \/ ReleaseAll(p)
  BY <1>2 DEF Evict, ReleaseAll, Forgotten, TypeOK
<1>3. CASE WatchdogUnlinks(p) \/ SweepReads(p) \/ Sweep(p) \/ Start(p)
  BY <1>3 DEF WatchdogUnlinks, SweepReads, Sweep, SweepJudges, SweepUnlinks, Start
<1> QED
  BY <1>1, <1>2, <1>3 DEF ProcStep

LEMMA InForceBefore == ASSUME SameLocks, NoNewClaim, NEW u \in Tasks, InForce(u)' PROVE InForce(u)
BY LockAssumption DEF SameLocks, NoNewClaim, Claiming, InForce

LEMMA MakerIsHereNext == Types /\ MakerIsHere /\ Next => MakerIsHere'
<1> SUFFICES ASSUME Types, MakerIsHere, Next PROVE MakerIsHere'
  OBVIOUS
<1>1. SameLocks => MakerIsHere'
  BY DEF SameLocks, MakerIsHere
<1>2. ASSUME NEW t \in Tasks, Finish(t) PROVE MakerIsHere'
  BY <1>2, LockAssumption DEF Finish, Types, TypeOK, MakerIsHere
<1>3. Age \/ OverlongHold => SameLocks
  BY DEF Age, OverlongHold, SameLocks
<1> QED
  BY <1>1, <1>2, <1>3, Steps, SameLocksTask, SameLocksProc

(* What Write leaves as the file. *)
LEMMA Wrote ==
    ASSUME Types, NEW t \in Tasks, Write(t), file # None, file.maker = t
    PROVE  /\ file' \in Files /\ file' # None /\ file'.maker = t /\ file'.old = file.old
           /\ file'.pid = pid[ProcOf[t]] /\ file'.pid # None /\ file'.start = StartTime(ProcOf[t])
<1> USE LockAssumption DEF Types
<1>1. stage[t] = "writing" /\ file' = [file EXCEPT !.pid = pid[ProcOf[t]], !.start = StartTime(ProcOf[t])]
  BY DEF Write
<1>2. pid[ProcOf[t]] \in Pids /\ pid[ProcOf[t]] # None
  BY <1>1 DEF AtWork, TypeOK
<1>3. StartTime(ProcOf[t]) \in Nat \union {None}
  BY <1>2 DEF StartTime, TypeOK
<1>4. file \in Files
  BY DEF TypeOK
<1> QED
  BY <1>1, <1>2, <1>3, <1>4 DEF Files

LEMMA NewFileIs == ASSUME NEW t \in Tasks
                   PROVE  /\ NewFile(t) \in Files /\ NewFile(t) # None
                          /\ NewFile(t).maker = t /\ NewFile(t).pid = None /\ NewFile(t).old = FALSE
<1>1. NewFile(t) \in Files
  BY DEF NewFile, Files
<1> QED
  BY <1>1, LockAssumption DEF NewFile

LEMMA FileOfLockTask ==
    ASSUME Types, MakerIsHere, FileOfLock, NEW t \in Tasks, TaskStep(t), harm' # "usurped"
    PROVE  FileOfLock'
<1> USE LockAssumption DEF Types, Claiming
<1>1. CASE Open(t)
  <2>1. \A p \in Procs : held[p] = None
    BY <1>1, LockInForce DEF Open, Backed
  <2>2. \A u \in Tasks : stage[u] \notin Claiming
    BY <1>1 DEF Open, FileOfLock, InForce
  <2>3. UNCHANGED held /\ stage' = [stage EXCEPT ![t] = "writing"] /\ file' = NewFile(t)
    BY <1>1 DEF Open, To
  <2>4. \A u \in Tasks : InForce(u)' => u = t
    BY <2>1, <2>2, <2>3 DEF InForce, TypeOK
  <2> QED
    BY <2>1, <2>3, <2>4, NewFileIs DEF FileOfLock
<1>2. CASE Finish(t)
  <2>1. stage[t] = "written" /\ file # None /\ file.maker = t
    BY <1>2 DEF Finish, FileOfLock, InForce
  <2>2. UNCHANGED file
    BY <1>2 DEF Finish
  <2>3. \A u \in Tasks : stage[u] \in Claiming => u = t
    BY <2>1 DEF FileOfLock, InForce
  <2>4. \A p \in Procs : held[p] = None
    BY <2>1 DEF FileOfLock
  <2>5. \A u \in Tasks : stage'[u] \notin Claiming
    BY <1>2, <2>3 DEF Finish, Forgotten, TypeOK
  <2>6. \A p \in Procs : held'[p] # None => held'[p].maker = t
    BY <1>2, <2>4 DEF Finish, TypeOK
  <2> QED
    BY <2>1, <2>2, <2>5, <2>6 DEF FileOfLock, InForce
<1>3. CASE ~Open(t) /\ ~Finish(t)
  <2>1. SameLocks /\ NoNewClaim
    BY <1>3, SameLocksTask, NoNewClaimTask
  <2>2. UNCHANGED file \/ UnlinkFile(t) \/ (Write(t) /\ file # None /\ file.maker = t)
    BY <1>3 DEF TaskStep, Contend, Reenter, Write, Refused, Judge, Stat, GiveUp, WriteFails, StatFails,
                Release, UnlinkFails
  <2>3. UnlinkFile(t) => ~Backed
    BY DEF UnlinkFile, Unlink
  <2>4. ASSUME NEW u \in Tasks, InForce(u)' PROVE file' # None /\ file'.maker = u
    <3>1. InForce(u) /\ file # None /\ file.maker = u /\ Backed
      BY <2>1, <2>4, InForceBefore DEF FileOfLock, Backed
    <3> QED
      BY <2>2, <2>3, <3>1, Wrote
  <2>5. ASSUME NEW u \in Tasks, NEW q \in Procs, stage'[u] \in Claiming PROVE held'[q] = None
    BY <2>1, <2>5 DEF SameLocks, NoNewClaim, FileOfLock
  <2> QED
    BY <2>4, <2>5 DEF FileOfLock
<1> QED
  BY <1>1, <1>2, <1>3

LEMMA FileOfLockProc ==
    ASSUME Types, MakerIsHere, FileOfLock, NEW p \in Procs, ProcStep(p), harm' # "usurped"
    PROVE  FileOfLock'
<1> USE LockAssumption DEF Types, Claiming
<1>1. SameLocks /\ NoNewClaim
  BY SameLocksProc, NoNewClaimProc
<1>2. ASSUME NEW u \in Tasks, InForce(u)' PROVE UNCHANGED file
  <2>1. InForce(u) /\ file # None /\ file.maker = u /\ Backed
    BY <1>1, <1>2, InForceBefore DEF FileOfLock, Backed
  <2>2. CASE WatchdogUnlinks(p) \/ SweepUnlinks(p)
    <3>1. harm' = "usurped"
      BY <2>1, <2>2 DEF WatchdogUnlinks, SweepUnlinks, Unlink
    <3> QED
      BY <3>1
  <2>3. CASE ReleaseAll(p)
    <3>1. file.maker = held[p].maker /\ \A v \in Tasks : stage[v] \notin Claiming
      BY <2>3, LockInForce DEF ReleaseAll
    <3>2. ProcOf[u] = p
      BY <2>1, <2>3, <3>1 DEF ReleaseAll, MakerIsHere
    <3>3. held'[p] = None /\ stage'[u] \notin Claiming
      BY <1>1, <2>3, <3>1 DEF ReleaseAll, TypeOK, NoNewClaim
    <3> QED
      BY <1>2, <3>2, <3>3 DEF InForce
  <2>4. CASE Evict(p) \/ SweepReads(p) \/ SweepJudges(p) \/ Crash(p) \/ Start(p)
    BY <2>4 DEF Evict, SweepReads, SweepJudges, Crash, Start
  <2> QED
    BY <2>2, <2>3, <2>4 DEF ProcStep, Sweep
<1>3. ASSUME NEW u \in Tasks, InForce(u)' PROVE file' # None /\ file'.maker = u
  BY <1>1, <1>2, <1>3, InForceBefore DEF FileOfLock
<1>4. ASSUME NEW u \in Tasks, NEW q \in Procs, stage'[u] \in Claiming PROVE held'[q] = None
  BY <1>1, <1>4 DEF SameLocks, NoNewClaim, FileOfLock
<1> QED
  BY <1>3, <1>4 DEF FileOfLock

LEMMA Aged ==
    ASSUME Types, Age \/ OverlongHold
    PROVE  /\ file \in Files /\ file' \in Files /\ file # None /\ file' # None
           /\ file'.maker = file.maker /\ file'.pid = file.pid /\ file'.start = file.start
           /\ UNCHANGED <<processes, seen, stage, held, watchdog, sweep, harm>>
<1>1. file \in Files /\ file' = [file EXCEPT !.old = TRUE]
  BY DEF Age, OverlongHold, Backed, Types, TypeOK
<1>2. file' \in Files /\ file'.maker = file.maker /\ file'.pid = file.pid /\ file'.start = file.start
  BY <1>1 DEF Files
<1> QED
  BY <1>1, <1>2, LockAssumption DEF Age, OverlongHold

(* What has happened stays. *)
LEMMA HarmStays == ASSUME Next PROVE (harm' = "none" => harm = "none") /\ (harm = "usurped" => harm' = "usurped")
<1>1. ASSUME NEW t \in Tasks, TaskStep(t) PROVE UNCHANGED harm \/ harm' = "usurped"
  BY <1>1 DEF TaskStep, Contend, Reenter, Open, Write, Finish, Refused, Judge, Stat, UnlinkFile, Unlink,
              GiveUp, WriteFails, StatFails, Release, UnlinkFails
<1>2. ASSUME NEW p \in Procs, ProcStep(p)
      PROVE  UNCHANGED harm \/ harm' = "usurped" \/ (harm = "none" /\ harm' = "swept")
  BY <1>2 DEF ProcStep, Evict, WatchdogUnlinks, ReleaseAll, SweepReads, Sweep, SweepJudges, SweepUnlinks,
              Unlink, Crash, Start
<1>3. CASE Age \/ OverlongHold
  BY <1>3 DEF Age, OverlongHold
<1> QED
  BY <1>1, <1>2, <1>3, Steps

LEMMA LockInvNext == Types /\ LockInv /\ [Next]_vars => LockInv'
<1> SUFFICES ASSUME Types, LockInv, [Next]_vars PROVE LockInv'
  OBVIOUS
<1>1. CASE UNCHANGED vars
  BY <1>1 DEF vars, processes, LockInv, MakerIsHere, FileOfLock, InForce
<1>2. CASE Next
  <2>1. harm = "usurped" => harm' = "usurped"
    BY <1>2, HarmStays
  <2>2. ASSUME FileOfLock, Age \/ OverlongHold PROVE FileOfLock'
    <3>1. file' # None /\ file'.maker = file.maker /\ UNCHANGED <<held, stage>>
      BY <2>2, Aged
    <3> QED
      BY <2>2, <3>1 DEF FileOfLock, InForce
  <2>3. harm' = "usurped" \/ FileOfLock'
    BY <1>2, <2>1, <2>2, Steps, FileOfLockTask, FileOfLockProc DEF LockInv
  <2> QED
    BY <1>2, <2>3, MakerIsHereNext DEF LockInv
<1> QED
  BY <1>1, <1>2

LEMMA Exclusive == Types /\ LockInv => Exclusion
<1> SUFFICES ASSUME Types, MakerIsHere, FileOfLock,
                    NEW t \in Tasks, NEW u \in Tasks, stage[t] = "in", stage[u] = "in"
             PROVE  ProcOf[t] = ProcOf[u]
  BY DEF LockInv, Exclusion
<1>1. ProcOf[t] \in Procs /\ ProcOf[u] \in Procs
  BY LockAssumption
<1>2. held[ProcOf[t]] # None /\ held[ProcOf[u]] # None
  BY <1>1 DEF Types, HolderCount, Holders
<1>3. held[ProcOf[t]].maker = file.maker /\ held[ProcOf[u]].maker = file.maker
  BY <1>1, <1>2, LockInForce
<1> QED
  BY <1>1, <1>2, <1>3 DEF MakerIsHere

(* Two processes are in their sections only after an unlink meant for       *)
(* another file took the file of a lock in force, whatever crashes, fails,  *)
(* is evicted or swept.                                                     *)
THEOREM LockExcludes == Spec => []Exclusion
<1>1. Init => Types /\ LockInv
  <2>1. Init => MakerIsHere /\ FileOfLock
    BY LockAssumption DEF Init, MakerIsHere, FileOfLock, InForce
  <2>2. Init => HolderCount
    BY DEF Init, HolderCount, Holders
  <2> QED
    BY <2>1, <2>2, TypeInit DEF Types, LockInv
<1>2. Types /\ LockInv /\ [Next]_vars => Types' /\ LockInv'
  BY TypeNext, LockInvNext DEF Types
<1> QED
  BY <1>1, <1>2, Exclusive, PTL DEF Spec

-----------------------------------------------------------------------------
(* What a file says of the process that stands behind it                    *)

Owner == ProcOf[file.maker]
Claimed ==
    \/ stage[file.maker] = "written"
    \/ held[Owner] # None /\ held[Owner].maker = file.maker
FileTells ==
    /\ \A p \in Procs : pid[p] # None => started[pid[p]] # None
    /\ \A p, q \in Procs : pid[p] # None /\ pid[p] = pid[q] => p = q
    /\ Written => stage[file.maker] # "writing"
    /\ Written /\ Claimed => file.pid = pid[Owner] /\ file.start \in {None, started[pid[Owner]]}

LEMMA FileTellsKept ==
    ASSUME Types, FileTells, SameLocks, NoNewClaim, UNCHANGED <<pid, started>>,
           \/ UNCHANGED file
           \/ file' = None
           \/ /\ file # None /\ file' # None
              /\ file'.maker = file.maker /\ file'.pid = file.pid /\ file'.start = file.start
    PROVE  FileTells'
<1>1. file # None => file.maker \in Tasks /\ Owner \in Procs
  BY LockAssumption DEF Types, TypeOK, Files, Owner
<1>2. Written' => Written /\ file'.maker = file.maker /\ file'.pid = file.pid /\ file'.start = file.start
  BY DEF Written
<1>3. Written' => file # None /\ Owner' = Owner
  BY <1>2 DEF Owner, Written
<1>4. Written' => stage'[file'.maker] # "writing"
  BY <1>1, <1>2, <1>3 DEF FileTells, NoNewClaim
<1>5. Written' /\ Claimed' => Claimed
  BY <1>1, <1>2, <1>3 DEF FileTells, SameLocks, NoNewClaim, Claiming, Claimed
<1>6. Written' /\ Claimed' => file'.pid = pid[Owner'] /\ file'.start \in {None, started[pid[Owner']]}
  BY <1>2, <1>3, <1>5 DEF FileTells
<1> QED
  BY <1>4, <1>6 DEF FileTells

LEMMA FileTellsTask ==
    ASSUME Types, FileTells, NEW t \in Tasks, TaskStep(t)
    PROVE  FileTells'
<1> USE LockAssumption
<1>1. CASE Open(t)
  <2>1. file' = NewFile(t) /\ UNCHANGED <<pid, started>>
    BY <1>1 DEF Open, processes
  <2>2. ~Written'
    BY <2>1, NewFileIs DEF Written
  <2> QED
    BY <2>1, <2>2 DEF FileTells
<1>2. CASE Write(t)
  <2> DEFINE p == ProcOf[t]
  <2>1. /\ stage[t] = "writing" /\ stage' = [stage EXCEPT ![t] = "written"]
        /\ UNCHANGED <<held, pid, started, startTimes>>
    BY <1>2 DEF Write, To, processes
  <2>2. stage'[t] = "written" /\ \A u \in Tasks \ {t} : stage'[u] = stage[u]
    BY <2>1 DEF Types, TypeOK
  <2>3. CASE file # None /\ file.maker = t
    <3>1. Written' /\ file'.maker = t /\ file'.pid = pid[p] /\ file'.start = StartTime(p)
      BY <1>2, <2>3, Wrote DEF Written
    <3>2. file'.start \in {None, started[pid[p]]}
      BY <3>1 DEF StartTime
    <3> QED
      BY <2>1, <2>2, <3>1, <3>2 DEF FileTells, Owner
  <2>4. CASE ~(file # None /\ file.maker = t)
    <3>1. UNCHANGED file
      BY <1>2, <2>4 DEF Write
    <3>2. Written => file.maker \in Tasks \ {t}
      BY <2>4 DEF Types, TypeOK, Files, Written
    <3>3. Written => stage'[file.maker] = stage[file.maker]
      BY <2>2, <3>2
    <3> QED
      BY <2>1, <3>1, <3>3 DEF FileTells, Owner, Written, Claimed
  <2> QED
    BY <2>3, <2>4
<1>3. CASE Finish(t)
  <2> DEFINE p == ProcOf[t]
  <2>1. /\ stage[t] = "written" /\ held' = [held EXCEPT ![p] = [maker |-> t, count |-> 1]]
        /\ stage' = [Forgotten(p) EXCEPT ![t] = "in"] /\ UNCHANGED <<file, pid, started, startTimes>>
    BY <1>3 DEF Finish, processes
  <2>2. \A u \in Tasks :
            /\ stage'[u] = "writing" => stage[u] = "writing"
            /\ stage'[u] = "written" => stage[u] = "written"
    BY <2>1 DEF Forgotten, Types, TypeOK
  <2>3. held'[p].maker = t /\ \A q \in Procs \ {p} : held'[q] = held[q]
    BY <2>1 DEF Types, TypeOK
  <2>4. file # None => file.maker \in Tasks /\ Owner \in Procs
    BY DEF Types, TypeOK, Files, Owner
  <2>5. Written => stage'[file.maker] # "writing"
    BY <2>2, <2>4 DEF FileTells, Written
  <2>6. Written /\ Claimed' => Claimed
    BY <2>1, <2>2, <2>3, <2>4 DEF Claimed, Owner, Written
  <2> QED
    BY <2>1, <2>5, <2>6 DEF FileTells, Owner, Written
<1>4. CASE ~Open(t) /\ ~Write(t) /\ ~Finish(t)
  <2>1. file' \in {file, None} /\ UNCHANGED <<pid, started>>
    BY <1>4 DEF TaskStep, Contend, Reenter, Refused, Judge, Stat, UnlinkFile, Unlink, GiveUp, WriteFails,
                StatFails, Release, UnlinkFails, processes
  <2> QED
    BY <1>4, <2>1, FileTellsKept, SameLocksTask, NoNewClaimTask
<1> QED
  BY <1>1, <1>2, <1>3, <1>4

LEMMA FileTellsProc ==
    ASSUME Types, FileTells, NEW p \in Procs, ProcStep(p)
    PROVE  FileTells'
<1> USE LockAssumption
<1>0. file # None => file.maker \in Tasks /\ Owner \in Procs
  BY DEF Types, TypeOK, Files, Owner
<1>1. CASE Crash(p)
  <2>1. /\ pid[p] \in Pids /\ pid' = [pid EXCEPT ![p] = None]
        /\ held' = [held EXCEPT ![p] = None] /\ UNCHANGED file
    BY <1>1 DEF Crash, Types, TypeOK
  <2>2. \A n \in Pids \ {pid[p]} : started'[n] = started[n]
    BY <1>1 DEF Crash, Types, TypeOK
  <2>3. ASSUME NEW q \in Procs, pid'[q] # None
        PROVE  q # p /\ pid'[q] = pid[q] /\ pid[q] \in Pids \ {pid[p]} /\ started'[pid[q]] = started[pid[q]]
    BY <2>1, <2>2, <2>3 DEF FileTells, Types, TypeOK
  <2>4. Written => stage'[file.maker] # "writing"
    BY <1>0, <1>1, NoNewClaimProc DEF NoNewClaim, FileTells, Written
  <2>5. ASSUME Written, Claimed'
        PROVE  file.pid = pid'[Owner] /\ file.start \in {None, started'[pid'[Owner]]}
    <3>1. Owner \in Procs /\ Owner # p /\ Claimed
      BY <1>0, <1>1, <2>1, <2>5 DEF Crash, Types, TypeOK, Written, Claimed, Owner
    <3>2. file.pid = pid[Owner] /\ file.start \in {None, started[pid[Owner]]} /\ file.pid # None
      BY <2>5, <3>1 DEF FileTells, Written
    <3>3. pid'[Owner] = pid[Owner]
      BY <2>1, <3>1 DEF Types, TypeOK
    <3> QED
      BY <2>3, <3>1, <3>2, <3>3
  <2> QED
    BY <2>1, <2>3, <2>4, <2>5 DEF FileTells, Owner, Written
<1>2. CASE Start(p)
  <2>1. PICK n \in Pids : started[n] = None /\ started' = [started EXCEPT ![n] = StartedNow]
                          /\ pid' = [pid EXCEPT ![p] = n]
    BY <1>2 DEF Start
  <2>2. pid[p] = None /\ UNCHANGED <<file, held, stage>>
    BY <1>2 DEF Start
  <2>3. StartedNow # None
    BY <1>2 DEF Start, StartedNow, Types, TypeOK
  <2>4. ASSUME NEW q \in Procs, pid[q] # None
        PROVE  q # p /\ pid'[q] = pid[q] /\ pid[q] \in Pids \ {n} /\ started'[pid[q]] = started[pid[q]]
    BY <2>1, <2>2, <2>4 DEF FileTells, Types, TypeOK
  <2>5. pid'[p] = n /\ started'[n] = StartedNow /\ \A q \in Procs \ {p} : pid'[q] = pid[q]
    BY <2>1 DEF Types, TypeOK
  <2>6. \A q \in Procs : pid'[q] # None => started'[pid'[q]] # None
    BY <2>3, <2>4, <2>5 DEF FileTells
  <2>7. ASSUME NEW q \in Procs, NEW r \in Procs, pid'[q] # None, pid'[q] = pid'[r] PROVE q = r
    BY <2>4, <2>5, <2>7 DEF FileTells
  <2>8. ASSUME Written, Claimed
        PROVE  file.pid = pid'[Owner] /\ file.start \in {None, started'[pid'[Owner]]}
    <3>1. file.pid = pid[Owner] /\ file.start \in {None, started[pid[Owner]]} /\ file.pid # None
      BY <2>8 DEF FileTells, Written
    <3> QED
      BY <1>0, <2>4, <2>8, <3>1 DEF Written
  <2> QED
    BY <2>2, <2>6, <2>7, <2>8 DEF FileTells, Owner, Written, Claimed
<1>3. CASE ~Crash(p) /\ ~Start(p)
  <2>1. file' \in {file, None} /\ UNCHANGED <<pid, started>>
    BY <1>3 DEF ProcStep, Evict, WatchdogUnlinks, Unlink, ReleaseAll, SweepReads, Sweep, SweepJudges,
                SweepUnlinks, processes
  <2> QED
    BY <2>1, FileTellsKept, SameLocksProc, NoNewClaimProc
<1> QED
  BY <1>1, <1>2, <1>3

LEMMA FileTellsNext == Types /\ FileTells /\ [Next]_vars => FileTells'
<1> SUFFICES ASSUME Types, FileTells, [Next]_vars PROVE FileTells'
  OBVIOUS
<1>1. CASE Age \/ OverlongHold
  <2>1. SameLocks /\ NoNewClaim /\ UNCHANGED <<pid, started>>
    BY <1>1, Aged DEF SameLocks, NoNewClaim, Claiming, processes
  <2> QED
    BY <1>1, <2>1, Aged, FileTellsKept
<1>2. CASE UNCHANGED vars
  BY <1>2, FileTellsKept DEF vars, processes, SameLocks, NoNewClaim, Claiming
<1> QED
  BY <1>1, <1>2, Steps, FileTellsTask, FileTellsProc

LEMMA FileTellsInit == Init => FileTells
<1> SUFFICES ASSUME Init PROVE FileTells
  OBVIOUS
<1>1. ~Written /\ pid = FirstPid
  BY DEF Init, Written
<1>2. ASSUME NEW p \in Procs PROVE started[pid[p]] = 0
  BY <1>1, LockAssumption DEF Init
<1>3. 0 # None
  BY LockAssumption
<1> QED
  BY <1>1, <1>2, <1>3, LockAssumption DEF FileTells

(* Who judges by what the file of a lock in force says finds its process    *)
(* at work, and HELD_LOCKS to know of it unless it has just been written.   *)
LEMMA NotCondemned ==
    ASSUME Types, FileTells, Backed, NEW t \in Tasks, stage[t] = "judging", seen[t] = Payload, ~Unheard(t)
    PROVE  ~Stale(seen[t]) /\ ~Orphan(ProcOf[t], seen[t])
<1> DEFINE p == ProcOf[t]
<1>1. p \in Procs /\ pid[p] # None /\ seen[t] # None
  BY LockAssumption DEF Types, AtWork
<1>2. Written
  BY <1>1 DEF Payload
<1>3. seen[t].pid = file.pid /\ seen[t].start = file.start
  BY <1>2, PayloadIs DEF Types
<1>4. file.maker \in Tasks /\ Owner \in Procs /\ Claimed
  BY <1>2, LockAssumption DEF Backed, InForce, FileTells, Types, TypeOK, Files, Owner, Claimed
<1>5. file.pid = pid[Owner] /\ file.pid # None /\ file.start \in {None, started[pid[Owner]]}
  BY <1>2, <1>4 DEF FileTells, Written
<1>6. started[pid[Owner]] # None
  BY <1>4, <1>5 DEF FileTells
<1>7. ~Stale(seen[t])
  BY <1>3, <1>5, <1>6 DEF Stale
<1>8. ~Orphan(p, seen[t])
  <2> SUFFICES ASSUME file.pid = pid[p], file.start = None, held[p] = None PROVE FALSE
    BY <1>3 DEF Orphan
  <2>1. Owner = p
    BY <1>1, <1>4, <1>5 DEF FileTells
  <2> QED
    BY <1>4, <2>1 DEF Claimed, Unheard, Owner
<1> QED
  BY <1>7, <1>8

(* No task condemns the file of a lock in force by what it has read of it,  *)
(* but for its age, a stat that fails and, where start times are unknown,   *)
(* the moment before HELD_LOCKS hears of it: not after crashes, and not     *)
(* when the pid of a dead process is taken by another.                      *)
THEOREM NoLockIsCondemned == Spec => CondemnsNoLock
<1> DEFINE Inv == Types /\ FileTells
<1> DEFINE Spares == \A t \in Tasks :
         /\ stage[t] # "removing" /\ stage'[t] = "removing"
         /\ stage[t] = "judging" => seen[t] = Payload
         => ~Backed \/ file.old \/ Unheard(t) \/ faults' > faults
<1>1. Init => Inv
  <2>1. Init => HolderCount
    BY DEF Init, HolderCount, Holders
  <2> QED
    BY <2>1, TypeInit, FileTellsInit DEF Types
<1>2. Inv /\ [Next]_vars => Inv'
  BY TypeNext, FileTellsNext DEF Types
<1>3. Inv /\ [Next]_vars => [Spares]_vars
  <2> SUFFICES ASSUME Types, FileTells, Next,
                      NEW t \in Tasks, stage[t] # "removing", stage'[t] = "removing",
                      stage[t] = "judging" => seen[t] = Payload, Backed, ~Unheard(t)
               PROVE  file.old \/ faults' > faults
    BY DEF Types
  <2>1. ASSUME NEW u \in Tasks, TaskStep(u)
        PROVE  u = t /\ (Refused(t) \/ Judge(t) \/ Stat(t) \/ StatFails(t))
    <3>1. CASE Refused(u) \/ Judge(u) \/ Stat(u) \/ StatFails(u)
      BY <3>1 DEF Refused, Judge, Stat, StatFails, To, Types, TypeOK
    <3>2. CASE Reenter(u) \/ Open(u) \/ Write(u) \/ GiveUp(u) \/ WriteFails(u) \/ UnlinkFails(u)
      BY <3>2 DEF Reenter, Open, Write, GiveUp, WriteFails, UnlinkFails, To, Types, TypeOK
    <3>3. CASE Release(u) \/ UnlinkFile(u)
      BY <3>3 DEF Release, UnlinkFile, To, Types, TypeOK
    <3>4. CASE Finish(u)
      BY <3>4 DEF Finish, Forgotten, Types, TypeOK
    <3> QED
      BY <2>1, <3>1, <3>2, <3>3, <3>4 DEF TaskStep, Contend
  <2>2. ASSUME NEW p \in Procs, ProcStep(p) PROVE FALSE
    <3>1. CASE Evict(p) \/ ReleaseAll(p)
      BY <3>1 DEF Evict, ReleaseAll, Forgotten, Types, TypeOK
    <3>2. CASE Crash(p)
      BY <3>2 DEF Crash, Types, TypeOK
    <3>3. CASE WatchdogUnlinks(p) \/ SweepReads(p) \/ Sweep(p) \/ Start(p)
      BY <3>3 DEF WatchdogUnlinks, SweepReads, Sweep, SweepJudges, SweepUnlinks, Start
    <3> QED
      BY <2>2, <3>1, <3>2, <3>3 DEF ProcStep
  <2>3. ~Age /\ ~OverlongHold
    BY DEF Age, OverlongHold
  <2>4. Refused(t) \/ Judge(t) \/ Stat(t) \/ StatFails(t)
    BY <2>1, <2>2, <2>3, Steps
  <2>5. CASE Judge(t)
    <3>1. stage[t] = "judging" /\ (Stale(seen[t]) \/ Orphan(ProcOf[t], seen[t]))
      BY <2>5 DEF Judge, To, Types, TypeOK
    <3> QED
      BY <3>1, NotCondemned
  <2>6. CASE Refused(t) \/ Stat(t)
    BY <2>6 DEF Refused, Stat, To, Types, TypeOK
  <2>7. CASE StatFails(t)
    BY <2>7, LockAssumption DEF StatFails, Types, TypeOK
  <2> QED
    BY <2>4, <2>5, <2>6, <2>7
<1> QED
  BY <1>1, <1>2, <1>3, PTL DEF Spec, CondemnsNoLock

-----------------------------------------------------------------------------
(* While nothing fails, no lock is held for too long and no sweep condemns  *)
(* a file unread, there is one unlink under way at most: that of the file   *)
(* that its lock has left behind.                                           *)
Quiet == startTimes /\ faults = 0 /\ harm = "none"
SoundFile ==
    /\ \A p \in Procs : pid[p] # None
    /\ file # None => ~file.old
    /\ Written => file.start # None /\ started[file.pid] = file.start
    /\ file # None /\ ~Written => stage[file.maker] = "writing"
SoundReads ==
    \A x \in Tasks \union Procs :
        seen[x] # None => seen[x].start # None /\ started[seen[x].pid] = seen[x].start
NoRemoval ==
    /\ \A t \in Tasks : stage[t] # "removing"
    /\ \A p \in Procs : sweep[p] # "removing"
Leaver(t) == stage[t] = "releasing"
OneUnlink ==
    /\ file # None /\ ~Backed => (\E t \in Tasks : Leaver(t)) \/ (\E p \in Procs : watchdog[p])
    /\ \A t \in Tasks : Leaver(t) => file # None /\ ~Backed
    /\ \A p \in Procs : watchdog[p] => file # None /\ ~Backed
    /\ \A t, u \in Tasks : Leaver(t) /\ Leaver(u) => t = u
    /\ \A p, q \in Procs : watchdog[p] /\ watchdog[q] => p = q
    /\ \A t \in Tasks, p \in Procs : ~(Leaver(t) /\ watchdog[p])
Calm == harm = "none" /\ SoundFile /\ SoundReads /\ NoRemoval /\ OneUnlink

(* What was read condemns nobody. *)
LEMMA CalmFresh ==
    ASSUME Types, Calm, NEW x \in Tasks \union Procs, seen[x] # None
    PROVE  ~Stale(seen[x]) /\ seen[x].start # None
BY LockAssumption DEF Calm, SoundReads, Stale

(* What is read condemns nobody. *)
LEMMA CalmReads ==
    ASSUME Types, Calm, NEW x \in Tasks \union Procs, UNCHANGED started,
           \/ UNCHANGED seen
           \/ seen' = [seen EXCEPT ![x] = None]
           \/ Written /\ seen' = [seen EXCEPT ![x] = Payload]
    PROVE  SoundReads'
<1>1. Written => Payload.start # None /\ started[Payload.pid] = Payload.start
  BY PayloadIs DEF Calm, SoundFile, Types
<1> QED
  BY <1>1 DEF Calm, SoundReads, Types, TypeOK

(* Nobody is about to unlink. *)
NoUnlink == (\A t \in Tasks : ~Leaver(t)) /\ (\A p \in Procs : ~watchdog[p])

LEMMA CalmNoUnlink == ASSUME Calm, file = None \/ Backed PROVE NoUnlink
BY DEF Calm, OneUnlink, NoUnlink

(* The step does not touch the file, its lock and who unlinks it. *)
LEMMA CalmKept ==
    ASSUME Calm, UNCHANGED <<pid, started, file, harm, watchdog>>, Backed' = Backed,
           \A t \in Tasks : Leaver(t)' = Leaver(t), NoRemoval', SoundReads',
           file # None /\ ~Written => stage'[file.maker] = "writing"
    PROVE  Calm'
<1>1. SoundFile'
  BY DEF Calm, SoundFile, Written
<1>2. OneUnlink'
  BY Zenon DEF Calm, OneUnlink
<1> QED
  BY <1>1, <1>2 DEF Calm

(* The step leaves no file, and nobody about to unlink one. *)
LEMMA CalmCleared ==
    ASSUME Calm, UNCHANGED <<pid, started, seen, harm>>, file' = None, NoUnlink', NoRemoval' PROVE Calm'
BY DEF Calm, SoundFile, SoundReads, OneUnlink, NoUnlink, Written, Leaver

(* A lock that is held is the one in force. *)
LEMMA CalmHeld ==
    ASSUME Types, LockInv, Calm, NEW p \in Procs, held[p] # None
    PROVE  /\ Written /\ Backed /\ NoUnlink /\ file.maker = held[p].maker
           /\ file.maker \in Tasks /\ ProcOf[file.maker] = p
           /\ \A t \in Tasks : stage[t] \notin Claiming
<1>1. MakerIsHere /\ FileOfLock
  BY DEF LockInv, Calm
<1>2. /\ Backed /\ file.maker = held[p].maker /\ file.maker \in Tasks /\ file # None
      /\ \A t \in Tasks : stage[t] \notin Claiming
  BY <1>1, LockInForce DEF Backed
<1>3. Written
  BY <1>2 DEF Calm, SoundFile, Claiming
<1> QED
  BY <1>1, <1>2, <1>3, CalmNoUnlink DEF MakerIsHere

(* HELD_LOCKS lets the lock go, and one task or the watchdog will unlink.   *)
OneLeaver ==
    \/ (\A q \in Procs : ~watchdog[q]) /\ \E t \in Tasks : \A u \in Tasks : Leaver(u) <=> u = t
    \/ (\A u \in Tasks : ~Leaver(u)) /\ \E p \in Procs : \A q \in Procs : watchdog[q] <=> q = p

LEMMA LeftBehind ==
    ASSUME Types, LockInv, Calm, NEW p \in Procs, held[p] # None, held'[p] = None, NoNewClaim,
           UNCHANGED <<pid, started, file, seen, harm, sweep>>, OneLeaver', NoRemoval'
    PROVE  Calm'
<1>1. /\ Written /\ file # None /\ file.maker \in Tasks /\ ProcOf[file.maker] = p
      /\ stage[file.maker] \notin Claiming
  BY CalmHeld DEF Written
<1>2. ~Backed'
  BY <1>1 DEF Backed, InForce, NoNewClaim, Claiming
<1>3. SoundFile' /\ SoundReads'
  BY <1>1 DEF Calm, SoundFile, SoundReads, Written
<1>4. OneUnlink'
  BY <1>1, <1>2 DEF OneUnlink, OneLeaver
<1> QED
  BY <1>3, <1>4 DEF Calm

LEMMA CalmTask ==
    ASSUME Types, LockInv, FileTells, Calm, Quiet, NEW t \in Tasks, TaskStep(t), faults' = 0
    PROVE  Calm'
<1> USE LockAssumption DEF processes
<1> DEFINE p == ProcOf[t]
<1>0. p \in Procs /\ faults = 0 /\ MakerIsHere /\ FileOfLock
  BY DEF LockInv, Calm, Quiet
<1>1. ASSUME NEW s \in Stages \ {"removing", "releasing", "writing", "written"},
             stage[t] \notin {"writing", "written", "releasing"}, stage' = [stage EXCEPT ![t] = s],
             SameLocks, \A q \in Procs : held[q] # None => held'[q] # None,
             UNCHANGED <<pid, started, file, harm, watchdog, sweep>>,
             \/ UNCHANGED seen
             \/ seen' = [seen EXCEPT ![t] = None]
             \/ Written /\ seen' = [seen EXCEPT ![t] = Payload]
      PROVE  Calm'
  <2>1. /\ \A u \in Tasks : Leaver(u)' = Leaver(u)
        /\ \A u \in Tasks : stage'[u] \in Claiming <=> stage[u] \in Claiming
        /\ \A u \in Tasks : stage[u] = "writing" => stage'[u] = "writing"
        /\ NoRemoval'
    BY <1>1 DEF Leaver, Claiming, NoRemoval, Calm, Types, TypeOK
  <2>2. file # None => file.maker \in Tasks /\ ProcOf[file.maker] \in Procs
    BY DEF Types, TypeOK, Files
  <2>3. file # None => InForce(file.maker)' = InForce(file.maker)
    <3> SUFFICES ASSUME file # None PROVE InForce(file.maker)' = InForce(file.maker)
      OBVIOUS
    <3> DEFINE o == ProcOf[file.maker]
    <3>1. (held'[o] # None /\ held'[o].maker = file.maker) <=> (held[o] # None /\ held[o].maker = file.maker)
      BY <1>1, <2>2 DEF SameLocks
    <3>2. stage'[file.maker] \in Claiming <=> stage[file.maker] \in Claiming
      BY <2>1, <2>2
    <3>3. file' = file
      BY <1>1
    <3> QED
      BY <3>1, <3>2, <3>3 DEF InForce, Claiming
  <2>4. Backed' = Backed
    BY <1>1, <2>3 DEF Backed
  <2>5. file # None /\ ~Written => stage'[file.maker] = "writing"
    BY <2>1, <2>2 DEF Calm, SoundFile
  <2>6. SoundReads'
    BY <1>1, CalmReads
  <2> QED
    BY <1>1, <2>1, <2>4, <2>5, <2>6, CalmKept
<1>2. CASE Reenter(t)
  <2>1. /\ stage[t] = "idle" /\ UNCHANGED <<pid, started, file, seen, harm, watchdog, sweep>>
        /\ stage' = [stage EXCEPT ![t] = "in"]
    BY <1>2 DEF Reenter, To
  <2>2. SameLocks
    BY <1>2, SameLocksTask DEF TaskStep, Reenter, Finish
  <2>3. \A q \in Procs : held[q] # None => held'[q] # None
    <3>1. held[p] # None /\ held' = [held EXCEPT ![p].count = @ + 1]
      BY <1>2 DEF Reenter
    <3>2. held[p] \in [maker : Tasks, count : Nat \ {0}]
      BY <1>0, <3>1 DEF Types, TypeOK
    <3>3. [held[p] EXCEPT !.count = @ + 1] \in [maker : Tasks, count : Nat]
      BY <3>2
    <3> QED
      BY <3>1, <3>3 DEF Types, TypeOK
  <2> QED
    BY <1>1, <2>1, <2>2, <2>3 DEF Stages
<1>3. CASE Refused(t)
  <2>1. file # None /\ ~file.old
    BY <1>3 DEF Refused, Calm, SoundFile
  <2>2. \/ stage' = [stage EXCEPT ![t] = "stating"] /\ UNCHANGED seen
        \/ stage' = [stage EXCEPT ![t] = "judging"] /\ Written /\ seen' = [seen EXCEPT ![t] = Payload]
    BY <1>3, <2>1 DEF Refused, To
  <2>3. /\ stage[t] \notin {"writing", "written", "releasing"}
        /\ UNCHANGED <<pid, started, file, harm, watchdog, sweep, held>>
    BY <1>3 DEF Refused, Tries
  <2> QED
    BY <1>1, <2>2, <2>3 DEF Stages, SameLocks
<1>4. CASE Judge(t)
  <2>1. stage[t] = "judging" /\ seen[t] # None
    BY <1>4 DEF Judge, Types, AtWork
  <2>2. ~Stale(seen[t]) /\ ~Orphan(p, seen[t])
    BY <2>1, CalmFresh DEF Orphan
  <2>3. stage' = [stage EXCEPT ![t] = "waiting"] /\ seen' = [seen EXCEPT ![t] = None]
    BY <1>4, <2>2 DEF Judge, To
  <2>4. UNCHANGED <<pid, started, file, harm, watchdog, sweep, held>>
    BY <1>4 DEF Judge
  <2> QED
    BY <1>1, <2>1, <2>3, <2>4 DEF Stages, SameLocks
<1>5. CASE Stat(t) \/ GiveUp(t)
  <2>1. stage' = [stage EXCEPT ![t] = "waiting"] \/ stage' = [stage EXCEPT ![t] = "idle"]
    BY <1>5 DEF Stat, GiveUp, To, Calm, SoundFile
  <2>2. /\ stage[t] \notin {"writing", "written", "releasing"}
        /\ UNCHANGED <<pid, started, file, seen, harm, watchdog, sweep, held>>
    BY <1>5 DEF Stat, GiveUp
  <2> QED
    BY <1>1, <2>1, <2>2 DEF Stages, SameLocks
<1>6. CASE WriteFails(t) \/ StatFails(t) \/ UnlinkFails(t)
  BY <1>0, <1>6 DEF WriteFails, StatFails, UnlinkFails
<1>7. CASE Open(t)
  <2>1. NoUnlink
    BY <1>7, CalmNoUnlink DEF Open
  <2>2. /\ file' = NewFile(t) /\ stage' = [stage EXCEPT ![t] = "writing"]
        /\ UNCHANGED <<pid, started, seen, harm, watchdog, sweep>>
    BY <1>7 DEF Open, To
  <2>3. stage'[t] = "writing" /\ NoUnlink' /\ NoRemoval'
    BY <2>1, <2>2 DEF NoUnlink, Leaver, NoRemoval, Calm, Types, TypeOK
  <2>4. file' # None /\ file'.maker = t /\ ~Written' /\ ~file'.old
    BY <2>2, NewFileIs DEF Written
  <2>5. Backed'
    BY <2>3, <2>4 DEF Backed, InForce
  <2>6. SoundFile' /\ SoundReads'
    BY <2>2, <2>3, <2>4 DEF Calm, SoundFile, SoundReads
  <2>7. OneUnlink'
    BY <2>3, <2>5 DEF OneUnlink, NoUnlink
  <2> QED
    BY <2>2, <2>3, <2>6, <2>7 DEF Calm
<1>8. CASE Write(t)
  <2>1. stage[t] = "writing" /\ file # None /\ file.maker = t /\ Backed
    BY <1>0, <1>8 DEF Write, FileOfLock, InForce, Backed
  <2>2. NoUnlink
    BY <2>1, CalmNoUnlink
  <2>3. stage' = [stage EXCEPT ![t] = "written"] /\ UNCHANGED <<pid, started, seen, harm, watchdog, sweep>>
    BY <1>8 DEF Write, To
  <2>4. stage'[t] = "written" /\ NoUnlink' /\ NoRemoval'
    BY <2>2, <2>3 DEF NoUnlink, Leaver, NoRemoval, Calm, Types, TypeOK
  <2>5. /\ file' # None /\ file'.maker = t /\ ~file'.old /\ Written'
        /\ file'.pid = pid[p] /\ file'.start = StartTime(p)
    BY <1>8, <2>1, Wrote DEF Written, Calm, SoundFile
  <2>6. Backed'
    BY <2>4, <2>5 DEF Backed, InForce
  <2>7. file'.start # None /\ started[pid[p]] = file'.start
    <3>1. StartTime(p) = started[pid[p]]
      BY DEF StartTime, Quiet
    <3>2. started[pid[p]] # None
      BY <1>0 DEF FileTells, Calm, SoundFile
    <3> QED
      BY <2>5, <3>1, <3>2
  <2>8. SoundFile' /\ SoundReads'
    BY <2>3, <2>5, <2>7 DEF Calm, SoundFile, SoundReads
  <2>9. OneUnlink'
    BY <2>4, <2>6 DEF OneUnlink, NoUnlink
  <2> QED
    BY <2>3, <2>4, <2>8, <2>9 DEF Calm
<1>9. CASE Finish(t)
  <2>1. stage[t] = "written" /\ file # None /\ file.maker = t /\ Backed
    BY <1>0, <1>9 DEF Finish, FileOfLock, InForce, Backed
  <2>2. NoUnlink /\ Written
    BY <2>1, CalmNoUnlink DEF Calm, SoundFile
  <2>3. /\ held'[p] = [maker |-> t, count |-> 1] /\ stage' = [Forgotten(p) EXCEPT ![t] = "in"]
        /\ UNCHANGED <<pid, started, file, seen, harm, watchdog, sweep>>
    BY <1>0, <1>9 DEF Finish, Types, TypeOK
  <2>4. NoUnlink' /\ NoRemoval'
    BY <2>2, <2>3 DEF NoUnlink, Leaver, Forgotten, NoRemoval, Calm, Types, TypeOK
  <2>5. Backed'
    <3>1. held'[p].maker = t /\ held'[p] # None
      BY <2>3
    <3> QED
      BY <2>1, <2>3, <3>1 DEF Backed, InForce
  <2>6. SoundFile' /\ SoundReads'
    BY <2>2, <2>3 DEF Calm, SoundFile, SoundReads, Written
  <2>7. OneUnlink'
    BY <2>4, <2>5 DEF OneUnlink, NoUnlink
  <2> QED
    BY <2>3, <2>4, <2>6, <2>7 DEF Calm
<1>10. CASE UnlinkFile(t)
  <2>1. Leaver(t)
    BY <1>10 DEF UnlinkFile, Unlinking, Leaver, Calm, NoRemoval
  <2>2. ~Backed /\ UNCHANGED harm /\ file' = None
    BY <1>10, <2>1 DEF UnlinkFile, Unlink, Calm, OneUnlink
  <2>3. stage' = [stage EXCEPT ![t] = "idle"] /\ UNCHANGED <<pid, started, seen, watchdog, sweep>>
    BY <1>10, <2>1 DEF UnlinkFile, To, Leaver
  <2>4. NoUnlink' /\ NoRemoval'
    BY <2>1, <2>3 DEF NoUnlink, Leaver, NoRemoval, Calm, OneUnlink, Types, TypeOK
  <2> QED
    BY <2>2, <2>3, <2>4, CalmCleared
<1>11. CASE Release(t)
  <2>1. CASE stage[t] = "evicted" \/ held[p].count > 1
    <3>1. /\ stage[t] \notin {"writing", "written", "releasing"} /\ stage' = [stage EXCEPT ![t] = "idle"]
          /\ UNCHANGED <<pid, started, file, seen, harm, watchdog, sweep>>
      BY <1>11, <2>1 DEF Release, To
    <3>2. SameLocks
      BY <1>11, SameLocksTask DEF TaskStep, Release, Finish
    <3>3. \A q \in Procs : held[q] # None => held'[q] # None
      <4>1. CASE stage[t] = "evicted"
        BY <1>11, <4>1 DEF Release
      <4>2. CASE stage[t] = "in" /\ held[p].count > 1
        <5>1. held[p] # None
          BY <1>0, <4>2 DEF Types, HolderCount, Holders
        <5>2. held[p] \in [maker : Tasks, count : Nat \ {0}]
          BY <1>0, <5>1 DEF Types, TypeOK
        <5>3. [held[p] EXCEPT !.count = @ - 1] \in [maker : Tasks, count : Nat]
          BY <4>2, <5>2
        <5>4. held' = [held EXCEPT ![p] = [held[p] EXCEPT !.count = @ - 1]]
          BY <1>11, <4>2 DEF Release
        <5> QED
          BY <5>3, <5>4 DEF Types, TypeOK
      <4> QED
        BY <1>11, <2>1, <4>1, <4>2 DEF Release
    <3> QED
      BY <1>1, <3>1, <3>2, <3>3 DEF Stages
  <2>2. CASE stage[t] = "in" /\ ~(held[p].count > 1)
    <3>1. held[p] # None
      BY <1>0, <2>2 DEF Types, HolderCount, Holders
    <3>2. /\ held'[p] = None /\ stage' = [stage EXCEPT ![t] = "releasing"]
          /\ UNCHANGED <<pid, started, file, seen, harm, watchdog, sweep>>
      BY <1>0, <1>11, <2>2 DEF Release, To, Types, TypeOK
    <3> QED
      <4>1. NoUnlink /\ NoNewClaim /\ NoRemoval'
        BY <1>0, <3>1, <3>2, CalmHeld DEF NoNewClaim, Claiming, NoRemoval, Calm, Types, TypeOK
      <4>2. (\A q \in Procs : ~watchdog'[q]) /\ \A u \in Tasks : Leaver(u)' <=> u = t
        BY <3>2, <4>1 DEF NoUnlink, Leaver, Types, TypeOK
      <4> QED
        BY <1>0, <3>1, <3>2, <4>1, <4>2, LeftBehind DEF OneLeaver
  <2> QED
    BY <1>11, <2>1, <2>2 DEF Release
<1> QED
  BY <1>2, <1>3, <1>4, <1>5, <1>6, <1>7, <1>8, <1>9, <1>10, <1>11 DEF TaskStep, Contend

LEMMA CalmProc ==
    ASSUME Types, LockInv, Calm, NEW p \in Procs, ProcStep(p), Quiet, faults' = 0, harm' # "swept"
    PROVE  Calm'
<1> USE DEF processes
<1>1. CASE Evict(p)
  <2>1. /\ held[p] # None /\ held'[p] = None /\ stage' = Forgotten(p)
        /\ watchdog' = [watchdog EXCEPT ![p] = TRUE]
        /\ UNCHANGED <<pid, started, file, seen, harm, sweep>>
    BY <1>1 DEF Evict, Types, TypeOK
  <2>2. NoUnlink /\ NoNewClaim /\ NoRemoval'
    BY <1>1, <2>1, CalmHeld DEF NoNewClaim, Forgotten, Claiming, NoRemoval, Calm, Types, TypeOK
  <2>3. (\A u \in Tasks : ~Leaver(u)') /\ \A q \in Procs : watchdog'[q] <=> q = p
    BY <2>1, <2>2 DEF NoUnlink, Leaver, Forgotten, Types, TypeOK
  <2> QED
    BY <2>1, <2>2, <2>3, LeftBehind DEF OneLeaver
<1>2. CASE ReleaseAll(p)
  <2>1. held[p] # None /\ file' = None /\ stage' = Forgotten(p)
        /\ UNCHANGED <<pid, started, seen, watchdog, sweep>>
    BY <1>2 DEF ReleaseAll
  <2>2. NoUnlink /\ file.maker = held[p].maker
    BY <2>1, CalmHeld
  <2>3. UNCHANGED harm
    BY <1>2, <2>2 DEF ReleaseAll
  <2>4. NoUnlink' /\ NoRemoval'
    BY <2>1, <2>2 DEF NoUnlink, Leaver, NoRemoval, Forgotten, Calm, Types, TypeOK
  <2> QED
    BY <2>1, <2>3, <2>4, CalmCleared
<1>3. CASE WatchdogUnlinks(p)
  <2>1. watchdog[p] /\ watchdog' = [watchdog EXCEPT ![p] = FALSE]
        /\ UNCHANGED <<pid, started, seen, stage, sweep>>
    BY <1>3 DEF WatchdogUnlinks
  <2>2. ~Backed /\ UNCHANGED harm /\ file' = None
    BY <1>3, <2>1, Zenon DEF WatchdogUnlinks, Unlink, Calm, OneUnlink
  <2>3. NoUnlink' /\ NoRemoval'
    BY <2>1 DEF NoUnlink, Leaver, NoRemoval, Calm, OneUnlink, Types, TypeOK
  <2> QED
    BY <2>1, <2>2, <2>3, CalmCleared
<1>4. ASSUME NEW s \in {"idle", "judging"}, sweep' = [sweep EXCEPT ![p] = s], SoundReads',
             UNCHANGED <<pid, started, file, harm, watchdog, stage, held>>
      PROVE  Calm'
  <2>1. NoRemoval' /\ Backed' = Backed /\ \A t \in Tasks : Leaver(t)' = Leaver(t)
    BY <1>4 DEF NoRemoval, Backed, InForce, Leaver, Calm, Types, TypeOK
  <2>2. file # None /\ ~Written => stage'[file.maker] = "writing"
    BY <1>4 DEF Calm, SoundFile
  <2> QED
    BY <1>4, <2>1, <2>2, CalmKept
<1>5. CASE SweepReads(p)
  <2>1. file # None /\ ~file.old
    BY <1>5 DEF SweepReads, Calm, SoundFile
  <2>2. /\ sweep' = [sweep EXCEPT ![p] = "judging"] /\ Written
        /\ seen' = [seen EXCEPT ![p] = Payload] /\ UNCHANGED harm
    BY <1>5, <2>1 DEF SweepReads, SweepTo, Calm
  <2>3. UNCHANGED <<pid, started, file, watchdog, stage, held>>
    BY <1>5 DEF SweepReads
  <2>4. SoundReads'
    BY <2>2, <2>3, CalmReads
  <2> QED
    BY <1>4, <2>2, <2>3, <2>4
<1>6. CASE SweepJudges(p)
  <2>1. sweep[p] = "judging" /\ seen[p] # None
    BY <1>6 DEF SweepJudges, Types, AtWork
  <2>2. ~Stale(seen[p])
    BY <2>1, CalmFresh
  <2>3. /\ sweep' = [sweep EXCEPT ![p] = "idle"] /\ seen' = [seen EXCEPT ![p] = None]
        /\ UNCHANGED <<pid, started, file, harm, watchdog, stage, held>>
    BY <1>6, <2>2 DEF SweepJudges, SweepTo
  <2>4. SoundReads'
    BY <2>3, CalmReads
  <2> QED
    BY <1>4, <2>3, <2>4
<1>7. CASE SweepUnlinks(p)
  BY <1>7 DEF SweepUnlinks, Calm, NoRemoval
<1>8. CASE Crash(p)
  BY <1>8 DEF Crash, Quiet
<1>9. CASE Start(p)
  BY <1>9 DEF Start, Calm, SoundFile
<1> QED
  BY <1>1, <1>2, <1>3, <1>5, <1>6, <1>7, <1>8, <1>9 DEF ProcStep, Sweep

(* No step changes startTimes, or makes a fault and an unlink at once. *)
LEMMA FaultOrUnlink ==
    ASSUME Next
    PROVE  /\ UNCHANGED startTimes
           /\ UNCHANGED faults \/ (faults' = faults + 1 /\ UNCHANGED harm)
<1> USE DEF processes
<1>1. ASSUME NEW t \in Tasks, TaskStep(t)
      PROVE  UNCHANGED startTimes /\ (UNCHANGED faults \/ (faults' = faults + 1 /\ UNCHANGED harm))
  BY <1>1 DEF TaskStep, Contend, Reenter, Open, Write, Finish, Refused, Judge, Stat, UnlinkFile,
              GiveUp, WriteFails, StatFails, Release, UnlinkFails
<1>2. ASSUME NEW p \in Procs, ProcStep(p)
      PROVE  UNCHANGED startTimes /\ (UNCHANGED faults \/ (faults' = faults + 1 /\ UNCHANGED harm))
  BY <1>2 DEF ProcStep, Evict, WatchdogUnlinks, ReleaseAll, SweepReads, Sweep, SweepJudges,
              SweepUnlinks, Crash, Start
<1>3. CASE Age \/ OverlongHold
  BY <1>3 DEF Age, OverlongHold
<1> QED
  BY <1>1, <1>2, <1>3, Steps

(* From a quiet state, a step without a fault that condemns no file unread  *)
(* leads to a calm one.                                                     *)
LEMMA CalmStep ==
    ASSUME Types, LockInv, FileTells, Calm, Quiet, Next, faults' = 0, harm' # "swept"
    PROVE  Calm'
<1>1. ~Age
  BY DEF Age, Calm, OneUnlink, UnlinkUnderWay, Leaver, Unlinking
<1>2. ~OverlongHold
  BY DEF OverlongHold, Quiet
<1> QED
  BY <1>1, <1>2, Steps, CalmTask, CalmProc

LEMMA CalmNext ==
    Types /\ LockInv /\ FileTells /\ (Quiet => Calm) /\ [Next]_vars => (Quiet => Calm)'
<1> SUFFICES ASSUME Types, LockInv, FileTells, Quiet => Calm, [Next]_vars, Quiet' PROVE Calm'
  OBVIOUS
<1>1. CASE UNCHANGED vars
  BY <1>1 DEF vars, processes, Quiet, Calm, SoundFile, SoundReads, NoRemoval, OneUnlink, Leaver, Written,
              Backed, InForce
<1>2. CASE Next
  <2>1. faults \in Nat
    BY LockAssumption DEF Types, TypeOK
  <2>2. startTimes' /\ faults' = 0 /\ harm' = "none"
    BY DEF Quiet
  <2>3. startTimes /\ faults = 0
    <3>1. startTimes
      BY <1>2, <2>2, FaultOrUnlink, Zenon
    <3> QED
      BY <1>2, <2>1, <2>2, <3>1, FaultOrUnlink
  <2>4. harm = "none"
    BY <1>2, <2>2, HarmStays
  <2>5. Quiet /\ harm' # "swept"
    BY <2>2, <2>3, <2>4 DEF Quiet
  <2> QED
    BY <1>2, <2>2, <2>5, CalmStep
<1> QED
  BY <1>1, <1>2

(* While start times are known, nothing fails, no lock is held beyond       *)
(* staleMs and no sweep has condemned a file that it read nothing of, no    *)
(* unlink takes the file of a lock in force.                                *)
THEOREM NoUsurpation == Spec => NotUsurped
<1> DEFINE Inv == Types /\ LockInv /\ FileTells /\ (Quiet => Calm)
           Spared == harm = "none" /\ harm' = "usurped" => ~startTimes \/ faults > 0
<1>1. Init => Inv
  <2>1. Init => HolderCount /\ MakerIsHere /\ FileOfLock
    BY LockAssumption DEF Init, HolderCount, Holders, MakerIsHere, FileOfLock, InForce
  <2>2. Init => Calm
    BY LockAssumption DEF Init, Calm, SoundFile, SoundReads, NoRemoval, OneUnlink, Leaver, Written
  <2> QED
    BY <2>1, <2>2, TypeInit, FileTellsInit DEF Types, LockInv
<1>2. Inv /\ [Next]_vars => Inv'
  BY TypeNext, LockInvNext, FileTellsNext, CalmNext DEF Types
<1>3. Inv /\ [Next]_vars => [Spared]_vars
  <2> SUFFICES ASSUME Inv, Next, harm = "none", harm' = "usurped", startTimes, ~(faults > 0)
               PROVE  FALSE
    OBVIOUS
  <2>1. faults = 0
    BY LockAssumption DEF Types, TypeOK
  <2>2. Quiet /\ Calm /\ faults' = 0
    BY <2>1, FaultOrUnlink DEF Quiet
  <2> QED
    BY <2>2, CalmStep DEF Calm
<1> QED
  BY <1>1, <1>2, <1>3, PTL DEF Spec, NotUsurped

(* So that, if this lasts, one process at a time is in its section,         *)
(* whatever the tasks, the watchdogs and the signals do.                    *)
THEOREM OneProcessAtATime ==
    Spec /\ [](startTimes /\ faults = 0 /\ harm # "swept")
    => [](\A t, u \in Tasks : stage[t] = "in" /\ stage[u] = "in" => ProcOf[t] = ProcOf[u])
<1> DEFINE Spared == harm = "none" /\ harm' = "usurped" => ~startTimes \/ faults > 0
           Undisturbed == startTimes /\ faults = 0 /\ harm # "swept"
           Unharmed == harm = "none"
           Alone == \A t, u \in Tasks : stage[t] = "in" /\ stage[u] = "in" => ProcOf[t] = ProcOf[u]
<1>1. Init => Unharmed
  BY DEF Init
<1>2. Unharmed /\ Undisturbed /\ Undisturbed' /\ TypeOK' /\ [Spared]_vars => Unharmed'
  BY DEF vars, TypeOK
<1>3. Unharmed /\ Exclusion => Alone
  BY DEF Exclusion
<1>4. Spec => [][Spared]_vars
  BY NoUsurpation DEF NotUsurped
<1> HIDE DEF Spared, Undisturbed, Unharmed, Alone
<1>5. Spec /\ []Undisturbed => []Alone
  BY <1>1, <1>2, <1>3, <1>4, LockTypes, LockExcludes, PTL DEF Spec
<1> QED
  BY <1>5 DEF Undisturbed, Alone
=============================================================================
