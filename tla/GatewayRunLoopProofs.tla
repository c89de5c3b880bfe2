-------------------------- MODULE GatewayRunLoopProofs --------------------------
(***************************************************************************)
(* The run loop only ever does to the command queue what CommandQueue      *)
(* allows, so that what is proved of the queue holds in the gateway,       *)
(* restarts included.                                                      *)
(***************************************************************************)
EXTENDS GatewayRunLoop, CommandQueueProofs

(* A step of the loop or of the signal handler leaves the lanes alone,     *)
(* refuses new entries or resets the lanes.                                *)
LEMMA LoopStepsOnQueue ==
    ASSUME LoopSteps \/ HandlerSteps \/ Signals
    PROVE  MarkGatewayDraining \/ ResetAllLanes \/ UNCHANGED vars
<1>1. CASE LoopSteps
  BY <1>1 DEF LoopSteps, StartFinishes, StartFails
<1>2. CASE HandlerSteps
  BY <1>2 DEF HandlerSteps, DrainEnds, ServerCloses, AfterClose, HandOver, FallBackInProcess,
              ReacquireLock, ReacquireFails, ForceExit, Resume
<1>3. CASE Signals
  BY <1>3 DEF Signals, RequestRestart, RequestStop
<1> QED
  BY <1>1, <1>2, <1>3

(* The gateway's run loop implements the command queue's specification:    *)
(* every behaviour of the loop is one the queue allows.                    *)
THEOREM RunLoopImplementsQueue == RunLoopSpec => Spec
<1>1. RunLoopInit => Init
  BY DEF RunLoopInit
<1>2. [RunLoopNext]_allVars => [Next]_vars
  <2>1. UNCHANGED allVars => UNCHANGED vars
    BY DEF allVars
  <2>2. RunLoopNext => [Next]_vars
    BY LoopStepsOnQueue DEF RunLoopNext, QueueSteps, Next, Restarts
  <2> QED
    BY <2>1, <2>2
<1> QED
  BY <1>1, <1>2, PTL DEF RunLoopSpec, Spec

(* Restarts included, the gateway never loses an entry. *)
THEOREM GatewayNeverLosesEntries == RunLoopSpec => []PendingIsHeld
  BY RunLoopImplementsQueue, EntriesNeverLost

(* Restarts included, the slots of a lane are those of the tasks that      *)
(* started since the last restart and still run.                           *)
THEOREM GatewayNeverLeaksSlots == RunLoopSpec => []SlotsMatchRunning
  BY RunLoopImplementsQueue, SlotsNeverLeak

(* Restarts included, no lane idles with work between two turns.           *)
THEOREM GatewayConservesWork == RunLoopSpec => []WorkConserving
  BY RunLoopImplementsQueue, LanesConserveWork

(* Restarts included, a session's lane never runs two turns of one life of *)
(* the server.                                                             *)
THEOREM GatewaySerializesSessions == RunLoopSpec => []OneRunPerSessionPerRound
<1>1. TypeOK /\ SlotsMatchRunning /\ SingleSlot => OneRunPerSessionPerRound
  <2> SUFFICES ASSUME TypeOK, SlotsMatchRunning, SingleSlot, NEW l \in Lanes \ ConfiguredLanes
               PROVE  Cardinality(activeTaskIds[l]) <= 1
    BY DEF OneRunPerSessionPerRound, SlotsMatchRunning
  <2>1. CASE activeTaskIds[l] = {}
    BY <2>1, FS_EmptySet
  <2>2. CASE activeTaskIds[l] # {}
    <3>1. PICK e \in activeTaskIds[l] : TRUE
      BY <2>2
    <3>2. activeTaskIds[l] = {e}
      BY <3>1 DEF SingleSlot
    <3>3. Cardinality({e}) = 1
      BY FS_Singleton
    <3> QED
      BY <3>2, <3>3
  <2> QED
    BY <2>1, <2>2
<1>2. Spec => []OneRunPerSessionPerRound
  BY <1>1, TypeCorrect, SlotsNeverLeak, SingleSlotInvariant, PTL
<1> QED
  BY <1>2, RunLoopImplementsQueue

-----------------------------------------------------------------------------
(* ServingHoldsLock is not inductive: whether the loop may be woken with   *)
(* the lock released depends on what the handler did steps before.  The    *)
(* invariant says what the handler has at each of its awaits, and that the *)
(* loop waits for the promise of its own round.                            *)
LockInv ==
    /\ loop \in {"starting", "waiting", "exited"}
    /\ Alive => (handler = "none" <=> ~shuttingDown)
    /\ (Alive /\ handler # "reacquiring") => lock
    /\ (Alive /\ handler = "releasing") => hadLock
    /\ loop = "waiting" => restartResolver = iteration
    /\ (loop = "waiting" /\ ~shuttingDown) => open = {server}

(* When the handler is done the loop no longer waits. *)
LEMMA ResumeLock ==
    ASSUME LockInv, Alive, Resume, lock'
    PROVE  LockInv'
<1>1. loop' \in {"starting", "exited"}
  BY DEF Resume, LockInv, Alive
<1> QED
  BY <1>1 DEF Resume, LockInv, Alive

LEMMA LockInit == RunLoopInit => LockInv
BY DEF RunLoopInit, LockInv, Alive

LEMMA LockNext == LockInv /\ [RunLoopNext]_allVars => LockInv'
<1> SUFFICES ASSUME LockInv, [RunLoopNext]_allVars PROVE LockInv'
  OBVIOUS
<1>1. CASE UNCHANGED allVars
  BY <1>1 DEF allVars, runVars, loopVars, handlerVars, LockInv, Alive
<1>2. CASE StartFinishes
  BY <1>2 DEF StartFinishes, LockInv, Alive, handlerVars
<1>3. CASE StartFails
  BY <1>3 DEF StartFails, ExitProcess, LockInv, Alive
<1>4. CASE RequestRestart
  BY <1>4 DEF RequestRestart, CloseServer, LockInv, Alive, loopVars
<1>5. CASE RequestStop
  BY <1>5 DEF RequestStop, CloseServer, LockInv, Alive, loopVars
<1>6. CASE DrainEnds
  BY <1>6 DEF DrainEnds, CloseServer, LockInv, Alive, loopVars
<1>7. CASE ServerCloses
  BY <1>7 DEF ServerCloses, LockInv, Alive
<1>8. CASE AfterClose
  BY <1>8 DEF AfterClose, LockInv, Alive
<1>9. CASE HandOver
  BY <1>9 DEF HandOver, ExitProcess, LockInv, Alive
<1>10. CASE FallBackInProcess
  BY <1>10 DEF FallBackInProcess, LockInv, Alive, loopVars
<1>11. CASE ReacquireLock
  BY <1>11, ResumeLock DEF ReacquireLock
<1>12. CASE ReacquireFails
  BY <1>12 DEF ReacquireFails, ExitProcess, LockInv, Alive
<1>13. CASE ForceExit
  BY <1>13 DEF ForceExit, ExitProcess, LockInv, Alive
<1>14. CASE QueueSteps
  BY <1>14 DEF QueueSteps, runVars, loopVars, handlerVars, LockInv, Alive
<1> QED
  BY <1>1, <1>2, <1>3, <1>4, <1>5, <1>6, <1>7, <1>8, <1>9, <1>10, <1>11, <1>12, <1>13, <1>14
     DEF RunLoopNext, LoopSteps, HandlerSteps, Signals

(* A gateway that serves and is not shutting down holds the lock and has   *)
(* one server open, the one a shutdown will close, after any number of     *)
(* restarts.                                                               *)
THEOREM GatewayServesWithLock == RunLoopSpec => []ServingHoldsLock
<1>1. LockInv => ServingHoldsLock
  BY DEF LockInv, ServingHoldsLock, Alive
<1> QED
  BY <1>1, LockInit, LockNext, PTL DEF RunLoopSpec

-----------------------------------------------------------------------------
(* The types of the run loop.  The rounds stay within their bound because  *)
(* each of them, the first aside, answers a restart that was accepted, and *)
(* one whose shutdown is still under way has not had its round yet.        *)
RoundsInv ==
    /\ iteration \in Nat /\ restarts \in 0..MaxRestarts
    /\ iteration <= IF shuttingDown /\ isRestart THEN restarts ELSE restarts + 1
    /\ handler = "reacquiring" => isRestart
    /\ server \in Rounds /\ restartResolver \in Rounds /\ closing \in Rounds
    /\ open \subseteq Rounds
    /\ handler \in {"none", "draining", "closing", "closed", "releasing", "reacquiring"}
    /\ shuttingDown \in BOOLEAN /\ isRestart \in BOOLEAN
    /\ lock \in BOOLEAN /\ hadLock \in BOOLEAN

LEMMA IterationIsRound == RoundsInv => iteration \in Rounds /\ 0 \in Rounds
BY MaxRestartsAssumption DEF RoundsInv, Rounds

(* The next round begins when a restart has been dealt with. *)
LEMMA ResumeRounds ==
    ASSUME RoundsInv, Resume, shuttingDown, isRestart,
           UNCHANGED <<isRestart, closing, hadLock, restarts>>, lock' \in BOOLEAN
    PROVE  RoundsInv'
<1>1. /\ shuttingDown' = FALSE /\ handler' = "none"
      /\ UNCHANGED <<server, open, restartResolver>>
      /\ iteration' = iteration \/ iteration' = iteration + 1
  BY DEF Resume
<1>2. iteration' \in Nat /\ iteration' <= restarts' + 1
  BY <1>1 DEF RoundsInv
<1> QED
  BY <1>1, <1>2 DEF RoundsInv, Rounds

LEMMA RoundsInit == RunLoopInit => RoundsInv
<1> SUFFICES ASSUME RunLoopInit PROVE RoundsInv
  OBVIOUS
<1>1. 0 \in Rounds /\ 0 \in 0..MaxRestarts
  BY MaxRestartsAssumption DEF Rounds
<1>2. iteration \in Nat /\ iteration <= restarts + 1 /\ restarts \in 0..MaxRestarts
  BY <1>1 DEF RunLoopInit
<1> QED
  BY <1>1, <1>2 DEF RunLoopInit, RoundsInv

LEMMA RoundsNext == LockInv /\ RoundsInv /\ [RunLoopNext]_allVars => RoundsInv'
<1> SUFFICES ASSUME LockInv, RoundsInv, [RunLoopNext]_allVars PROVE RoundsInv'
  OBVIOUS
<1>1. CASE UNCHANGED allVars
  BY <1>1 DEF allVars, runVars, loopVars, handlerVars, RoundsInv
<1>2. CASE StartFinishes
  BY <1>2, IterationIsRound DEF StartFinishes, RoundsInv, handlerVars
<1>3. CASE StartFails
  BY <1>3 DEF StartFails, RoundsInv
<1>4. CASE RequestRestart
  <2>1. restarts' = restarts + 1 /\ restarts' \in 0..MaxRestarts
    BY <1>4, MaxRestartsAssumption DEF RequestRestart, RoundsInv
  <2> QED
    BY <1>4, <2>1, IterationIsRound DEF RequestRestart, CloseServer, RoundsInv, loopVars
<1>5. CASE RequestStop
  BY <1>5, IterationIsRound DEF RequestStop, CloseServer, RoundsInv, loopVars
<1>6. CASE DrainEnds
  BY <1>6, IterationIsRound DEF DrainEnds, CloseServer, RoundsInv, loopVars
<1>7. CASE ServerCloses
  BY <1>7 DEF ServerCloses, RoundsInv
<1>8. CASE AfterClose
  BY <1>8, IterationIsRound DEF AfterClose, RoundsInv
<1>9. CASE HandOver
  BY <1>9 DEF HandOver, RoundsInv
<1>10. CASE FallBackInProcess
  <2>1. shuttingDown
    BY <1>10 DEF FallBackInProcess, LockInv
  <2>2. CASE hadLock
    BY <1>10, <2>2 DEF FallBackInProcess, RoundsInv, loopVars
  <2>3. CASE ~hadLock
    BY <1>10, <2>1, <2>3, ResumeRounds DEF FallBackInProcess
  <2> QED
    BY <2>2, <2>3
<1>11. CASE ReacquireLock
  <2>1. shuttingDown /\ isRestart
    BY <1>11 DEF ReacquireLock, LockInv, RoundsInv
  <2> QED
    BY <1>11, <2>1, ResumeRounds DEF ReacquireLock
<1>12. CASE ReacquireFails
  BY <1>12 DEF ReacquireFails, RoundsInv, handlerVars
<1>13. CASE ForceExit
  BY <1>13 DEF ForceExit, RoundsInv, handlerVars
<1>14. CASE QueueSteps
  BY <1>14 DEF QueueSteps, runVars, loopVars, handlerVars, RoundsInv
<1> QED
  BY <1>1, <1>2, <1>3, <1>4, <1>5, <1>6, <1>7, <1>8, <1>9, <1>10, <1>11, <1>12, <1>13, <1>14
     DEF RunLoopNext, LoopSteps, HandlerSteps, Signals

-----------------------------------------------------------------------------
(* The snapshot of waitForActiveTasks.  Its tasks have all started, so     *)
(* none of them starts again; while the drain lasts no reset frees their   *)
(* slots, so those that run are active.                                    *)
DrainInv ==
    /\ drained \in BOOLEAN
    /\ activeAtStart \subseteq Entries
    /\ \A e \in activeAtStart : Started(e)
    /\ handler = "draining" => activeAtStart \intersect running \subseteq Active
    /\ drained => activeAtStart \intersect running = {}

LEMMA ActiveRuns == SlotsMatchRunning => Active \subseteq running
BY DEF SlotsMatchRunning, Active

(* pump starts entries that wait, which no started entry does. *)
LEMMA HeadWaits ==
    ASSUME TypeOK, EntryInv, PumpStarts
    PROVE  /\ Head(queue[Top.lane]) \in Entries
           /\ Queued(Head(queue[Top.lane]))
<1>1. /\ Top.lane \in Lanes /\ queue[Top.lane] \in Seq(Entries) /\ queue[Top.lane] # <<>>
  BY TopFacts DEF PumpStarts, TopAt, Startable, TypeOK
<1>2. Head(queue[Top.lane]) \in Entries /\ Occurs(queue[Top.lane], Head(queue[Top.lane]))
  BY <1>1, TailFacts DEF Occurs
<1>3. LaneOf[Head(queue[Top.lane])] = Top.lane
  BY <1>1, <1>2 DEF EntryInv, HeldInv, QueuesOK
<1> QED
  BY <1>2, <1>3 DEF Queued, Occurs

LEMMA StartedStays ==
    ASSUME TypeOK, EntryInv, Synchronous \/ Clients, NEW e \in Entries, Started(e)
    PROVE  /\ Started(e)'
           /\ e \notin running => e \notin running'
           /\ taskGeneration'[e] = taskGeneration[e] /\ generation' = generation
<1>1. /\ promise[e] \in {"pending", "resolved", "rejected"}
      /\ ~Queued(e)
  BY DEF Started, EntryInv, HeldInv
<1> DEFINE Kept == /\ Started(e)'
                   /\ e \notin running => e \notin running'
                   /\ taskGeneration'[e] = taskGeneration[e] /\ generation' = generation
<1>2. ASSUME running' = running, promise'[e] = promise[e],
             taskGeneration' = taskGeneration, generation' = generation
      PROVE  Kept
  BY <1>2 DEF Started
<1>3. ASSUME NEW x \in Entries, NEW result \in {"resolved", "rejected"},
             running' = running \ {x}, promise' = [promise EXCEPT ![x] = result],
             taskGeneration' = taskGeneration, generation' = generation
      PROVE  Kept
  BY <1>3 DEF Started, TypeOK
<1>4. CASE DrainLaneReturns \/ DrainLaneEnters \/ BodyAwaits \/ PumpReturns
  BY <1>2, <1>4 DEF DrainLaneReturns, DrainLaneEnters, BodyAwaits, PumpReturns, laneVars, entryVars
<1>5. CASE PumpStarts
  <2>1. e # Head(queue[Top.lane])
    BY <1>1, <1>5, HeadWaits
  <2> QED
    BY <1>5, <2>1 DEF PumpStarts, Started, TypeOK
<1>6. CASE BodyThrows
  <2>1. Top.entry \in Entries
    <3>1. stack # <<>> /\ stack[Len(stack)].at = "body" /\ Top = stack[Len(stack)]
      BY <1>6 DEF BodyThrows, TopAt, Top
    <3>2. IsBody(Len(stack))
      BY <3>1, TopFacts DEF IsBody
    <3>3. Top.entry \in running
      BY <3>1, <3>2 DEF EntryInv, BodiesRun
    <3> QED
      BY <3>3 DEF TypeOK
  <2> QED
    BY <1>3, <1>6, <2>1 DEF BodyThrows
<1>7. ASSUME NEW l \in Lanes, ResetDrains(l) PROVE Kept
  BY <1>2, <1>7 DEF ResetDrains, laneVars, entryVars
<1>8. ASSUME NEW x \in Entries, EnqueueCommandInLane(x) PROVE Kept
  <2>1. promise'[e] = promise[e]
    BY <1>1, <1>8 DEF EnqueueCommandInLane, TypeOK
  <2> QED
    BY <1>2, <1>8, <2>1 DEF EnqueueCommandInLane
<1>9. ASSUME NEW x \in Entries, NEW result \in {"resolved", "rejected"}, CompleteTask(x, result)
      PROVE  Kept
  BY <1>3, <1>9 DEF CompleteTask
<1>10. ASSUME NEW l \in ConfiguredLanes, NEW n \in 0..MaxConfigured,
              SetCommandLaneConcurrency(l, n)
       PROVE  Kept
  BY <1>2, <1>10 DEF SetCommandLaneConcurrency, entryVars
<1>11. ASSUME NEW l \in Lanes, ClearCommandLane(l) PROVE Kept
  BY <1>1, <1>2, <1>11 DEF ClearCommandLane
<1> QED
  BY <1>4, <1>5, <1>6, <1>7, <1>8, <1>9, <1>10, <1>11 DEF Synchronous, Clients

LEMMA QueueStepsDrain ==
    ASSUME TypeOK, EntryInv, SlotsMatchRunning', DrainInv, QueueSteps
    PROVE  DrainInv'
<1>1. UNCHANGED <<handler, drained, activeAtStart>>
  BY DEF QueueSteps, runVars, handlerVars, waitVars
<1>2. \A e \in activeAtStart : /\ e \in Entries /\ Started(e)'
                               /\ e \notin running => e \notin running'
                               /\ taskGeneration'[e] = taskGeneration[e]
                               /\ generation' = generation
  BY StartedStays DEF QueueSteps, DrainInv
<1>3. ASSUME handler = "draining", NEW e \in activeAtStart, e \in running' PROVE e \in Active'
  <2>1. PICK l \in Lanes : e \in activeTaskIds[l]
    BY <1>2, <1>3 DEF DrainInv, Active
  <2>2. LaneOf[e] = l /\ taskGeneration'[e] = generation'[l]
    BY <1>2, <2>1 DEF EntryInv, SlotsMatchRunning
  <2>3. e \in activeTaskIds'[l]
    BY <1>3, <2>2 DEF SlotsMatchRunning
  <2> QED
    BY <2>3 DEF Active
<1> QED
  BY <1>1, <1>2, <1>3 DEF DrainInv

LEMMA DrainNext ==
    ASSUME TypeOK, EntryInv, SlotsMatchRunning', DrainInv, [RunLoopNext]_allVars
    PROVE  DrainInv'
<1>1. ASSUME UNCHANGED <<running, promise, drained, activeAtStart>>,
             handler' # "draining" \/ (handler' = handler /\ activeTaskIds' = activeTaskIds)
      PROVE  DrainInv'
  BY <1>1 DEF DrainInv, Started, Active
<1>2. CASE UNCHANGED allVars
  BY <1>1, <1>2 DEF allVars, vars, laneVars, entryVars, runVars, handlerVars, waitVars
<1>3. CASE LoopSteps
  BY <1>1, <1>3 DEF LoopSteps, StartFinishes, StartFails, vars, laneVars, entryVars,
                    handlerVars, waitVars
<1>4. CASE RequestRestart
  <2>1. /\ UNCHANGED <<running, promise, activeTaskIds>>
        /\ activeAtStart' = Active /\ drained' = FALSE
    BY <1>4 DEF RequestRestart, MarkGatewayDraining, laneVars, entryVars
  <2>2. Active \subseteq running /\ Active \subseteq Entries
    BY ActiveRuns DEF EntryInv, TypeOK
  <2> QED
    BY <2>1, <2>2 DEF DrainInv, Started, Active
<1>5. CASE RequestStop
  BY <1>1, <1>5 DEF RequestStop, CloseServer, vars, entryVars, waitVars
<1>6. CASE DrainEnds
  <2>1. /\ UNCHANGED <<running, promise, activeAtStart>> /\ handler = "draining"
        /\ handler' # "draining"
        /\ drained' = (activeAtStart \intersect Active = {})
    BY <1>6 DEF DrainEnds, CloseServer, vars, entryVars
  <2> QED
    BY <2>1 DEF DrainInv, Started
<1>7. CASE ServerCloses \/ AfterClose \/ HandOver \/ ReacquireFails \/ ForceExit
  BY <1>1, <1>7 DEF ServerCloses, AfterClose, HandOver, ReacquireFails, ForceExit,
                    vars, laneVars, entryVars, handlerVars, waitVars
<1>8. CASE FallBackInProcess \/ ReacquireLock
  BY <1>1, <1>8 DEF FallBackInProcess, ReacquireLock, Resume, ResetAllLanes,
                    vars, entryVars, waitVars
<1>9. CASE QueueSteps
  BY <1>9, QueueStepsDrain
<1> QED
  BY <1>2, <1>3, <1>4, <1>5, <1>6, <1>7, <1>8, <1>9
     DEF RunLoopNext, HandlerSteps, Signals

LEMMA DrainInvariant == RunLoopSpec => []DrainInv
<1>1. RunLoopInit => DrainInv
  BY DEF RunLoopInit, DrainInv
<1>2. TypeOK /\ EntryInv /\ EntryInv' /\ DrainInv /\ [RunLoopNext]_allVars => DrainInv'
  BY DrainNext DEF EntryInv
<1>3. RunLoopSpec => [](TypeOK /\ EntryInv)
  BY RunLoopImplementsQueue, TypeCorrect, EntryInvariant, PTL
<1> QED
  BY <1>1, <1>2, <1>3, PTL DEF RunLoopSpec

(* "all active tasks drained" is reported only when every task of the      *)
(* snapshot has settled, however tasks finish and are pumped meanwhile.    *)
THEOREM DrainIsHonest == RunLoopSpec => []DrainedMeansSettled
<1>1. DrainInv => DrainedMeansSettled
  BY DEF DrainInv, DrainedMeansSettled
<1> QED
  BY <1>1, DrainInvariant, PTL

(* The types of queue and run loop, and the bound on the rounds. *)
THEOREM RunLoopTypes == RunLoopSpec => []RunLoopTypeOK
<1>1. TypeOK /\ LockInv /\ RoundsInv /\ DrainInv => RunLoopTypeOK
  BY IterationIsRound DEF LockInv, RoundsInv, DrainInv, RunLoopTypeOK
<1>2. RunLoopSpec => [](LockInv /\ RoundsInv)
  BY LockInit, LockNext, RoundsInit, RoundsNext, PTL DEF RunLoopSpec
<1> QED
  BY <1>1, <1>2, DrainInvariant, RunLoopImplementsQueue, TypeCorrect, PTL
=============================================================================
