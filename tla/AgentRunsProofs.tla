---------------------------- MODULE AgentRunsProofs ----------------------------
(***************************************************************************)
(* Agent runs only ever do to the lanes what the run loop's specification  *)
(* lets its clients do; and a session has one turn at a time.              *)
(***************************************************************************)
EXTENDS AgentRuns, GatewayRunLoopProofs

LEMMA EntriesOfRuns ==
    ASSUME NEW r \in Runs
    PROVE  /\ r \in Entries /\ TurnOf[r] \in Entries /\ TurnOf[r] \notin Runs
           /\ LaneOf[r] \in Lanes /\ LaneOf[r] \notin ConfiguredLanes
BY RunsAssumption, TurnOfAssumption, SessionLanesAssumption, LaneOfAssumption

LEMMA RunStepsAreClients ==
    ASSUME RunSteps
    PROVE  Synchronous \/ Clients
<1>1. CASE Continues
  <2>1. ASSUME NEW r \in Runs, EnqueueTurn(r) PROVE Clients
    BY <2>1, EntriesOfRuns DEF EnqueueTurn, Clients
  <2>2. ASSUME NEW r \in Runs, RunEnds(r) PROVE Clients
    <3>1. PICK result \in {"resolved", "rejected"} : CompleteTask(r, result)
      BY <2>2 DEF RunEnds
    <3> QED
      BY <3>1, EntriesOfRuns DEF Clients
  <2> QED
    BY <1>1, <2>1, <2>2 DEF Continues, TaskReturns, Synchronous
<1>2. ASSUME NEW r \in Runs, EnqueueRun(r) PROVE Clients
  BY <1>2, EntriesOfRuns DEF EnqueueRun, Clients
<1>3. ASSUME NEW r \in Runs, NEW result \in {"resolved", "rejected"}, TurnEnds(r, result)
      PROVE  Clients
  BY <1>3, EntriesOfRuns DEF TurnEnds, Clients
<1>4. ASSUME NEW l \in ConfiguredLanes, NEW n \in 0..MaxConfigured,
             SetCommandLaneConcurrency(l, n)
      PROVE  Clients
  BY <1>4 DEF Clients
<1>5. ASSUME NEW l \in SessionLanes, ClearSessionLane(l) PROVE Clients
  <2>1. l \in Lanes
    BY EntriesOfRuns DEF SessionLanes
  <2> QED
    BY <1>5, <2>1 DEF ClearSessionLane, Clients
<1> QED
  BY <1>1, <1>2, <1>3, <1>4, <1>5 DEF RunSteps

(* Agent runs implement the specification of the run loop and its clients: *)
(* runEmbeddedPiAgent uses the lanes only as any caller may.               *)
THEOREM AgentRunsImplementRunLoop == AgentRunsSpec => RunLoopSpec
<1>1. [AgentRunsNext]_allVars => [RunLoopNext]_allVars
  BY RunStepsAreClients DEF AgentRunsNext, RunLoopNext, QueueSteps
<1> QED
  BY <1>1, PTL DEF AgentRunsSpec, RunLoopSpec

-----------------------------------------------------------------------------
(* While the promise of a turn is pending its run holds on: that is why    *)
(* one run per session means one turn per session.                         *)
RunsWait == \A r \in Runs : promise[TurnOf[r]] = "pending" => r \in running

LEMMA RunInit == RunLoopInit => RunsWait
  BY EntriesOfRuns DEF RunLoopInit, Init, RunsWait

(* A step that stops no run and makes no turn pending. *)
LEMMA RunsWaitKept ==
    ASSUME RunsWait, \A r \in Runs \intersect running : r \in running',
           \A r \in Runs : promise'[TurnOf[r]] = "pending" => promise[TurnOf[r]] = "pending"
    PROVE  RunsWait'
BY DEF RunsWait

(* The steps of a turn that is under way, and the completion of a run. *)
LEMMA ContinuesRun == TypeOK /\ BodiesRun /\ RunsWait /\ Continues => RunsWait'
<1> SUFFICES ASSUME TypeOK, BodiesRun, RunsWait, Continues PROVE RunsWait'
  OBVIOUS
<1>1. CASE DrainLaneReturns \/ DrainLaneEnters \/ PumpReturns \/ TaskReturns
  BY <1>1, RunsWaitKept
     DEF DrainLaneReturns, DrainLaneEnters, PumpReturns, TaskReturns, BodyAwaits, entryVars
<1>2. CASE PumpStarts
  BY <1>2, RunsWaitKept DEF PumpStarts
<1>3. ASSUME NEW l \in Lanes, ResetDrains(l) PROVE RunsWait'
  BY <1>3, RunsWaitKept DEF ResetDrains, entryVars
<1>4. ASSUME NEW r \in Runs, EnqueueTurn(r) PROVE RunsWait'
  <2>1. IsBody(Len(stack)) /\ r = stack[Len(stack)].entry
    BY <1>4, TopFacts DEF EnqueueTurn, InTaskOf, TopAt, IsBody
  <2>2. r \in running /\ running' = running
    BY <1>4, <2>1 DEF BodiesRun, EnqueueTurn, EnqueueCommandInLane
  <2>3. \A e \in Entries \ {TurnOf[r]} : promise'[e] = promise[e]
    BY <1>4 DEF EnqueueTurn, EnqueueCommandInLane, TypeOK
  <2> QED
    BY <2>2, <2>3, EntriesOfRuns, TurnOfAssumption DEF RunsWait
<1>5. ASSUME NEW r \in Runs, RunEnds(r) PROVE RunsWait'
  <2>1. PICK result \in {"resolved", "rejected"} : CompleteTask(r, result)
    BY <1>5 DEF RunEnds
  <2>2. promise[TurnOf[r]] # "pending"
    BY <1>5 DEF RunEnds, HasSettled
  <2>3. running' = running \ {r} /\ promise' = [promise EXCEPT ![r] = result]
    BY <2>1 DEF CompleteTask
  <2>4. \A s \in Runs : promise'[TurnOf[s]] = promise[TurnOf[s]]
    BY <2>3, EntriesOfRuns DEF TypeOK
  <2> QED
    BY <2>2, <2>3, <2>4 DEF RunsWait
<1> QED
  BY <1>1, <1>2, <1>3, <1>4, <1>5 DEF Continues

(* The beginnings of a turn of the event loop. *)
LEMMA RunStepsRun == TypeOK /\ BodiesRun /\ RunsWait /\ RunSteps => RunsWait'
<1> SUFFICES ASSUME TypeOK, BodiesRun, RunsWait, RunSteps PROVE RunsWait'
  OBVIOUS
<1>1. CASE Continues
  BY <1>1, ContinuesRun
<1>2. ASSUME NEW r \in Runs, EnqueueRun(r) PROVE RunsWait'
  <2>1. \A e \in Entries \ {r} : promise'[e] = promise[e]
    BY <1>2 DEF EnqueueRun, EnqueueCommandInLane, TypeOK
  <2> QED
    BY <1>2, <2>1, EntriesOfRuns, RunsWaitKept DEF EnqueueRun, EnqueueCommandInLane
<1>3. ASSUME NEW r \in Runs, NEW result \in {"resolved", "rejected"}, TurnEnds(r, result)
      PROVE  RunsWait'
  <2>1. running' = running \ {TurnOf[r]} /\ promise' = [promise EXCEPT ![TurnOf[r]] = result]
    BY <1>3 DEF TurnEnds, CompleteTask
  <2>2. \A s \in Runs : promise'[TurnOf[s]] = "pending" => promise[TurnOf[s]] = "pending"
    BY <2>1, EntriesOfRuns DEF TypeOK
  <2> QED
    BY <2>1, <2>2, EntriesOfRuns, RunsWaitKept
<1>4. ASSUME NEW l \in ConfiguredLanes, NEW n \in 0..MaxConfigured,
             SetCommandLaneConcurrency(l, n)
      PROVE  RunsWait'
  BY <1>4, RunsWaitKept DEF SetCommandLaneConcurrency, entryVars
<1>5. ASSUME NEW l \in SessionLanes, ClearSessionLane(l) PROVE RunsWait'
  <2>1. \A e \in Entries : promise'[e] = "pending" => promise[e] = "pending"
    BY <1>5 DEF ClearSessionLane, ClearCommandLane
  <2> QED
    BY <1>5, <2>1, EntriesOfRuns, RunsWaitKept DEF ClearSessionLane, ClearCommandLane
<1> QED
  BY <1>1, <1>2, <1>3, <1>4, <1>5 DEF RunSteps

LEMMA RunsWaitInvariant == AgentRunsSpec => []RunsWait
<1>1. TypeOK /\ EntryInv /\ RunsWait /\ [AgentRunsNext]_allVars => RunsWait'
  <2> SUFFICES ASSUME TypeOK, BodiesRun, RunsWait, [AgentRunsNext]_allVars PROVE RunsWait'
    BY DEF EntryInv
  <2>1. CASE RunSteps
    BY <2>1, RunStepsRun
  <2>2. CASE MarkGatewayDraining \/ ResetAllLanes \/ UNCHANGED vars
    BY <2>2, RunsWaitKept DEF MarkGatewayDraining, ResetAllLanes, vars, entryVars
  <2> QED
    BY <2>1, <2>2, LoopStepsOnQueue DEF AgentRunsNext, allVars
<1>2. AgentRunsSpec => [](TypeOK /\ EntryInv)
  BY AgentRunsImplementRunLoop, RunLoopImplementsQueue, TypeCorrect, EntryInvariant, PTL
<1> QED
  BY <1>1, <1>2, RunInit, PTL DEF AgentRunsSpec

(* "Only one active run per session", across two lanes: of the runs that a *)
(* session's lane started in one life of the server, one at most has its   *)
(* turn waiting or running in a global lane, whatever the limit there.     *)
THEOREM SessionsHaveOneTurn == AgentRunsSpec => []OneTurnPerSession
<1>1. TypeOK /\ RunsWait /\ PendingIsHeld /\ SlotsMatchRunning /\ SingleSlot => OneTurnPerSession
  <2> SUFFICES ASSUME TypeOK, RunsWait, PendingIsHeld, SlotsMatchRunning, SingleSlot,
                      NEW l \in SessionLanes
               PROVE  Cardinality({r \in Runs : /\ LaneOf[r] = l /\ promise[TurnOf[r]] = "pending"
                                                /\ taskGeneration[r] = generation[l]}) <= 1
    BY DEF OneTurnPerSession
  <2> DEFINE Turns == {r \in Runs : /\ LaneOf[r] = l /\ promise[TurnOf[r]] = "pending"
                                    /\ taskGeneration[r] = generation[l]}
  <2>1. l \in Lanes \ ConfiguredLanes
    BY EntriesOfRuns DEF SessionLanes
  <2>2. Turns \subseteq activeTaskIds[l]
    BY <2>1 DEF RunsWait, SlotsMatchRunning
  <2>3. CASE Turns = {}
    BY <2>3, FS_EmptySet
  <2>4. CASE Turns # {}
    <3>1. PICK r \in Turns : TRUE
      BY <2>4
    <3>2. Turns = {r}
      BY <2>1, <2>2, <3>1 DEF SingleSlot
    <3>3. Cardinality({r}) = 1
      BY FS_Singleton
    <3> QED
      BY <3>2, <3>3
  <2> QED
    BY <2>3, <2>4
<1>2. AgentRunsSpec => [](TypeOK /\ PendingIsHeld /\ SlotsMatchRunning /\ SingleSlot)
  BY AgentRunsImplementRunLoop, RunLoopImplementsQueue, TypeCorrect, EntriesNeverLost,
     SlotsNeverLeak, SingleSlotInvariant, PTL
<1> QED
  BY <1>1, <1>2, RunsWaitInvariant, PTL
=============================================================================
