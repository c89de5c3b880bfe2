------------------------------ MODULE AgentRuns ------------------------------
(***************************************************************************)
(* Agent runs over the lanes, in a gateway that restarts:                  *)
(* runEmbeddedPiAgent of src/agents/pi-embedded-runner/run.ts and          *)
(* compactEmbeddedPiSession of compact.ts.  A run is two entries of the    *)
(* command queue.  The task of the first, in its session's lane, only      *)
(* enqueues the second in a global lane and waits for it; the second is    *)
(* the turn of the agent.  A run so holds a slot of one lane while it      *)
(* waits for one of another.                                               *)
(***************************************************************************)
EXTENDS GatewayRunLoop

CONSTANTS
    Runs,    \* the entries in session lanes, one per run
    TurnOf   \* the entry of each run's turn, in a global lane

ASSUME RunsAssumption == Runs \subseteq Entries
ASSUME TurnOfAssumption ==
    /\ TurnOf \in [Runs -> Entries \ Runs]
    /\ \A r, s \in Runs : TurnOf[r] = TurnOf[s] => r = s

(* resolveSessionLane prefixes "session:", which the name of no global     *)
(* lane has; the configuration limits global lanes only.                   *)
ASSUME SessionLanesAssumption ==
    /\ \A r, s \in Runs : LaneOf[r] # LaneOf[TurnOf[s]]
    /\ \A r \in Runs : LaneOf[r] \notin ConfiguredLanes

SessionLanes == {LaneOf[r] : r \in Runs}

HasSettled(e) == promise[e] \notin {"none", "pending"}

-----------------------------------------------------------------------------
(* runEmbeddedPiAgent is called: enqueueSession *)
EnqueueRun(r) ==
    /\ NewTurn
    /\ EnqueueCommandInLane(r)

InTaskOf(r) == TopAt("body") /\ Top.entry = r

(* Mutant: the turn is enqueued in the lane the run holds. *)
EnqueueTurnInOwnLane(r) ==
    /\ InTaskOf(r)
    /\ promise[TurnOf[r]] = "none"
    /\ ~gatewayDraining
    /\ promise' = [promise EXCEPT ![TurnOf[r]] = "pending"]
    /\ queue' = [queue EXCEPT ![LaneOf[r]] = Append(@, TurnOf[r])]
    /\ Call(LaneOf[r], "call")
    /\ UNCHANGED <<gatewayDraining, activeTaskIds, maxConcurrent, draining, generation,
                   taskGeneration, running, enqueuedAt, lanesToDrain>>

(* The task of the session's entry, called by pump: enqueueGlobal *)
EnqueueTurn(r) ==
    /\ InTaskOf(r)
    /\ EnqueueCommandInLane(TurnOf[r])

(* A task returns its promise: that of a session's entry is the promise of *)
(* its turn, that of a turn comes from an async function.  Neither throws. *)
TaskReturns ==
    /\ BodyAwaits
    /\ \A r \in Runs : Top.entry = r => promise[TurnOf[r]] # "none"

(* The agent's work ends, well or not. *)
TurnEnds(r, result) == CompleteTask(TurnOf[r], result)

(* The turn's promise settled, and with it the task of the session's entry. *)
RunEnds(r) ==
    /\ HasSettled(TurnOf[r])
    /\ CompleteTask(r, IF promise[TurnOf[r]] = "resolved" THEN "resolved" ELSE "rejected")

(* /stop and the queue mode "interrupt" clear a session's lane. *)
ClearSessionLane(l) == ClearCommandLane(l)

-----------------------------------------------------------------------------
(* The rest of a turn of the event loop, and the promise callbacks that    *)
(* run before the next one.                                                *)
Continues ==
    \/ DrainLaneReturns \/ DrainLaneEnters \/ PumpStarts \/ PumpReturns \/ TaskReturns
    \/ \E l \in Lanes : ResetDrains(l)
    \/ \E r \in Runs : EnqueueTurn(r) \/ RunEnds(r)

Idle == NewTurn /\ \A r \in Runs \intersect running : ~HasSettled(TurnOf[r])

RunSteps ==
    \/ Continues
    \/ /\ Idle
       /\ \/ \E r \in Runs : EnqueueRun(r)
          \/ \E r \in Runs, result \in {"resolved", "rejected"} : TurnEnds(r, result)
          \/ \E l \in ConfiguredLanes, n \in 0..MaxConfigured : SetCommandLaneConcurrency(l, n)
          \/ \E l \in SessionLanes : ClearSessionLane(l)

AgentRunsNext ==
    \/ Alive /\ RunSteps /\ UNCHANGED runVars
    \/ Idle /\ (LoopSteps \/ HandlerSteps \/ Signals)

AgentRunsSpec == RunLoopInit /\ [][AgentRunsNext]_allVars

(* Timers, I/O and the event loop make progress: start() and close()       *)
(* settle or the force-exit timer fires, and a wait for tasks ends.  The   *)
(* turn of a run ends (the agent's timeout aborts it) unless it hangs,     *)
(* which only those of Hung do.  No signal has to come.                    *)
AgentRunsFairness(Hung) ==
    /\ WF_allVars(Alive /\ Continues /\ UNCHANGED runVars)
    /\ SF_allVars(Idle /\ LoopSteps)
    /\ SF_allVars(Idle /\ HandlerSteps)
    /\ \A r \in Runs \ Hung :
           SF_allVars(/\ Alive /\ Idle
                      /\ \E result \in {"resolved", "rejected"} : TurnEnds(r, result)
                      /\ UNCHANGED runVars)

-----------------------------------------------------------------------------
(* Properties *)

(* docs/concepts/queue.md: the session's lane is there "to guarantee only  *)
(* one active run per session".  Of the runs a session's lane started in   *)
(* one life of the server, one at most has its turn waiting or running,    *)
(* although the turns are in another lane that lets several run.           *)
OneTurnPerSession ==
    \A l \in SessionLanes :
        Cardinality({r \in Runs : /\ LaneOf[r] = l /\ promise[TurnOf[r]] = "pending"
                                  /\ taskGeneration[r] = generation[l]}) <= 1

(* No run waits for ever on the slots of others: it ends, unless a turn    *)
(* that hangs holds its session's lane or a slot of its global lane in     *)
(* this life of the server.  A restart releases what a hung turn held.     *)
HeldUp(r, Hung) ==
    \E h \in Hung : h \in activeTaskIds[LaneOf[r]] \/ TurnOf[h] \in activeTaskIds[LaneOf[TurnOf[r]]]

EveryRunEnds(Hung) ==
    \A r \in Runs \ Hung :
        (promise[r] = "pending") ~> (promise[r] # "pending" \/ ~Alive \/ HeldUp(r, Hung))
=============================================================================
