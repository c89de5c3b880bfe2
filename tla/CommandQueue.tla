----------------------------- MODULE CommandQueue -----------------------------
(***************************************************************************)
(* The in-process command queue of src/process/command-queue.ts: named     *)
(* lanes, each with a FIFO queue of entries and a limit on how many run at *)
(* once.  The gateway runs every agent turn through it.                    *)
(*                                                                         *)
(* The program is single-threaded JavaScript: a turn of the event loop     *)
(* runs to its end before another begins, but inside a turn drainLane and  *)
(* pump call each other, because starting a task runs the task's           *)
(* synchronous prefix, which may itself enqueue.  The model keeps that     *)
(* call stack: `stack' holds the frames of drainLane and pump that have    *)
(* not returned, and a new turn begins only when it is empty.              *)
(***************************************************************************)
EXTENDS Naturals, Sequences, FiniteSets

CONSTANTS
    Entries,        \* the queue entries: one per call of enqueueCommandInLane
    Lanes,          \* lane names
    NoEntry,        \* no entry
    LaneOf,         \* the lane each entry is enqueued in
    ConfiguredLanes, \* lanes whose limit the configuration sets; the others keep 1
    MaxConfigured,  \* bound on the limit a configuration asks for
    MaxGeneration   \* bound on the number of resets

ASSUME EntriesAssumption == IsFiniteSet(Entries)
ASSUME NoEntryAssumption == NoEntry \notin Entries
ASSUME LaneOfAssumption == LaneOf \in [Entries -> Lanes]
ASSUME ConfiguredLanesAssumption == ConfiguredLanes \subseteq Lanes
ASSUME MaxConfiguredAssumption == MaxConfigured \in Nat
ASSUME MaxGenerationAssumption == MaxGeneration \in Nat

VARIABLES
    gatewayDraining,  \* new entries are refused
    queue,            \* per lane: entries that wait, oldest first
    activeTaskIds,    \* per lane: entries that hold a slot.  nextTaskId is fresh at
                      \* each start and an entry starts once, so the entry is the id
    maxConcurrent,    \* per lane: number of slots
    draining,         \* per lane: drainLane is on the stack
    generation,       \* per lane: number of resets
    taskGeneration,   \* per entry: generation its run started in (the pump's closure)
    running,          \* entries whose task has started and not settled
    promise,          \* per entry: what the caller's promise shows
    enqueuedAt,       \* per entry: a logical clock in place of Date.now()
    stack,            \* frames of drainLane and pump that have not returned
    lanesToDrain
laneVars   == <<queue, activeTaskIds, maxConcurrent, draining, generation>>
entryVars  == <<taskGeneration, running, promise, enqueuedAt>>
callVars   == <<stack, lanesToDrain>>
vars == <<gatewayDraining, laneVars, entryVars, callVars>>

Promises == {"none", "pending", "resolved", "rejected", "cleared", "refused"}

(* A frame is at "call" when drainLane has been called, at "pump" when the *)
(* loop of pump is about to test its condition, and at "body" while the    *)
(* entry.task() it called has not returned its promise.                    *)
Frames == [lane : Lanes, at : {"call", "pump", "body"}, entry : Entries \union {NoEntry}]

TypeOK ==
    /\ gatewayDraining \in BOOLEAN
    /\ queue \in [Lanes -> Seq(Entries)]
    /\ activeTaskIds \in [Lanes -> SUBSET Entries]
    /\ maxConcurrent \in [Lanes -> Nat \ {0}]
    /\ draining \in [Lanes -> BOOLEAN]
    /\ generation \in [Lanes -> Nat]
    /\ taskGeneration \in [Entries -> Nat]
    /\ running \in SUBSET Entries
    /\ promise \in [Entries -> Promises]
    /\ enqueuedAt \in [Entries -> Nat]
    /\ stack \in Seq(Frames)
    /\ lanesToDrain \in SUBSET Lanes

Init ==
    /\ gatewayDraining = FALSE
    /\ queue = [l \in Lanes |-> <<>>]
    /\ activeTaskIds = [l \in Lanes |-> {}]
    /\ maxConcurrent = [l \in Lanes |-> 1]
    /\ draining = [l \in Lanes |-> FALSE]
    /\ generation = [l \in Lanes |-> 0]
    /\ taskGeneration = [e \in Entries |-> 0]
    /\ running = {}
    /\ promise = [e \in Entries |-> "none"]
    /\ enqueuedAt = [e \in Entries |-> 0]
    /\ stack = <<>>
    /\ lanesToDrain = {}

-----------------------------------------------------------------------------
(* The call stack *)

NewTurn == stack = <<>> /\ lanesToDrain = {}

Top == stack[Len(stack)]

TopAt(at) == stack # <<>> /\ Top.at = at

Frame(lane, at, entry) == [lane |-> lane, at |-> at, entry |-> entry]

Call(lane, at) == stack' = Append(stack, Frame(lane, at, NoEntry))

MoveTo(at, entry) == stack' = [stack EXCEPT ![Len(stack)] = Frame(Top.lane, at, entry)]

Return == stack' = SubSeq(stack, 1, Len(stack) - 1)

-----------------------------------------------------------------------------
(* drainLane and pump *)

Queued(e) == \E i \in 1..Len(queue[LaneOf[e]]) : queue[LaneOf[e]][i] = e

(* Mutant: the limit is off by one. *)
HasSlotTooMany(l) == Cardinality(activeTaskIds[l]) <= maxConcurrent[l]

HasSlot(l) == Cardinality(activeTaskIds[l]) < maxConcurrent[l]

(* The condition of pump's loop *)
Startable(l) == HasSlot(l) /\ queue[l] # <<>>

(* drainLane while a drainLane of the same lane is on the stack: that one  *)
(* will see the new entry, so this call returns at once.                   *)
DrainLaneReturns ==
    /\ TopAt("call")
    /\ draining[Top.lane]
    /\ Return
    /\ UNCHANGED <<gatewayDraining, laneVars, entryVars, lanesToDrain>>

DrainLaneEnters ==
    /\ TopAt("call")
    /\ ~draining[Top.lane]
    /\ draining' = [draining EXCEPT ![Top.lane] = TRUE]
    /\ MoveTo("pump", NoEntry)
    /\ UNCHANGED <<gatewayDraining, queue, activeTaskIds, maxConcurrent, generation,
                   entryVars, lanesToDrain>>

(* One round of pump's loop: the oldest entry takes a slot and its task is *)
(* called.                                                                 *)
PumpStarts ==
    /\ TopAt("pump")
    /\ LET l == Top.lane
           e == Head(queue[l])
       IN  /\ Startable(l)
           /\ queue' = [queue EXCEPT ![l] = Tail(@)]
           /\ activeTaskIds' = [activeTaskIds EXCEPT ![l] = @ \union {e}]
           /\ taskGeneration' = [taskGeneration EXCEPT ![e] = generation[l]]
           /\ running' = running \union {e}
           /\ MoveTo("body", e)
    /\ UNCHANGED <<gatewayDraining, maxConcurrent, draining, generation, promise,
                   enqueuedAt, lanesToDrain>>

(* entry.task() reaches its first await: the loop goes on. *)
BodyAwaits ==
    /\ TopAt("body")
    /\ MoveTo("pump", NoEntry)
    /\ UNCHANGED <<gatewayDraining, laneVars, entryVars, lanesToDrain>>

(* entry.task() throws instead: the completion handler runs inside the     *)
(* loop, and its pump is nested in it.                                     *)
BodyThrows ==
    /\ TopAt("body")
    /\ LET l == Top.lane
           e == Top.entry
       IN  /\ running' = running \ {e}
           /\ promise' = [promise EXCEPT ![e] = "rejected"]
           /\ activeTaskIds' = [activeTaskIds EXCEPT ![l] = @ \ {e}]
           /\ stack' = Append([stack EXCEPT ![Len(stack)] = Frame(l, "pump", NoEntry)],
                              Frame(l, "pump", NoEntry))
    /\ UNCHANGED <<gatewayDraining, queue, maxConcurrent, draining, generation,
                   taskGeneration, enqueuedAt, lanesToDrain>>

PumpReturns ==
    /\ TopAt("pump")
    /\ ~Startable(Top.lane)
    /\ draining' = [draining EXCEPT ![Top.lane] = FALSE]
    /\ Return
    /\ UNCHANGED <<gatewayDraining, queue, activeTaskIds, maxConcurrent, generation,
                   entryVars, lanesToDrain>>

(* Mutant: the slot is freed but the lane is not pumped. *)
CompleteTaskNoPump(e, result) ==
    /\ NewTurn
    /\ e \in running
    /\ running' = running \ {e}
    /\ promise' = [promise EXCEPT ![e] = result]
    /\ IF taskGeneration[e] = generation[LaneOf[e]]
       THEN activeTaskIds' = [activeTaskIds EXCEPT ![LaneOf[e]] = @ \ {e}]
       ELSE UNCHANGED activeTaskIds
    /\ UNCHANGED <<gatewayDraining, queue, maxConcurrent, draining, generation,
                   taskGeneration, enqueuedAt, callVars>>

(* The completion handler of a task, fulfilled or rejected: completeTask   *)
(* frees the slot and pump runs again only when no reset came in between.  *)
CompleteTask(e, result) ==
    /\ NewTurn
    /\ e \in running
    /\ running' = running \ {e}
    /\ promise' = [promise EXCEPT ![e] = result]
    /\ IF taskGeneration[e] = generation[LaneOf[e]]
       THEN /\ activeTaskIds' = [activeTaskIds EXCEPT ![LaneOf[e]] = @ \ {e}]
            /\ Call(LaneOf[e], "pump")
       ELSE UNCHANGED <<activeTaskIds, stack>>
    /\ UNCHANGED <<gatewayDraining, queue, maxConcurrent, draining, generation,
                   taskGeneration, enqueuedAt, lanesToDrain>>

-----------------------------------------------------------------------------
(* The exported operations *)

Admitted == {e \in Entries : promise[e] \notin {"none", "refused"}}

(* Mutant: the entry is put at the front of the queue. *)
EnqueueAtFront(e) ==
    /\ NewTurn \/ TopAt("body")
    /\ promise[e] = "none"
    /\ ~gatewayDraining
    /\ promise' = [promise EXCEPT ![e] = "pending"]
    /\ enqueuedAt' = [enqueuedAt EXCEPT ![e] = Cardinality(Admitted) + 1]
    /\ queue' = [queue EXCEPT ![LaneOf[e]] = <<e>> \o @]
    /\ Call(LaneOf[e], "call")
    /\ UNCHANGED <<gatewayDraining, activeTaskIds, maxConcurrent, draining, generation,
                   taskGeneration, running, lanesToDrain>>

(* Called at the start of a turn, or by a task's synchronous prefix: a run *)
(* in a session's lane enqueues itself in a global lane that way.          *)
EnqueueCommandInLane(e) ==
    /\ NewTurn \/ TopAt("body")
    /\ promise[e] = "none"
    /\ \/ /\ gatewayDraining
          /\ promise' = [promise EXCEPT ![e] = "refused"]
          /\ UNCHANGED <<queue, enqueuedAt, stack>>
       \/ /\ ~gatewayDraining
          /\ promise' = [promise EXCEPT ![e] = "pending"]
          /\ enqueuedAt' = [enqueuedAt EXCEPT ![e] = Cardinality(Admitted) + 1]
          /\ queue' = [queue EXCEPT ![LaneOf[e]] = Append(@, e)]
          /\ Call(LaneOf[e], "call")
    /\ UNCHANGED <<gatewayDraining, activeTaskIds, maxConcurrent, draining, generation,
                   taskGeneration, running, lanesToDrain>>

(* Mutant: a limit of 0 is taken as it is. *)
SetConcurrencyUnclamped(l, n) ==
    /\ NewTurn
    /\ maxConcurrent' = [maxConcurrent EXCEPT ![l] = n]
    /\ Call(l, "call")
    /\ UNCHANGED <<gatewayDraining, queue, activeTaskIds, draining, generation,
                   entryVars, lanesToDrain>>

SetCommandLaneConcurrency(l, n) ==
    /\ NewTurn
    /\ maxConcurrent' = [maxConcurrent EXCEPT ![l] = IF n = 0 THEN 1 ELSE n]
    /\ Call(l, "call")
    /\ UNCHANGED <<gatewayDraining, queue, activeTaskIds, draining, generation,
                   entryVars, lanesToDrain>>

(* Mutant: the promises of the entries taken out are not rejected. *)
ClearSilently(l) ==
    /\ NewTurn
    /\ queue[l] # <<>>
    /\ queue' = [queue EXCEPT ![l] = <<>>]
    /\ UNCHANGED <<gatewayDraining, activeTaskIds, maxConcurrent, draining, generation,
                   entryVars, callVars>>

ClearCommandLane(l) ==
    /\ NewTurn
    /\ queue[l] # <<>>
    /\ queue' = [queue EXCEPT ![l] = <<>>]
    /\ promise' = [e \in Entries |-> IF LaneOf[e] = l /\ Queued(e) THEN "cleared"
                                     ELSE promise[e]]
    /\ UNCHANGED <<gatewayDraining, activeTaskIds, maxConcurrent, draining, generation,
                   taskGeneration, running, enqueuedAt, callVars>>

MarkGatewayDraining ==
    /\ NewTurn
    /\ gatewayDraining' = TRUE
    /\ UNCHANGED <<laneVars, entryVars, callVars>>

(* Mutant: the slots of interrupted tasks are kept. *)
ResetKeepsSlots ==
    /\ NewTurn
    /\ \A l \in Lanes : generation[l] < MaxGeneration
    /\ gatewayDraining' = FALSE
    /\ generation' = [l \in Lanes |-> generation[l] + 1]
    /\ draining' = [l \in Lanes |-> FALSE]
    /\ lanesToDrain' = {l \in Lanes : queue[l] # <<>>}
    /\ UNCHANGED <<activeTaskIds, queue, maxConcurrent, entryVars, stack>>

(* Mutant: the lanes with preserved work are not drained. *)
ResetWithoutDrain ==
    /\ NewTurn
    /\ \A l \in Lanes : generation[l] < MaxGeneration
    /\ gatewayDraining' = FALSE
    /\ generation' = [l \in Lanes |-> generation[l] + 1]
    /\ activeTaskIds' = [l \in Lanes |-> {}]
    /\ draining' = [l \in Lanes |-> FALSE]
    /\ UNCHANGED <<queue, maxConcurrent, entryVars, callVars>>

(* Tasks of the old generation may still be running: their slots are       *)
(* released here and their completion is ignored later.  The queues stay.  *)
ResetAllLanes ==
    /\ NewTurn
    /\ \A l \in Lanes : generation[l] < MaxGeneration
    /\ gatewayDraining' = FALSE
    /\ generation' = [l \in Lanes |-> generation[l] + 1]
    /\ activeTaskIds' = [l \in Lanes |-> {}]
    /\ draining' = [l \in Lanes |-> FALSE]
    /\ lanesToDrain' = {l \in Lanes : queue[l] # <<>>}
    /\ UNCHANGED <<queue, maxConcurrent, entryVars, stack>>

(* The closing loop of resetAllLanes; the Map's order is left open. *)
ResetDrains(l) ==
    /\ stack = <<>>
    /\ l \in lanesToDrain
    /\ lanesToDrain' = lanesToDrain \ {l}
    /\ Call(l, "call")
    /\ UNCHANGED <<gatewayDraining, laneVars, entryVars>>

-----------------------------------------------------------------------------
(* The steps of a turn that is under way *)
Synchronous ==
    \/ DrainLaneReturns \/ DrainLaneEnters
    \/ PumpStarts \/ BodyAwaits \/ BodyThrows \/ PumpReturns
    \/ \E l \in Lanes : ResetDrains(l)

(* What the lanes' users do *)
Clients ==
    \/ \E e \in Entries : EnqueueCommandInLane(e)
    \/ \E e \in Entries, result \in {"resolved", "rejected"} : CompleteTask(e, result)
    \/ \E l \in ConfiguredLanes, n \in 0..MaxConfigured : SetCommandLaneConcurrency(l, n)
    \/ \E l \in Lanes : ClearCommandLane(l)

(* What the gateway's run loop does *)
Restarts == MarkGatewayDraining \/ ResetAllLanes

Next == Synchronous \/ Clients \/ Restarts

Spec == Init /\ [][Next]_vars

-----------------------------------------------------------------------------
(* Properties *)

(* No lane idles with work: between two turns, a lane whose queue is not   *)
(* empty has every slot taken.  Whatever call freed a slot, raised the     *)
(* limit, added an entry or released the slots has pumped the lane.        *)
WorkConserving ==
    NewTurn => \A l \in Lanes : queue[l] # <<>> => Cardinality(activeTaskIds[l]) >= maxConcurrent[l]

(* No slot leaks and none is freed twice: the slots of a lane are held by  *)
(* exactly the tasks that started in its current generation and still run, *)
(* however completions and resets interleave.                              *)
SlotsMatchRunning ==
    \A l \in Lanes : activeTaskIds[l] =
        {e \in running : LaneOf[e] = l /\ taskGeneration[e] = generation[l]}

(* No entry is lost or run twice: a caller's promise is pending exactly    *)
(* while its entry waits once in its lane or its task runs, never both.    *)
PendingIsHeld ==
    /\ \A e \in Entries : promise[e] = "pending" <=> (e \in running \/ Queued(e))
    /\ \A e \in running : ~Queued(e)
    /\ \A l \in Lanes : \A i, j \in 1..Len(queue[l]) : queue[l][i] = queue[l][j] => i = j

(* A lane starts its entries in the order they were enqueued, across       *)
(* changes of the limit and resets: none that waits is older than one that *)
(* has started.                                                            *)
Started(e) == e \in running \/ promise[e] \in {"resolved", "rejected"}
FirstInFirstOut ==
    \A e, f \in Entries :
        (LaneOf[e] = LaneOf[f] /\ Queued(e) /\ Started(f)) => enqueuedAt[f] < enqueuedAt[e]
=============================================================================
