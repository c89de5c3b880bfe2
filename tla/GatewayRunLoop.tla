---------------------------- MODULE GatewayRunLoop ----------------------------
(***************************************************************************)
(* runGatewayLoop of src/cli/gateway-cli/run-loop.ts on top of the command *)
(* queue: the loop that starts a server and waits for a restart, and the   *)
(* signal handlers that drain the lanes, close the server, hand over or    *)
(* take back the gateway lock, and make the loop go round again.           *)
(*                                                                         *)
(* The loop and the handler (`request' in the code) are two async          *)
(* functions; each step below is the code between two of their awaits.     *)
(***************************************************************************)
EXTENDS CommandQueue

CONSTANTS
    SignalPhases,  \* phases of the loop in which signals arrive
    MaxRestarts    \* bound on the SIGUSR1 accepted

ASSUME SignalPhasesAssumption == SignalPhases \subseteq {"starting", "waiting"}
ASSUME MaxRestartsAssumption == MaxRestarts \in Nat

VARIABLES
    loop,             \* "starting": in params.start(); "waiting": for restartResolver
    iteration,        \* number of the loop's round
    server,           \* round that started the server the variable names, 0 for null
    open,             \* rounds whose server has started and has not closed
    restartResolver,  \* round whose promise it resolves, 0 for null
    shuttingDown,
    isRestart,
    handler,          \* where the signal handler stands
    closing,          \* round of the server it is closing
    lock,             \* the gateway lock is held
    hadLock,
    restarts,         \* SIGUSR1 accepted so far
    drained,          \* how waitForActiveTasks ended
    activeAtStart     \* its snapshot of the active tasks

loopVars    == <<loop, iteration, server, open, restartResolver>>
handlerVars == <<shuttingDown, isRestart, handler, closing, lock, hadLock, restarts>>
waitVars    == <<drained, activeAtStart>>
runVars     == <<loopVars, handlerVars, waitVars>>
allVars     == <<vars, runVars>>

Rounds == 0..(MaxRestarts + 1)

RunLoopTypeOK ==
    /\ TypeOK
    /\ loop \in {"starting", "waiting", "exited"}
    /\ iteration \in Rounds /\ server \in Rounds
    /\ restartResolver \in Rounds /\ closing \in Rounds
    /\ open \subseteq Rounds
    /\ shuttingDown \in BOOLEAN /\ isRestart \in BOOLEAN
    /\ handler \in {"none", "draining", "closing", "closed", "releasing", "reacquiring"}
    /\ lock \in BOOLEAN /\ hadLock \in BOOLEAN
    /\ restarts \in 0..MaxRestarts
    /\ drained \in BOOLEAN
    /\ activeAtStart \subseteq Entries

RunLoopInit ==
    /\ Init
    /\ loop = "starting" /\ iteration = 1
    /\ server = 0 /\ open = {} /\ restartResolver = 0
    /\ shuttingDown = FALSE /\ isRestart = FALSE /\ handler = "none" /\ closing = 0
    /\ lock = TRUE /\ hadLock = FALSE /\ restarts = 0
    /\ drained = FALSE /\ activeAtStart = {}

Alive == loop # "exited"

(* The process ends: nothing of it runs any more. *)
ExitProcess == loop' = "exited"

Active == UNION {activeTaskIds[l] : l \in Lanes}

-----------------------------------------------------------------------------
(* The loop *)

(* `server = await params.start()' and the new Promise after it.  The port *)
(* is taken while another server is open.                                  *)
StartFinishes ==
    /\ NewTurn
    /\ loop = "starting"
    /\ open = {}
    /\ server' = iteration
    /\ open' = {iteration}
    /\ restartResolver' = iteration
    /\ loop' = "waiting"
    /\ UNCHANGED <<vars, iteration, handlerVars, waitVars>>

(* start() throws: the loop's finally clause releases the lock. *)
StartFails ==
    /\ NewTurn
    /\ loop = "starting"
    /\ ExitProcess
    /\ lock' = FALSE
    /\ UNCHANGED <<vars, iteration, server, open, restartResolver, shuttingDown, isRestart,
                   handler, closing, hadLock, restarts, waitVars>>

(* Mutant: further signals are still ignored after the restart. *)
ResumeStaysShut ==
    /\ handler' = "none"
    /\ IF loop = "waiting" /\ restartResolver = iteration
       THEN /\ ResetAllLanes
            /\ iteration' = iteration + 1
            /\ loop' = "starting"
       ELSE UNCHANGED <<vars, iteration, loop>>
    /\ UNCHANGED <<shuttingDown, server, open, restartResolver>>

(* Mutant: the loop is not woken. *)
ResumeForgetsLoop ==
    /\ shuttingDown' = FALSE
    /\ handler' = "none"
    /\ UNCHANGED <<vars, loopVars>>

(* `shuttingDown = false; restartResolver?.()'.  When the loop waits on    *)
(* the promise that is resolved, its next round begins at once:            *)
(* onIteration resets the lanes and start() is called.                     *)
Resume ==
    /\ shuttingDown' = FALSE
    /\ handler' = "none"
    /\ IF loop = "waiting" /\ restartResolver = iteration
       THEN /\ ResetAllLanes
            /\ iteration' = iteration + 1
            /\ loop' = "starting"
       ELSE UNCHANGED <<vars, iteration, loop>>
    /\ UNCHANGED <<server, open, restartResolver>>

-----------------------------------------------------------------------------
(* The signal handler *)

(* `await server?.close(...)' is reached *)
CloseServer ==
    IF server = 0 THEN handler' = "closed" /\ closing' = 0
                  ELSE handler' = "closing" /\ closing' = server

(* SIGUSR1, authorized.  Ignored during a shutdown. *)
RequestRestart ==
    /\ NewTurn
    /\ loop \in SignalPhases
    /\ ~shuttingDown
    /\ restarts < MaxRestarts
    /\ restarts' = restarts + 1
    /\ shuttingDown' = TRUE
    /\ isRestart' = TRUE
    /\ MarkGatewayDraining
    /\ activeAtStart' = Active
    /\ drained' = FALSE
    /\ IF Active = {} THEN CloseServer ELSE handler' = "draining" /\ closing' = 0
    /\ UNCHANGED <<loopVars, lock, hadLock>>

(* SIGTERM or SIGINT *)
RequestStop ==
    /\ NewTurn
    /\ loop \in SignalPhases
    /\ ~shuttingDown
    /\ shuttingDown' = TRUE
    /\ isRestart' = FALSE
    /\ CloseServer
    /\ UNCHANGED <<vars, loopVars, lock, hadLock, restarts, waitVars>>

(* Mutant: a wait that ends at the deadline reports that it drained. *)
DrainEndsAlwaysDrained ==
    /\ NewTurn
    /\ Alive /\ handler = "draining"
    /\ drained' = TRUE
    /\ CloseServer
    /\ UNCHANGED <<vars, loopVars, shuttingDown, isRestart, lock, hadLock, restarts,
                   activeAtStart>>

(* The last poll of waitForActiveTasks: none of the snapshot is active, or *)
(* the deadline has passed.                                                *)
DrainEnds ==
    /\ NewTurn
    /\ Alive /\ handler = "draining"
    /\ drained' = (activeAtStart \intersect Active = {})
    /\ CloseServer
    /\ UNCHANGED <<vars, loopVars, shuttingDown, isRestart, lock, hadLock, restarts,
                   activeAtStart>>

(* server.close() settles.  When it throws, the server may still listen.   *)
ServerCloses ==
    /\ NewTurn
    /\ Alive /\ handler = "closing"
    /\ open' \in {open, open \ {closing}}
    /\ handler' = "closed"
    /\ UNCHANGED <<vars, loop, iteration, server, restartResolver, shuttingDown, isRestart,
                   closing, lock, hadLock, restarts, waitVars>>

(* The finally clause, up to `await lock.release()' *)
AfterClose ==
    /\ NewTurn
    /\ Alive /\ handler = "closed"
    /\ server' = 0
    /\ hadLock' = lock
    /\ handler' = "releasing"
    /\ UNCHANGED <<vars, loop, iteration, open, restartResolver, shuttingDown, isRestart,
                   closing, lock, restarts, waitVars>>

(* The lock is released and the process ends: a stop, or a restart whose   *)
(* new process was spawned or is left to a supervisor.                     *)
HandOver ==
    /\ NewTurn
    /\ Alive /\ handler = "releasing"
    /\ lock' = FALSE
    /\ ExitProcess
    /\ UNCHANGED <<vars, iteration, server, open, restartResolver, shuttingDown, isRestart,
                   handler, closing, hadLock, restarts, waitVars>>

(* Mutant: the lock is not taken back. *)
FallBackWithoutLock ==
    /\ NewTurn
    /\ Alive /\ handler = "releasing"
    /\ isRestart
    /\ lock' = FALSE
    /\ Resume
    /\ UNCHANGED <<isRestart, closing, hadLock, restarts, waitVars>>

(* No new process: the restart goes on in this one. *)
FallBackInProcess ==
    /\ NewTurn
    /\ Alive /\ handler = "releasing"
    /\ isRestart
    /\ lock' = FALSE
    /\ IF hadLock THEN /\ handler' = "reacquiring"
                       /\ UNCHANGED <<vars, loopVars, shuttingDown>>
                  ELSE Resume
    /\ UNCHANGED <<isRestart, closing, hadLock, restarts, waitVars>>

ReacquireLock ==
    /\ NewTurn
    /\ Alive /\ handler = "reacquiring"
    /\ lock' = TRUE
    /\ Resume
    /\ UNCHANGED <<isRestart, closing, hadLock, restarts, waitVars>>

ReacquireFails ==
    /\ NewTurn
    /\ Alive /\ handler = "reacquiring"
    /\ ExitProcess
    /\ UNCHANGED <<vars, iteration, server, open, restartResolver, handlerVars, waitVars>>

(* forceExitTimer, cleared in the finally clause.  It is longer than the   *)
(* drain's own deadline.                                                   *)
ForceExit ==
    /\ NewTurn
    /\ Alive /\ handler = "closing"
    /\ ExitProcess
    /\ UNCHANGED <<vars, iteration, server, open, restartResolver, handlerVars, waitVars>>

-----------------------------------------------------------------------------
LoopSteps == StartFinishes \/ StartFails

HandlerSteps ==
    \/ DrainEnds \/ ServerCloses \/ AfterClose \/ HandOver \/ FallBackInProcess
    \/ ReacquireLock \/ ReacquireFails \/ ForceExit

Signals == RequestRestart \/ RequestStop

QueueSteps == Alive /\ (Synchronous \/ Clients) /\ UNCHANGED runVars

RunLoopNext == LoopSteps \/ HandlerSteps \/ Signals \/ QueueSteps

RunLoopSpec == RunLoopInit /\ [][RunLoopNext]_allVars

-----------------------------------------------------------------------------
(* Properties *)

(* A gateway that serves and is not shutting down accepts work: the        *)
(* comment on gatewayDraining says "Set while gateway is draining for      *)
(* restart".                                                               *)
ServingAcceptsWork ==
    (loop = "waiting" /\ ~shuttingDown) => ~gatewayDraining

(* docs/concepts/queue.md: "Per-session lanes guarantee that only one      *)
(* agent run touches a given session at a time".  So it is within one life *)
(* of the server: between two resets a session never has two runs that     *)
(* started in it.  A run that outlives the drain may overlap a new one.    *)
OneRunPerSessionPerRound ==
    \A l \in Lanes \ ConfiguredLanes :
        Cardinality({e \in running : LaneOf[e] = l /\ taskGeneration[e] = generation[l]}) <= 1

(* "all active tasks drained" is true of the tasks it counted: none of     *)
(* them still runs when the server is being closed after such a report.    *)
DrainedMeansSettled ==
    (Alive /\ handler \in {"closing", "closed"} /\ drained) => activeAtStart \intersect running = {}

(* A gateway that serves and is not shutting down holds the gateway lock,  *)
(* and has exactly one server open: the one close() will be called on.     *)
ServingHoldsLock ==
    (loop = "waiting" /\ ~shuttingDown) => lock /\ open = {server}

(* A shutdown always ends, in a new round or in the end of the process,    *)
(* whatever tasks hang.                                                    *)
ShutdownEnds == shuttingDown ~> (~shuttingDown \/ ~Alive)

(* A restart makes the gateway accept work again, or ends the process. *)
AcceptsWorkAgain == gatewayDraining ~> (loop = "waiting" /\ ~gatewayDraining) \/ ~Alive
=============================================================================
