---------------------------- MODULE FollowupQueue ----------------------------
(***************************************************************************)
(* The followup queue of one session key: src/auto-reply/reply/queue/ and  *)
(* the helpers of src/utils/queue-helpers.ts.  A message that arrives      *)
(* while the session has a run in flight is queued; when the run ends, a   *)
(* drain runs what is queued as followup turns.                            *)
(*                                                                         *)
(* The queue of a key is an object of the map FOLLOWUP_QUEUES.  A drain    *)
(* keeps a reference to the object it began on, and the map may meanwhile  *)
(* forget that object and hold another: the model gives objects identities.*)
(* Keys share nothing, so the module is one key's part of the two maps.    *)
(***************************************************************************)
EXTENDS Naturals, Sequences, SequencesExt

CONSTANTS
    Messages,
    Objects,         \* identities of queue objects; bounds how many are created
    NoQueue,         \* the map holds no object for the key
    MessageId,       \* the provider's id of each message: equal for a redelivery
    TargetOf,        \* where the answer to each message is routed
    Unkeyed,         \* the target of a message without routing metadata
    Unroutable,      \* the target of a message whose channel cannot be routed to
    Modes,           \* queue modes that settings may ask for: "collect" is the one
                     \* the drain distinguishes
    DropPolicies,    \* subset of {"old", "new", "summarize"}
    Caps,            \* capacities that settings may ask for
    MayClear,        \* the session may be aborted or reset (clearSessionQueues)
    StaleChecks      \* a run may end between a message's look at isActive and its
                     \* enqueue (get-reply-run.ts awaits in between)

ASSUME NoQueueAssumption == NoQueue \notin Objects
ASSUME CapsAssumption == Caps \subseteq Nat \ {0}   \* settings.ts:65 clamps to 1
ASSUME SettingsAssumption == Modes # {} /\ Caps # {} /\ DropPolicies # {}

VARIABLES
    current,    \* the object FOLLOWUP_QUEUES holds for the key, or NoQueue
    callback,   \* FOLLOWUP_RUN_CALLBACKS holds a callback for the key
    queue,      \* the FollowupQueueState of each object
    drain,      \* the drain of each object: what its coroutine has captured
    stage,      \* how far each message has come before it is queued
    accepted,   \* messages that entered the queue, in order (history)
    answered,   \* messages whose prompt a followup turn has completed, in order (history)
    excused,    \* messages reported as dropped, dropped by policy "old", or cleared (history)
    cleared     \* the session has been cleared before (history)

vars == <<current, callback, queue, drain, stage, accepted, answered, excused, cleared>>

Stages == {"unseen", "running", "finished", "held", "queued", "rejected"}

(* The count of dropped messages is the size of `dropped'.  lastEnqueuedAt *)
(* and debounceMs only delay the drain; summaryLines only word the summary.*)
QueueStates == [items : Seq(Messages), dropped : SUBSET Messages, lastRun : BOOLEAN,
                mode : Modes, cap : Caps, dropPolicy : DropPolicies]

(* A drain waits at "debounce", then at "collecting" for the awaited       *)
(* collect step to say "skipped", then at "running" for its followup turn. *)
(* Such a turn holds the prompts of `batch' and the summary of `told', and *)
(* `takes' items leave the queue when it completes.  History: `late' is    *)
(* what was queued while the drain awaited the collect step.               *)
Drains == [at : {"idle", "debounce", "collecting", "running"}, forced : BOOLEAN,
           batch : Seq(Messages), told : SUBSET Messages, takes : Nat, late : SUBSET Messages]

NoDrain == [at |-> "idle", forced |-> FALSE, batch |-> <<>>, told |-> {}, takes |-> 0,
            late |-> {}]

Settings == [mode : Modes, cap : Caps, dropPolicy : DropPolicies]

NewQueue(s) == [items |-> <<>>, dropped |-> {}, lastRun |-> FALSE, mode |-> s.mode,
                cap |-> s.cap, dropPolicy |-> s.dropPolicy]

Init ==
    /\ current = NoQueue
    /\ callback = FALSE
    /\ queue = [o \in Objects |-> NewQueue(CHOOSE s \in Settings : TRUE)]
    /\ drain = [o \in Objects |-> NoDrain]
    /\ stage = [m \in Messages |-> "unseen"]
    /\ accepted = <<>>
    /\ answered = <<>>
    /\ excused = {}
    /\ cleared = FALSE

----------------------------------------------------------------------------
(* The drain. *)

Draining(o) == drain[o].at # "idle"
HasWork(q) == q.items # <<>> \/ q.dropped # {}
HasSummary(q) == q.dropPolicy = "summarize" /\ q.dropped # {}

(* Mutant: items without a key are overlooked. *)
CrossChannelKeyedOnly(items) ==
    \E k, m \in {i \in ToSet(items) : TargetOf[i] # Unkeyed} :
      TargetOf[k] = Unroutable \/ TargetOf[k] # TargetOf[m]

(* Items of several targets, or one that cannot be routed, are not         *)
(* collected; items without a key do not mix with items that have one.     *)
CrossChannel(items) ==
    \E k, m \in ToSet(items) : TargetOf[k] = Unroutable \/ TargetOf[k] # TargetOf[m]

(* scheduleFollowupDrain with the queues and drains as the caller leaves   *)
(* them: it begins a drain on the object the map holds, unless one is in   *)
(* progress there.  The queue in the map has work whenever it is idle.     *)
ScheduleDrain(drains, held) ==
    LET begins == held # NoQueue /\ drains[held].at = "idle"
    IN /\ drain' = IF begins THEN [drains EXCEPT ![held] = [NoDrain EXCEPT !.at = "debounce"]]
                             ELSE drains
       /\ callback' = (callback \/ begins)
       /\ current' = held

(* The finally block of o's drain: the key, whatever object it now names,  *)
(* is deleted when o has no work left.                                     *)
EndDrain(o) ==
    LET ended == [drain EXCEPT ![o] = NoDrain]
    IN IF HasWork(queue'[o])
       THEN ScheduleDrain(ended, current)
       ELSE drain' = ended /\ current' = NoQueue /\ UNCHANGED callback

(* The drain calls runFollowup and waits for the turn. *)
Awaits(o, forced, batch, told, takes) ==
    /\ drain' = [drain EXCEPT ![o] = [@ EXCEPT !.at = "running", !.forced = forced,
                                      !.batch = batch, !.told = told, !.takes = takes]]
    /\ UNCHANGED <<current, callback>>

(* drainNextQueueItem: a followup turn for the oldest item, or, with       *)
(* nothing in the queue, the break out of the loop.                        *)
RunNextItem(o, forced, batch, told) ==
    IF queue[o].items = <<>> THEN EndDrain(o) ELSE Awaits(o, forced, batch, told, 1)

(* The queue has been quiet for debounceMs. *)
DebounceElapses(o) ==
    LET q == queue[o]
        individual == drain[o].forced \/ CrossChannel(q.items)
    IN /\ drain[o].at = "debounce"
       /\ UNCHANGED <<queue, stage, accepted, answered, excused, cleared>>
       /\ \/ /\ q.mode = "collect" /\ individual
             /\ RunNextItem(o, TRUE, SubSeq(q.items, 1, 1), {})
          \/ /\ q.mode = "collect" /\ ~individual
             /\ drain' = [drain EXCEPT ![o].at = "collecting"]
             /\ UNCHANGED <<current, callback>>
          \/ /\ q.mode # "collect" /\ ~HasSummary(q)
             /\ RunNextItem(o, drain[o].forced, SubSeq(q.items, 1, 1), {})
          \/ /\ q.mode # "collect" /\ HasSummary(q)
             /\ IF q.lastRun THEN RunNextItem(o, drain[o].forced, <<>>, q.dropped)
                             ELSE EndDrain(o)

(* Mutant: the key is deleted as soon as a turn has taken all the items. *)
CollectDeletesKey(o) ==
    LET q == queue[o]
        told == IF HasSummary(q) THEN q.dropped ELSE {}
    IN /\ drain[o].at = "collecting"
       /\ UNCHANGED <<queue, stage, accepted, answered, excused, cleared>>
       /\ IF q.items = <<>> /\ ~q.lastRun
          THEN EndDrain(o)
          ELSE /\ drain' = [drain EXCEPT ![o] = [@ EXCEPT !.at = "running", !.batch = q.items,
                                                       !.told = told, !.takes = Len(q.items)]]
               /\ current' = NoQueue
               /\ UNCHANGED callback

(* The collect step was skipped: one turn for all that is queued now. *)
Collect(o) ==
    LET q == queue[o]
        told == IF HasSummary(q) THEN q.dropped ELSE {}
    IN /\ drain[o].at = "collecting"
       /\ UNCHANGED <<queue, stage, accepted, answered, excused, cleared>>
       /\ IF q.items = <<>> /\ ~q.lastRun
          THEN EndDrain(o)
          ELSE Awaits(o, drain[o].forced, q.items, told, Len(q.items))

(* A run may end while a message that saw it active is not queued yet. *)
MayEndRun == StaleChecks \/ \A m \in Messages : stage[m] # "held"

(* Mutants: the items are shifted one by one, or all of them are dropped. *)
RunCompletesTaking(o, takes) ==
    LET d == drain[o]
    IN /\ d.at = "running" /\ MayEndRun
       /\ queue' = [queue EXCEPT
                      ![o].items = SubSeq(@, takes + 1, Len(@)),
                      ![o].dropped = IF d.told # {} THEN {} ELSE @]
       /\ answered' = answered \o d.batch
       /\ excused' = excused \union d.told
       /\ IF HasWork(queue'[o])
          THEN /\ drain' = [drain EXCEPT ![o] = [NoDrain EXCEPT !.at = "debounce", !.forced = d.forced]]
               /\ UNCHANGED <<current, callback>>
          ELSE EndDrain(o)
       /\ UNCHANGED <<stage, accepted, cleared>>
RunCompletesTakingOne(o) == RunCompletesTaking(o, 1)
RunCompletesTakingAll(o) == RunCompletesTaking(o, Len(queue[o].items))

(* The turn completes: as many items leave the front of the queue as it    *)
(* took, and a turn that held the summary clears what is dropped by now.   *)
(* The loop goes on while there is work.                                   *)
RunCompletes(o) ==
    LET d == drain[o]
    IN /\ d.at = "running" /\ MayEndRun
       /\ queue' = [queue EXCEPT
                      ![o].items = SubSeq(@, d.takes + 1, Len(@)),
                      ![o].dropped = IF d.told # {} THEN {} ELSE @]
       /\ answered' = answered \o d.batch
       /\ excused' = excused \union d.told
       /\ IF HasWork(queue'[o])
          THEN /\ drain' = [drain EXCEPT ![o] = [NoDrain EXCEPT !.at = "debounce", !.forced = d.forced]]
               /\ UNCHANGED <<current, callback>>
          ELSE EndDrain(o)
       /\ UNCHANGED <<stage, accepted, cleared>>

(* Mutant: a failed turn ends the drain and nothing starts another. *)
RunThrowsForGood(o) ==
    /\ drain[o].at = "running" /\ MayEndRun
    /\ UNCHANGED <<queue, stage, accepted, answered, excused, cleared>>
    /\ drain' = [drain EXCEPT ![o] = NoDrain]
    /\ UNCHANGED <<current, callback>>

(* runFollowup rejects: nothing leaves the queue and the drain starts anew. *)
RunThrows(o) ==
    /\ drain[o].at = "running" /\ MayEndRun
    /\ UNCHANGED <<queue, stage, accepted, answered, excused, cleared>>
    /\ EndDrain(o)

Drain(o) == DebounceElapses(o) \/ Collect(o) \/ RunCompletes(o) \/ RunThrows(o)

----------------------------------------------------------------------------
(* Messages and the runs they start. *)

RunInFlight ==
    \/ \E m \in Messages : stage[m] = "running"
    \/ \E o \in Objects : drain[o].at = "running"

(* A message reads isActive; it is true only while a run is in flight, and *)
(* not during all of it (the embedded run registers itself late).          *)
Arrive(m) ==
    /\ stage[m] = "unseen"
    /\ \/ stage' = [stage EXCEPT ![m] = "running"]
       \/ RunInFlight /\ stage' = [stage EXCEPT ![m] = "held"]
    /\ UNCHANGED <<current, callback, queue, drain, accepted, answered, excused, cleared>>

AlreadyQueued(m, items) ==
    \E k \in ToSet(items) : MessageId[k] = MessageId[m] /\ TargetOf[k] = TargetOf[m]

(* The object in the map, or none in the map and one no drain refers to:   *)
(* empty, it stands for a new one.                                         *)
IsQueueFor(o) ==
    \/ o = current
    \/ current = NoQueue /\ ~Draining(o) /\ ~HasWork(queue[o])

(* Mutant: a cap of 0 is taken from the settings. *)
GetQueueUnclamped(o, s) ==
    IF current = NoQueue
    THEN NewQueue(s)
    ELSE [queue[o] EXCEPT !.mode = s.mode, !.cap = s.cap - 1, !.dropPolicy = s.dropPolicy]

(* getFollowupQueue: that object, with settings s. *)
GetQueue(o, s) ==
    IF current = NoQueue
    THEN NewQueue(s)
    ELSE [queue[o] EXCEPT !.mode = s.mode, !.cap = s.cap, !.dropPolicy = s.dropPolicy]

(* Mutants: one item too few makes room, or the push is at the front. *)
PushOverCap(q, m) ==
    LET overflow == IF Len(q.items) < q.cap THEN 0 ELSE Len(q.items) - q.cap
        spliced == ToSet(SubSeq(q.items, 1, overflow))
    IN [q EXCEPT !.items = Append(SubSeq(@, overflow + 1, Len(@)), m),
                 !.dropped = IF q.dropPolicy = "summarize" THEN @ \union spliced ELSE @,
                 !.lastRun = TRUE]
PushAtFront(q, m) ==
    LET overflow == IF Len(q.items) < q.cap THEN 0 ELSE Len(q.items) - q.cap + 1
        spliced == ToSet(SubSeq(q.items, 1, overflow))
    IN [q EXCEPT !.items = <<m>> \o SubSeq(@, overflow + 1, Len(@)),
                 !.dropped = IF q.dropPolicy = "summarize" THEN @ \union spliced ELSE @,
                 !.lastRun = TRUE]

(* applyQueueDropPolicy at a full queue, and the push: the oldest items    *)
(* make room for m.                                                        *)
Push(q, m) ==
    LET overflow == IF Len(q.items) < q.cap THEN 0 ELSE Len(q.items) - q.cap + 1
        spliced == ToSet(SubSeq(q.items, 1, overflow))
    IN [q EXCEPT !.items = Append(SubSeq(@, overflow + 1, Len(@)), m),
                 !.dropped = IF q.dropPolicy = "summarize" THEN @ \union spliced ELSE @,
                 !.lastRun = TRUE]

(* A message may come while the drain awaits its collect step, from some   *)
(* other continuation of the same turn of the event loop.                  *)
MarkLate(m, o) ==
    IF drain[o].at = "collecting" THEN [drain EXCEPT ![o].late = @ \union {m}] ELSE drain

Enqueue(m, o, s) ==
    LET q == GetQueue(o, s)
    IN /\ stage[m] = "held"
       /\ IsQueueFor(o)
       /\ UNCHANGED <<answered, cleared>>
       /\ \/ /\ AlreadyQueued(m, q.items)
             /\ queue' = [queue EXCEPT ![o] = q]
             /\ stage' = [stage EXCEPT ![m] = "rejected"]
             /\ current' = o
             /\ UNCHANGED <<callback, drain, accepted, excused>>
          \/ /\ ~AlreadyQueued(m, q.items)
             /\ s.dropPolicy = "new" /\ Len(q.items) >= s.cap
             /\ queue' = [queue EXCEPT ![o] = [q EXCEPT !.lastRun = TRUE]]
             /\ stage' = [stage EXCEPT ![m] = "rejected"]
             /\ current' = o
             /\ UNCHANGED <<callback, drain, accepted, excused>>
          \/ /\ ~AlreadyQueued(m, q.items)
             /\ ~(s.dropPolicy = "new" /\ Len(q.items) >= s.cap)
             /\ queue' = [queue EXCEPT ![o] = Push(q, m)]
             /\ stage' = [stage EXCEPT ![m] = "queued"]
             /\ accepted' = Append(accepted, m)
             /\ excused' = IF s.dropPolicy = "old"
                           THEN excused \union (ToSet(q.items) \ ToSet(queue'[o].items))
                           ELSE excused
             /\ IF callback THEN ScheduleDrain(MarkLate(m, o), o)
                            ELSE current' = o /\ drain' = MarkLate(m, o) /\ UNCHANGED callback

(* Mutant: the run's end starts no drain. *)
FinishRunQuietly(m) ==
    /\ stage[m] = "running" /\ MayEndRun
    /\ stage' = [stage EXCEPT ![m] = "finished"]
    /\ UNCHANGED <<current, callback, queue, drain, accepted, answered, excused, cleared>>

(* The run of m ends: finalizeWithFollowup. *)
FinishRun(m) ==
    /\ stage[m] = "running" /\ MayEndRun
    /\ stage' = [stage EXCEPT ![m] = "finished"]
    /\ ScheduleDrain(drain, current)
    /\ UNCHANGED <<queue, accepted, answered, excused, cleared>>

(* clearSessionQueues: the object is emptied and forgotten, and so is the  *)
(* callback.  A drain that holds the object goes on with it.               *)
ClearSessionQueues ==
    /\ MayClear
    /\ callback \/ current # NoQueue
    /\ callback' = FALSE
    /\ current' = NoQueue
    /\ cleared' = TRUE
    /\ IF current = NoQueue
       THEN UNCHANGED <<queue, excused>>
       ELSE /\ queue' = [queue EXCEPT ![current].items = <<>>, ![current].dropped = {},
                                      ![current].lastRun = FALSE]
            /\ excused' = excused \union ToSet(queue[current].items) \union queue[current].dropped
    /\ UNCHANGED <<drain, stage, accepted, answered>>

Next ==
    \/ \E o \in Objects : Drain(o)
    \/ \E m \in Messages : Arrive(m) \/ FinishRun(m)
    \/ \E m \in Messages, o \in Objects, s \in Settings : Enqueue(m, o, s)
    \/ ClearSessionQueues

Spec == Init /\ [][Next]_vars

(* Timers fire, continuations run, messages that were let through are      *)
(* queued; a run ends, and a followup turn does not throw for ever.        *)
Fairness ==
    /\ \A o \in Objects :
         /\ WF_vars(DebounceElapses(o)) /\ WF_vars(Collect(o))
         /\ SF_vars(RunCompletes(o))
    /\ \A m \in Messages :
         /\ WF_vars(FinishRun(m))
         /\ SF_vars(\E o \in Objects, s \in Settings : Enqueue(m, o, s))

FairSpec == Spec /\ Fairness

----------------------------------------------------------------------------
(* Properties. *)

(* Types; a cap is at least 1.                                             *)
TypeOK ==
    /\ current \in Objects \union {NoQueue}
    /\ callback \in BOOLEAN
    /\ queue \in [Objects -> QueueStates]
    /\ drain \in [Objects -> Drains]
    /\ stage \in [Messages -> Stages]
    /\ accepted \in Seq(Messages)
    /\ answered \in Seq(Messages)
    /\ excused \in SUBSET Messages
    /\ cleared \in BOOLEAN

(* A message that is admitted never leaves its queue beyond the cap that   *)
(* the queue has by then, also when the very settings it came with have    *)
(* lowered the cap below what was waiting; and nothing else makes a queue  *)
(* longer.  A queue that refuses what comes may stay too long.             *)
CapHolds ==
    [][/\ accepted' # accepted => Len(queue'[current'].items) <= queue'[current'].cap
       /\ \A o \in Objects :
            \/ Len(queue'[o].items) <= Len(queue[o].items)
            \/ accepted' # accepted /\ o = current']_vars

(* No message that entered the queue disappears: it waits in an object the *)
(* map or a drain still refers to, or a followup turn completed with its   *)
(* prompt, or it was counted as dropped or cleared.                        *)
NothingLost ==
    \A m \in ToSet(accepted) :
      \/ m \in ToSet(answered) \union excused
      \/ \E o \in Objects :
            /\ o = current \/ Draining(o)
            /\ m \in ToSet(queue[o].items) \union queue[o].dropped

(* Once no run is in flight, no message on its way into the queue and no   *)
(* drain in progress, nothing is left in the queue: the last run's end or  *)
(* the enqueue itself started a drain for it.                              *)
IdleMeansEmpty ==
    (~RunInFlight /\ (\A o \in Objects : ~Draining(o)) /\ \A m \in Messages : stage[m] # "held")
      => \A o \in Objects : ~HasWork(queue[o])

(* Followup turns answer messages in the order in which they were queued,  *)
(* each at most once, through retries, batches, overflow and drops, as     *)
(* long as the session is not cleared and so has one drain.                *)
AnsweredInOrder ==
    ~cleared =>
      /\ ToSet(answered) \subseteq ToSet(accepted)
      /\ \A i, j \in DOMAIN answered, p, q \in DOMAIN accepted :
           (i < j /\ answered[i] = accepted[p] /\ answered[j] = accepted[q]) => p < q

(* At most once alone: what a completed turn answered is not run again,    *)
(* even when the queue is cleared or overflows under the turn.             *)
AnsweredOnce == IsInjective(answered)

(* The prompts of one turn have one target: an answer goes to no           *)
(* conversation other than the one that asked (drain.ts:83-88).  Only a    *)
(* prompt queued between the drain's look at the targets and the batch it  *)
(* takes may slip into a turn of another conversation: none that waited    *)
(* before, or comes during the turn, whatever is dropped or cleared.       *)
TurnsShareTarget ==
    \A o \in Objects : \A k, m \in ToSet(drain[o].batch) \ drain[o].late :
        TargetOf[k] = TargetOf[m]

(* A key has one drain: turns of one session do not compete.               *)
OneDrain ==
    \A o, p \in Objects : Draining(o) /\ Draining(p) => o = p

(* Every message that enters the queue is answered, or its loss reported.  *)
QueuedIsSettled ==
    \A m \in Messages : m \in ToSet(accepted) ~> m \in ToSet(answered) \union excused
=============================================================================
