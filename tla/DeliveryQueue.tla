---------------------------- MODULE DeliveryQueue ----------------------------
(***************************************************************************)
(* The write-ahead queue of outbound messages:                             *)
(* src/infra/outbound/delivery-queue.ts and deliverOutboundPayloads in     *)
(* src/infra/outbound/deliver.ts.  A delivery is written to a file before  *)
(* it is sent and the file is removed afterwards; at startup the gateway   *)
(* goes through the files that are left and sends them again.              *)
(*                                                                         *)
(* Every await of a file operation or a send is a step: live deliveries    *)
(* and the recovery of the same process interleave there, and a crash can  *)
(* come between any two.  Deliveries share nothing but the recovery loop.  *)
(***************************************************************************)
EXTENDS Naturals, Sequences

CONSTANTS
    Deliveries,
    Payloads,          \* number of payloads of each delivery
    Recovery,          \* the recovery loop, as the actor of an attempt
    BestEffort,        \* deliveries that go on after a payload that fails
    Watched,           \* deliveries whose caller passes onError
    MaxRetries,        \* MAX_RETRIES (5 in the code)
    NoFile,            \* the entry has no file
    LoadSeesLive       \* the recovery may load a delivery that is in progress in
                       \* its own process

ASSUME DeliveriesAssumption == Deliveries # {}
ASSUME PayloadsAssumption == Payloads \in Nat \ {0}
ASSUME RecoveryAssumption == Recovery \notin Deliveries
ASSUME MaxRetriesAssumption == MaxRetries \in Nat \ {0, 1}
ASSUME NoFileAssumption == NoFile \notin Nat
ASSUME BestEffortAssumption == BestEffort \subseteq Deliveries /\ Watched \subseteq Deliveries

VARIABLES
    disk,      \* retryCount in the entry's file, or NoFile; 0 also means that no
               \* attempt has been recorded (lastAttemptAt is absent)
    failedDir, \* entries moved to failed/
    attempt,   \* what the live attempt of each delivery, and the recovery, is doing
    pending,   \* entries the recovery has loaded and not looked at: the retryCount
               \* each was loaded with, by its place in `order'
    order,     \* entries by enqueuedAt
    handed,    \* per delivery: payloads the channel took or a hook cancelled (history)
    waived,    \* per delivery: payloads whose failure bestEffort passed over and
               \* nobody was told of (history)
    aborted,   \* deliveries whose caller aborted them (history)
    cutShort   \* deliveries that an AbortError of the channel's own ended (history)

vars == <<disk, failedDir, attempt, pending, order, handed, waived, aborted, cutShort>>
history == <<handed, waived, aborted, cutShort>>

(* A live attempt that the recovery overlaps may fail once more. *)
RetryLimit == IF LoadSeesLive THEN MaxRetries + 1 ELSE MaxRetries

Actors == Deliveries \union {Recovery}
AllPayloads == 1..Payloads

(* An attempt for delivery `of' is about to send payload `next'; `missed'  *)
(* is hadPartialFailure; `queued' says that there is a queueId to settle;  *)
(* `count' is the retryCount failDelivery is about to write.               *)
Attempts ==
    [at : {"idle", "writing", "sending", "acking", "failing", "rewriting", "moving", "done"},
     of : Deliveries, next : 1..Payloads + 1, missed : BOOLEAN, queued : BOOLEAN,
     count : 0..RetryLimit]

NonePending == [i \in {} |-> 0]

Idle(d) == [at |-> "idle", of |-> d, next |-> 1, missed |-> FALSE, queued |-> FALSE, count |-> 0]

Init ==
    /\ disk = [d \in Deliveries |-> NoFile]
    /\ failedDir = {}
    /\ attempt = [x \in Actors |-> Idle(IF x = Recovery THEN CHOOSE d \in Deliveries : TRUE ELSE x)]
    /\ pending = NonePending
    /\ order = <<>>
    /\ handed = [d \in Deliveries |-> {}]
    /\ waived = [d \in Deliveries |-> {}]
    /\ aborted = {}
    /\ cutShort = {}

OnDisk(d) == disk[d] # NoFile

-----------------------------------------------------------------------------
(* deliverOutboundPayloads, live *)

Deliver(d) ==
    /\ attempt[d].at = "idle"
    /\ attempt' = [attempt EXCEPT ![d].at = "writing"]
    /\ UNCHANGED <<disk, failedDir, pending, order, history>>

(* Mutant: the write is not awaited. *)
EnqueueUnawaited(d) ==
    /\ attempt[d].at = "writing"
    /\ order' = Append(order, d)
    /\ attempt' = [attempt EXCEPT ![d].at = "sending", ![d].queued = TRUE]
    /\ UNCHANGED <<disk, failedDir, pending, history>>

(* enqueueDelivery: the rename makes the entry appear whole. *)
EnqueueDelivery(d) ==
    /\ attempt[d].at = "writing"
    /\ disk' = [disk EXCEPT ![d] = 0]
    /\ order' = Append(order, d)
    /\ attempt' = [attempt EXCEPT ![d].at = "sending", ![d].queued = TRUE]
    /\ UNCHANGED <<failedDir, pending, history>>

(* The write fails: the delivery goes on without an entry. *)
EnqueueFails(d) ==
    /\ attempt[d].at = "writing"
    /\ attempt' = [attempt EXCEPT ![d].at = "sending"]
    /\ UNCHANGED <<disk, failedDir, pending, order, history>>

-----------------------------------------------------------------------------
(* deliverOutboundPayloadsCore, live or for the recovery *)

Sending(x) == attempt[x].at = "sending"

SendPayload(x) ==
    LET d == attempt[x].of
        p == attempt[x].next
    IN /\ Sending(x) /\ p <= Payloads
       /\ handed' = [handed EXCEPT ![d] = @ \union {p}]
       /\ attempt' = [attempt EXCEPT ![x].next = p + 1]
       /\ UNCHANGED <<disk, failedDir, pending, order, waived, aborted, cutShort>>

(* Under bestEffort the error of a payload goes to onError.  The recovery  *)
(* passes bestEffort but no onError.                                       *)
PassOver(x) ==
    LET d == attempt[x].of
        p == attempt[x].next
        told == x \in Watched
    IN /\ Sending(x) /\ p <= Payloads
       /\ d \in BestEffort
       /\ attempt' = [attempt EXCEPT ![x].next = p + 1, ![x].missed = @ \/ told]
       /\ waived' = IF told THEN waived ELSE [waived EXCEPT ![d] = @ \union {p}]
       /\ UNCHANGED <<disk, failedDir, pending, order, handed, aborted, cutShort>>

(* The settling of the entry that follows: unlink, or read and rewrite, or *)
(* rename to failed/; a live delivery without an entry has none.           *)
Settling(x, at) ==
    attempt' = [attempt EXCEPT ![x].at = IF attempt[x].queued THEN at ELSE "done"]

CoreReturns(x) ==
    /\ Sending(x) /\ attempt[x].next > Payloads
    /\ Settling(x, IF attempt[x].missed THEN "failing" ELSE "acking")
    /\ UNCHANGED <<disk, failedDir, pending, order, history>>

(* The channel handler cannot be made, a payload fails without bestEffort, *)
(* or, with every payload sent, the mirror into the transcript fails.      *)
(* Only the recovery looks for errors that are permanent.                  *)
CoreThrowsInto(x, live) ==
    /\ Sending(x)
    /\ attempt[x].of \in BestEffort => attempt[x].next \in {1, Payloads + 1}
    /\ \/ Settling(x, live)
       \/ x = Recovery /\ Settling(x, "moving")
    /\ UNCHANGED <<disk, failedDir, pending, order, history>>

(* Mutant: the entry is removed whatever comes of the send. *)
CoreThrowsAcks(x) == CoreThrowsInto(x, "acking")

CoreThrows(x) == CoreThrowsInto(x, "failing")

(* An error named AbortError ends the payload loop of a live delivery, and *)
(* the entry is acknowledged.  Under bestEffort it is one more payload     *)
(* error (PassOver); in the recovery it is an error like others.           *)
AbortError(d) ==
    /\ Sending(d) /\ attempt[d].next <= Payloads
    /\ d \notin BestEffort
    /\ Settling(d, "acking")
    /\ UNCHANGED <<disk, failedDir, pending, order, handed, waived>>

(* The caller's abort signal; the recovery has none. *)
Abort(d) ==
    /\ AbortError(d)
    /\ aborted' = aborted \union {d}
    /\ UNCHANGED cutShort

(* fetchWithTimeout ends a request that takes too long by an abort of its  *)
(* own; what the channel then throws has the same name.                    *)
ChannelAborts(d) ==
    /\ AbortError(d)
    /\ cutShort' = cutShort \union {d}
    /\ UNCHANGED aborted

-----------------------------------------------------------------------------
(* ackDelivery, failDelivery and moveToFailed *)

(* The attempt is over: the recovery looks at its next entry. *)
Over(x) == IF x = Recovery THEN "idle" ELSE "done"

AckDelivery(x) ==
    /\ attempt[x].at = "acking"
    /\ disk' = [disk EXCEPT ![attempt[x].of] = NoFile]
    /\ attempt' = [attempt EXCEPT ![x].at = Over(x)]
    /\ UNCHANGED <<failedDir, pending, order, history>>

(* An unlink that fails is passed over by a live delivery; in the recovery *)
(* it counts as a failed attempt.                                          *)
AckFails(x) ==
    /\ attempt[x].at = "acking"
    /\ attempt' = [attempt EXCEPT ![x].at = IF x = Recovery THEN "failing" ELSE "done"]
    /\ UNCHANGED <<disk, failedDir, pending, order, history>>

(* Mutant: the failed attempt is not counted. *)
FailDeliveryUncounted(x) ==
    LET d == attempt[x].of
    IN /\ attempt[x].at = "failing"
       /\ attempt' = IF OnDisk(d)
                     THEN [attempt EXCEPT ![x].at = "rewriting", ![x].count = disk[d]]
                     ELSE [attempt EXCEPT ![x].at = Over(x)]
       /\ UNCHANGED <<disk, failedDir, pending, order, history>>

FailDelivery(x) ==
    LET d == attempt[x].of
    IN /\ attempt[x].at = "failing"
       /\ attempt' = IF OnDisk(d)
                     THEN [attempt EXCEPT ![x].at = "rewriting", ![x].count = disk[d] + 1]
                     ELSE [attempt EXCEPT ![x].at = Over(x)]
       /\ UNCHANGED <<disk, failedDir, pending, order, history>>

(* The rename puts the file there whether or not it still exists. *)
RewriteEntry(x) ==
    /\ attempt[x].at = "rewriting"
    /\ disk' = [disk EXCEPT ![attempt[x].of] = attempt[x].count]
    /\ attempt' = [attempt EXCEPT ![x].at = Over(x), ![x].count = 0]
    /\ UNCHANGED <<failedDir, pending, order, history>>

(* A read or write that fails leaves the entry as it is. *)
FailIsLost(x) ==
    /\ attempt[x].at \in {"failing", "rewriting"}
    /\ attempt' = [attempt EXCEPT ![x].at = Over(x), ![x].count = 0]
    /\ UNCHANGED <<disk, failedDir, pending, order, history>>

(* Mutant: the file is removed and not kept in failed/. *)
MoveToNowhere ==
    /\ attempt[Recovery].at = "moving"
    /\ attempt' = [attempt EXCEPT ![Recovery].at = "idle"]
    /\ disk' = [disk EXCEPT ![attempt[Recovery].of] = NoFile]
    /\ UNCHANGED <<failedDir, pending, order, history>>

MoveToFailed ==
    LET d == attempt[Recovery].of
    IN /\ attempt[Recovery].at = "moving"
       /\ attempt' = [attempt EXCEPT ![Recovery].at = "idle"]
       /\ \/ /\ OnDisk(d)
             /\ disk' = [disk EXCEPT ![d] = NoFile]
             /\ failedDir' = failedDir \union {d}
          \/ UNCHANGED <<disk, failedDir>>
       /\ UNCHANGED <<pending, order, history>>

-----------------------------------------------------------------------------
(* recoverPendingDeliveries *)

InProgress(d) == attempt[d].queued /\ attempt[d].at \notin {"idle", "done"}

(* Startup: the files in order of enqueuedAt.  The recovery attempt is     *)
(* `queued' while there is a recovery: "idle" between two entries.         *)
LoadPending ==
    /\ ~attempt[Recovery].queued
    /\ LoadSeesLive \/ \A d \in Deliveries : ~InProgress(d)
    /\ pending' = [i \in {j \in DOMAIN order : OnDisk(order[j])} |-> disk[order[i]]]
    /\ attempt' = [attempt EXCEPT ![Recovery] = [Idle(@.of) EXCEPT !.queued = TRUE]]
    /\ UNCHANGED <<disk, failedDir, order, history>>

(* The oldest of the entries that are left. *)
LooksAt(i) ==
    /\ attempt[Recovery].queued /\ attempt[Recovery].at = "idle"
    /\ i \in DOMAIN pending /\ \A j \in DOMAIN pending : i <= j
    /\ pending' = [j \in DOMAIN pending \ {i} |-> pending[j]]
    /\ UNCHANGED <<disk, failedDir, order, history>>

GiveUp(i) ==
    /\ LooksAt(i)
    /\ pending[i] >= MaxRetries
    /\ attempt' = [attempt EXCEPT ![Recovery] =
                     [Idle(order[i]) EXCEPT !.at = "moving", !.queued = TRUE]]

(* Not before the backoff since the last attempt has passed; an entry that *)
(* was never tried is eligible at once.                                    *)
Defer(i) ==
    /\ LooksAt(i)
    /\ pending[i] \in 1..MaxRetries - 1
    /\ UNCHANGED attempt

(* Mutant: one retry too many. *)
ReplayOnceMore(i) ==
    /\ LooksAt(i)
    /\ pending[i] <= MaxRetries
    /\ attempt' = [attempt EXCEPT ![Recovery] =
                     [Idle(order[i]) EXCEPT !.at = "sending", !.queued = TRUE]]

Replay(i) ==
    /\ LooksAt(i)
    /\ pending[i] < MaxRetries
    /\ attempt' = [attempt EXCEPT ![Recovery] =
                     [Idle(order[i]) EXCEPT !.at = "sending", !.queued = TRUE]]

(* The time budget is spent: the rest waits for the next startup. *)
BudgetExceeded ==
    /\ attempt[Recovery].queued /\ attempt[Recovery].at = "idle"
    /\ pending # NonePending
    /\ pending' = NonePending
    /\ UNCHANGED <<disk, failedDir, attempt, order, history>>

-----------------------------------------------------------------------------
(* The gateway starts again: in its process, once the recovery is through, *)
(* or after a crash, which ends every attempt.                             *)
RestartInProcess ==
    /\ attempt[Recovery].queued /\ attempt[Recovery].at = "idle" /\ pending = NonePending
    /\ attempt' = [attempt EXCEPT ![Recovery].queued = FALSE]
    /\ UNCHANGED <<disk, failedDir, pending, order, history>>

Crash ==
    /\ attempt' = [x \in Actors |->
                     IF attempt[x].at = "idle" /\ x # Recovery
                     THEN attempt[x]
                     ELSE [Idle(attempt[x].of) EXCEPT !.at = IF x = Recovery THEN "idle" ELSE "done"]]
    /\ pending' = NonePending
    /\ UNCHANGED <<disk, failedDir, order, history>>

Live(d) == Deliver(d) \/ EnqueueDelivery(d) \/ EnqueueFails(d) \/ Abort(d) \/ ChannelAborts(d)
Core(x) == SendPayload(x) \/ PassOver(x) \/ CoreReturns(x) \/ CoreThrows(x)
Settle(x) == AckDelivery(x) \/ AckFails(x) \/ FailDelivery(x) \/ RewriteEntry(x) \/ FailIsLost(x)
Recover ==
    \/ LoadPending \/ MoveToFailed \/ BudgetExceeded
    \/ \E i \in DOMAIN order : GiveUp(i) \/ Defer(i) \/ Replay(i)

Next ==
    \/ \E d \in Deliveries : Live(d)
    \/ \E x \in Actors : Core(x) \/ Settle(x)
    \/ Recover \/ RestartInProcess \/ Crash

Spec == Init /\ [][Next]_vars

(* Awaited calls settle; the gateway is started again and again and from   *)
(* some point on does not crash; an entry is not always behind the time    *)
(* budget or inside its backoff, and the file system does not always fail. *)
Fairness ==
    /\ <>[][~Crash]_vars
    /\ \A d \in Deliveries : WF_vars(Live(d) /\ attempt[d].at = "writing")
    /\ \A x \in Actors : WF_vars(Core(x)) /\ WF_vars(Settle(x))
    /\ WF_vars(Recover) /\ WF_vars(RestartInProcess)
    /\ \A d \in Deliveries :
         /\ SF_vars(\E i \in DOMAIN order : order[i] = d /\ (Replay(i) \/ GiveUp(i)))
         /\ SF_vars(attempt[Recovery].of = d /\ RewriteEntry(Recovery))
         /\ SF_vars(attempt[Recovery].of = d /\ FailDelivery(Recovery))
         /\ SF_vars(MoveToFailed /\ OnDisk(d) /\ disk'[d] = NoFile)

FairSpec == Spec /\ Fairness

-----------------------------------------------------------------------------
(* Properties *)

(* Types, and the retry limit: no entry is written with more retries than  *)
(* MAX_RETRIES, save by a live attempt that the recovery overlaps.         *)
TypeOK ==
    /\ disk \in [Deliveries -> (0..RetryLimit) \union {NoFile}]
    /\ failedDir \subseteq Deliveries
    /\ attempt \in [Actors -> Attempts]
    /\ DOMAIN pending \subseteq DOMAIN order
    /\ pending \in [DOMAIN pending -> 0..RetryLimit]
    /\ order \in Seq(Deliveries)
    /\ handed \in [Deliveries -> SUBSET AllPayloads]
    /\ waived \in [Deliveries -> SUBSET AllPayloads]
    /\ aborted \subseteq Deliveries
    /\ cutShort \subseteq Deliveries

Accepted(d) == \E i \in DOMAIN order : order[i] = d

(* At least once, and the two losses there are: a delivery whose entry was *)
(* written is still on disk, or put aside in failed/, or aborted by its    *)
(* caller, or every payload of it has been handed over; save that a        *)
(* timeout of the channel is taken for the caller's abort (cutShort), and  *)
(* that a payload whose failure bestEffort passes over with nobody to tell *)
(* is forgotten (waived).  Whatever crashes, restarts and failing writes   *)
(* come in between, nothing else is lost.                                  *)
NeverLost ==
    \A d \in Deliveries :
      Accepted(d) => \/ OnDisk(d)
                     \/ d \in failedDir \union aborted \union cutShort
                     \/ handed[d] \union waived[d] = AllPayloads

(* Write-ahead: an attempt that has an entry sends a payload only while    *)
(* the entry is on disk, so that a crash under the send leaves a trace and *)
(* what was settled is not sent again.                                     *)
WriteAhead ==
    \A x \in Actors :
      (Sending(x) /\ attempt[x].queued /\ attempt[x].next <= Payloads) => OnDisk(attempt[x].of)

(* deliver.ts:485-488: an entry is not acknowledged when a payload failed  *)
(* under bestEffort ("so we can call failDelivery instead of               *)
(* ackDelivery"): what is gone without an AbortError was handed over whole. *)
AckedMeansSent ==
    \A d \in Deliveries :
      Accepted(d) => \/ OnDisk(d)
                     \/ d \in failedDir \union aborted \union cutShort
                     \/ handed[d] = AllPayloads

(* The queue keeps the promise of Outbox: what is settled stays settled,   *)
(* and of the payloads of a delivery that counts as delivered each one was *)
(* handed over or passed over under bestEffort.                            *)
Outcome(d) ==
    IF ~Accepted(d) THEN "none"
    ELSE IF OnDisk(d) THEN "owed"
    ELSE IF d \in failedDir THEN "failed"
    ELSE IF d \in aborted THEN "aborted"
    ELSE IF d \in cutShort THEN "cutShort"
    ELSE "delivered"

Promise == INSTANCE Outbox WITH
    Payloads <- AllPayloads,
    outcome <- [d \in Deliveries |-> Outcome(d)],
    handed <- [d \in Deliveries |-> handed[d] \union waived[d]]

KeepsPromise == Promise!Spec

(* Every entry leaves the queue: it is delivered, or failed/ keeps it.     *)
EveryEntrySettles == \A d \in Deliveries : OnDisk(d) ~> ~OnDisk(d)
=============================================================================
