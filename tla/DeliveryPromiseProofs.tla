------------------------- MODULE DeliveryPromiseProofs -------------------------
(***************************************************************************)
(* The types and the retry limit of the delivery queue for any number of   *)
(* deliveries, whether or not the recovery may load one in progress; and,  *)
(* where it may not, the write-ahead property and the promise of Outbox.   *)
(*                                                                         *)
(* All invariants but the first are about one delivery: what its file, its *)
(* live attempt, the recovery and the loaded entries may be at the same    *)
(* time.  The steps of attempts are one relation, Moves, which each action *)
(* is shown to be in; the invariants are shown to be kept by Moves and by  *)
(* the few other steps.                                                    *)
(***************************************************************************)
EXTENDS DeliveryQueueProofs

USE DEF Actors

Busy == {"sending", "acking", "failing", "rewriting", "moving"}
Engaged(x) == attempt[x].queued /\ attempt[x].at \in Busy
Recovers(d) == attempt[Recovery].of = d /\ attempt[Recovery].at # "idle"

(* An entry is enqueued once, has a file only from then on, and an attempt *)
(* has it to settle from then on.  The recovery has taken the entry it is  *)
(* at out of those it still has to look at.  Only failDelivery has a       *)
(* retryCount in hand.                                                     *)
BookInv ==
    /\ \A i, j \in DOMAIN order : order[i] = order[j] => i = j
    /\ \A d \in Deliveries :
         /\ attempt[d].at \in {"idle", "writing"} => ~Accepted(d) /\ ~attempt[d].queued
         /\ attempt[d].at # "moving"
         /\ attempt[d].at \in Busy => (Accepted(d) <=> attempt[d].queued)
         /\ attempt[d].at \in Busy \ {"sending"} => attempt[d].queued
         /\ OnDisk(d) \/ d \in failedDir => Accepted(d)
    /\ attempt[Recovery].at \in Busy \union {"idle"}
    /\ attempt[Recovery].at \in Busy =>
         attempt[Recovery].queued /\ Accepted(attempt[Recovery].of)
    /\ DOMAIN pending \subseteq DOMAIN order
    /\ pending \in [DOMAIN pending -> Nat]
    /\ \A i \in DOMAIN pending : attempt[Recovery].queued /\ ~Recovers(order[i])
    /\ aborted \subseteq Deliveries /\ cutShort \subseteq Deliveries
    /\ \A x \in Actors : attempt[x].at # "rewriting" => attempt[x].count = 0

-----------------------------------------------------------------------------
(* What the step of an attempt does to its delivery, stage by stage.       *)
Kept(d) == disk'[d] = disk[d]

StageMove(x) ==
    LET d == attempt[x].of
        here == attempt[x].at
        there == attempt'[x].at
    IN \/ x # Recovery /\ here = "idle" /\ there = "writing" /\ Kept(d)
       \/ x # Recovery /\ here = "writing" /\ there = "sending" /\ Kept(d)
       \/ here = "sending" /\ there = "sending" /\ Kept(d)
       \/ here = "sending" /\ there \in {"acking", "failing"} /\ attempt[x].queued /\ Kept(d)
       \/ here = "sending" /\ there = "moving" /\ x = Recovery /\ Kept(d)
       \/ here = "sending" /\ there = "done" /\ ~attempt[x].queued /\ Kept(d)
       \/ here = "acking" /\ there = Over(x) /\ disk'[d] = NoFile
       \/ here = "acking" /\ there = (IF x = Recovery THEN "failing" ELSE "done") /\ Kept(d)
       \/ here = "failing" /\ there = "rewriting" /\ OnDisk(d)
          /\ attempt'[x].count = disk[d] + 1 /\ Kept(d)
       \/ here \in {"failing", "rewriting"} /\ there = Over(x) /\ Kept(d)
       \/ here = "rewriting" /\ there = Over(x) /\ disk'[d] = attempt[x].count
       \/ here = "moving" /\ x = Recovery /\ there = "idle" /\ (Kept(d) \/ disk'[d] = NoFile)

CountKept(x) ==
    attempt'[x].at # "rewriting" =>
      \/ attempt'[x].count = 0
      \/ attempt[x].at # "rewriting" /\ attempt'[x].count = attempt[x].count

Moves(x) ==
    /\ \A y \in Actors \ {x} : attempt'[y] = attempt[y]
    /\ attempt'[x].of = attempt[x].of /\ attempt'[x].queued = attempt[x].queued
    /\ \A d \in Deliveries \ {attempt[x].of} : Kept(d)
    /\ \A d \in failedDir' :
         d \in failedDir \/ (d = attempt[x].of /\ attempt[x].at = "moving" /\ disk'[d] = NoFile)
    /\ UNCHANGED <<pending, order>>
    /\ aborted' \subseteq aborted \union Deliveries
    /\ cutShort' \subseteq cutShort \union Deliveries
    /\ StageMove(x) /\ CountKept(x)

AttemptSteps(x) ==
    \/ x \in Deliveries /\ (Deliver(x) \/ EnqueueFails(x) \/ Abort(x) \/ ChannelAborts(x))
    \/ Core(x) \/ Settle(x)
    \/ x = Recovery /\ MoveToFailed

(* Only attempt[x] is reassigned, as a itself or a change of it. *)
LEMMA Reassigned ==
    ASSUME Shape, NEW x \in Actors, NEW a, attempt' = [attempt EXCEPT ![x] = a]
    PROVE  attempt'[x] = a /\ \A y \in Actors \ {x} : attempt'[y] = attempt[y]
BY DEF Shape

LEMMA MovesBeforeSend ==
    ASSUME DeliveryInv, BookInv, NEW x \in Deliveries,
           Deliver(x) \/ EnqueueFails(x) \/ Abort(x) \/ ChannelAborts(x)
    PROVE  Moves(x)
<1>1. Shape /\ x \in Actors /\ x # Recovery /\ attempt[x] \in AttemptShape /\ attempt[x].of \in Deliveries
  BY RecoveryAssumption DEF DeliveryInv, Shape, AttemptShape
<1>2. CASE Deliver(x)
  <2> DEFINE a == [attempt[x] EXCEPT !.at = "writing"]
  <2>1. attempt' = [attempt EXCEPT ![x] = a]
    BY <1>1, <1>2 DEF Deliver, Shape
  <2>2. /\ a.of = attempt[x].of /\ a.queued = attempt[x].queued /\ a.at = "writing"
        /\ a.count = attempt[x].count
    BY <1>1 DEF AttemptShape
  <2> HIDE DEF a
  <2>3. attempt'[x] = a /\ \A y \in Actors \ {x} : attempt'[y] = attempt[y]
    BY <1>1, <2>1, Reassigned
  <2> QED
    BY <1>1, <1>2, <2>2, <2>3 DEF Deliver, Moves, StageMove, CountKept, Kept, history
<1>3. CASE EnqueueFails(x)
  <2> DEFINE a == [attempt[x] EXCEPT !.at = "sending"]
  <2>1. attempt' = [attempt EXCEPT ![x] = a]
    BY <1>1, <1>3 DEF EnqueueFails, Shape
  <2>2. /\ a.of = attempt[x].of /\ a.queued = attempt[x].queued /\ a.at = "sending"
        /\ a.count = attempt[x].count
    BY <1>1 DEF AttemptShape
  <2> HIDE DEF a
  <2>3. attempt'[x] = a /\ \A y \in Actors \ {x} : attempt'[y] = attempt[y]
    BY <1>1, <2>1, Reassigned
  <2> QED
    BY <1>1, <1>3, <2>2, <2>3 DEF EnqueueFails, Moves, StageMove, CountKept, Kept, history
<1>4. CASE Abort(x) \/ ChannelAborts(x)
  <2> DEFINE a == [attempt[x] EXCEPT !.at = IF attempt[x].queued THEN "acking" ELSE "done"]
  <2>1. attempt' = [attempt EXCEPT ![x] = a]
    BY <1>1, <1>4 DEF Abort, ChannelAborts, AbortError, Settling, Shape
  <2>2. /\ a.of = attempt[x].of /\ a.queued = attempt[x].queued
        /\ a.count = attempt[x].count
        /\ a.at = IF attempt[x].queued THEN "acking" ELSE "done"
    BY <1>1 DEF AttemptShape
  <2> HIDE DEF a
  <2>3. attempt'[x] = a /\ \A y \in Actors \ {x} : attempt'[y] = attempt[y]
    BY <1>1, <2>1, Reassigned
  <2> QED
    BY <1>1, <1>4, <2>2, <2>3
    DEF Abort, ChannelAborts, AbortError, Sending, Moves, StageMove, CountKept, Kept
<1> QED
  BY <1>2, <1>3, <1>4

LEMMA MovesInCore ==
    ASSUME DeliveryInv, BookInv, NEW x \in Actors, Core(x)
    PROVE  Moves(x)
<1>1. Shape /\ attempt[x] \in AttemptShape /\ attempt[x].of \in Deliveries /\ attempt[x].at = "sending"
  BY DEF DeliveryInv, Shape, AttemptShape, Core, SendPayload, PassOver, CoreReturns, CoreThrows,
         CoreThrowsInto, Sending
<1>2. x = Recovery => attempt[x].queued
  BY <1>1 DEF BookInv, Busy
<1>3. ASSUME NEW a, attempt' = [attempt EXCEPT ![x] = a],
             a.of = attempt[x].of, a.queued = attempt[x].queued, a.count = attempt[x].count,
             \/ a.at = "sending"
             \/ a.at \in {"acking", "failing"} /\ attempt[x].queued
             \/ a.at = "moving" /\ x = Recovery
             \/ a.at = "done" /\ ~attempt[x].queued,
             UNCHANGED <<disk, failedDir, pending, order, aborted, cutShort>>
      PROVE  Moves(x)
  <2>1. attempt'[x] = a /\ \A y \in Actors \ {x} : attempt'[y] = attempt[y]
    BY <1>1, <1>3, Reassigned
  <2> QED
    BY <1>1, <1>3, <2>1 DEF Moves, StageMove, CountKept, Kept
<1>4. CASE SendPayload(x)
  <2> DEFINE a == [attempt[x] EXCEPT !.next = attempt[x].next + 1]
  <2>1. attempt' = [attempt EXCEPT ![x] = a]
    BY <1>1, <1>4 DEF SendPayload, Shape
  <2>2. /\ a.of = attempt[x].of /\ a.queued = attempt[x].queued /\ a.at = "sending"
        /\ a.count = attempt[x].count
    BY <1>1 DEF AttemptShape
  <2> QED
    BY <1>3, <1>4, <2>1, <2>2 DEF SendPayload
<1>5. CASE PassOver(x)
  <2> DEFINE a == [attempt[x] EXCEPT !.next = attempt[x].next + 1,
                                     !.missed = attempt[x].missed \/ x \in Watched]
  <2>1. attempt' = [attempt EXCEPT ![x] = a]
    BY <1>1, <1>5 DEF PassOver, Shape
  <2>2. /\ a.of = attempt[x].of /\ a.queued = attempt[x].queued /\ a.at = "sending"
        /\ a.count = attempt[x].count
    BY <1>1 DEF AttemptShape
  <2> QED
    BY <1>3, <1>5, <2>1, <2>2 DEF PassOver
<1>6. CASE CoreReturns(x) \/ CoreThrows(x)
  <2>1. PICK to \in {"acking", "failing", "moving"} :
          Settling(x, to) /\ (to = "moving" => x = Recovery)
    BY <1>6 DEF CoreReturns, CoreThrows, CoreThrowsInto
  <2> DEFINE a == [attempt[x] EXCEPT !.at = IF attempt[x].queued THEN to ELSE "done"]
  <2>2. attempt' = [attempt EXCEPT ![x] = a]
    BY <1>1, <2>1 DEF Settling, Shape
  <2>3. /\ a.of = attempt[x].of /\ a.queued = attempt[x].queued
        /\ a.count = attempt[x].count
        /\ a.at = IF attempt[x].queued THEN to ELSE "done"
    BY <1>1 DEF AttemptShape
  <2> QED
    BY <1>2, <1>3, <1>6, <2>1, <2>2, <2>3 DEF CoreReturns, CoreThrows, CoreThrowsInto, history
<1> QED
  BY <1>4, <1>5, <1>6 DEF Core

LEMMA MovesInSettle ==
    ASSUME DeliveryInv, BookInv, NEW x \in Actors, Settle(x)
    PROVE  Moves(x)
<1>1. Shape /\ attempt[x] \in AttemptShape /\ attempt[x].of \in Deliveries
  BY DEF DeliveryInv, Shape, AttemptShape
<1>2. UNCHANGED <<failedDir, pending, order, aborted, cutShort>>
  BY DEF Settle, AckDelivery, AckFails, FailDelivery, RewriteEntry, FailIsLost, history
<1>3. ASSUME NEW a, attempt' = [attempt EXCEPT ![x] = a],
             a.of = attempt[x].of, a.queued = attempt[x].queued,
             a.count \in {0, attempt[x].count} \/ a.at = "rewriting",
             attempt[x].at = "rewriting" => a.count = 0,
             NEW v, disk' = [disk EXCEPT ![attempt[x].of] = v],
             \/ attempt[x].at = "acking" /\ a.at = Over(x) /\ v = NoFile
             \/ /\ attempt[x].at = "acking" /\ a.at = (IF x = Recovery THEN "failing" ELSE "done")
                /\ v = disk[attempt[x].of]
             \/ /\ attempt[x].at = "failing" /\ a.at = "rewriting" /\ OnDisk(attempt[x].of)
                /\ a.count = disk[attempt[x].of] + 1 /\ v = disk[attempt[x].of]
             \/ /\ attempt[x].at \in {"failing", "rewriting"} /\ a.at = Over(x)
                /\ v = disk[attempt[x].of]
             \/ attempt[x].at = "rewriting" /\ a.at = Over(x) /\ v = attempt[x].count
      PROVE  Moves(x)
  <2>1. attempt'[x] = a /\ \A y \in Actors \ {x} : attempt'[y] = attempt[y]
    BY <1>1, <1>3, Reassigned
  <2>2. \A d \in Deliveries : disk'[d] = IF d = attempt[x].of THEN v ELSE disk[d]
    BY <1>1, <1>3 DEF Shape
  <2>3. StageMove(x) /\ CountKept(x)
    BY <1>1, <1>3, <2>1, <2>2 DEF StageMove, CountKept, Kept
  <2> QED
    BY <1>1, <1>2, <1>3, <2>1, <2>2, <2>3 DEF Moves, Kept
<1>4. ASSUME disk' = disk
      PROVE  disk' = [disk EXCEPT ![attempt[x].of] = disk[attempt[x].of]]
  BY <1>1, <1>4 DEF Shape
<1>5. CASE AckDelivery(x)
  <2> DEFINE a == [attempt[x] EXCEPT !.at = Over(x)]
  <2>1. attempt' = [attempt EXCEPT ![x] = a]
    BY <1>1, <1>5 DEF AckDelivery, Shape
  <2>2. /\ a.of = attempt[x].of /\ a.queued = attempt[x].queued /\ a.at = Over(x)
        /\ a.count = attempt[x].count
    BY <1>1 DEF AttemptShape
  <2> QED
    BY <1>3, <1>5, <2>1, <2>2 DEF AckDelivery
<1>6. CASE AckFails(x)
  <2> DEFINE a == [attempt[x] EXCEPT !.at = IF x = Recovery THEN "failing" ELSE "done"]
  <2>1. attempt' = [attempt EXCEPT ![x] = a]
    BY <1>1, <1>6 DEF AckFails, Shape
  <2>2. /\ a.of = attempt[x].of /\ a.queued = attempt[x].queued
        /\ a.count = attempt[x].count
        /\ a.at = IF x = Recovery THEN "failing" ELSE "done"
    BY <1>1 DEF AttemptShape
  <2>3. attempt[x].at = "acking" /\ disk' = [disk EXCEPT ![attempt[x].of] = disk[attempt[x].of]]
    BY <1>4, <1>6 DEF AckFails
  <2> HIDE DEF a
  <2> QED
    BY <1>3, <2>1, <2>2, <2>3
<1>7. CASE FailDelivery(x) /\ OnDisk(attempt[x].of)
  <2> DEFINE a == [attempt[x] EXCEPT !.at = "rewriting", !.count = disk[attempt[x].of] + 1]
  <2>1. attempt' = [attempt EXCEPT ![x] = a]
    BY <1>1, <1>7 DEF FailDelivery, Shape
  <2>2. /\ a.of = attempt[x].of /\ a.queued = attempt[x].queued
        /\ a.at = "rewriting" /\ a.count = disk[attempt[x].of] + 1
    BY <1>1 DEF AttemptShape
  <2> QED
    BY <1>3, <1>4, <1>7, <2>1, <2>2 DEF FailDelivery
<1>8. CASE FailDelivery(x) /\ ~OnDisk(attempt[x].of)
  <2> DEFINE a == [attempt[x] EXCEPT !.at = Over(x)]
  <2>1. attempt' = [attempt EXCEPT ![x] = a]
    BY <1>1, <1>8 DEF FailDelivery, Shape
  <2>2. /\ a.of = attempt[x].of /\ a.queued = attempt[x].queued /\ a.at = Over(x)
        /\ a.count = attempt[x].count
    BY <1>1 DEF AttemptShape
  <2> QED
    BY <1>3, <1>4, <1>8, <2>1, <2>2 DEF FailDelivery
<1>9. CASE RewriteEntry(x) \/ FailIsLost(x)
  <2> DEFINE a == [attempt[x] EXCEPT !.at = Over(x), !.count = 0]
  <2>1. attempt' = [attempt EXCEPT ![x] = a]
    BY <1>1, <1>9 DEF RewriteEntry, FailIsLost, Shape
  <2>2. /\ a.of = attempt[x].of /\ a.queued = attempt[x].queued /\ a.at = Over(x)
        /\ a.count = 0
    BY <1>1 DEF AttemptShape
  <2> QED
    BY <1>3, <1>4, <1>9, <2>1, <2>2 DEF RewriteEntry, FailIsLost
<1> QED
  BY <1>5, <1>6, <1>7, <1>8, <1>9 DEF Settle

LEMMA MovesAside ==
    ASSUME DeliveryInv, BookInv, MoveToFailed
    PROVE  Moves(Recovery)
<1>1. /\ Shape /\ attempt[Recovery] \in AttemptShape /\ attempt[Recovery].of \in Deliveries
      /\ attempt[Recovery].at = "moving"
  BY DEF DeliveryInv, Shape, AttemptShape, MoveToFailed
<1> DEFINE a == [attempt[Recovery] EXCEPT !.at = "idle"]
<1>2. attempt' = [attempt EXCEPT ![Recovery] = a]
  BY <1>1 DEF MoveToFailed, Shape
<1>3. /\ a.of = attempt[Recovery].of /\ a.queued = attempt[Recovery].queued /\ a.at = "idle"
      /\ a.count = attempt[Recovery].count
  BY <1>1 DEF AttemptShape
<1> HIDE DEF a
<1>4. attempt'[Recovery] = a /\ \A y \in Actors \ {Recovery} : attempt'[y] = attempt[y]
  BY <1>1, <1>2, Reassigned
<1>5. /\ \A d \in Deliveries \ {attempt[Recovery].of} : disk'[d] = disk[d]
      /\ \/ disk' = disk /\ failedDir' = failedDir
         \/ /\ disk'[attempt[Recovery].of] = NoFile
            /\ failedDir' = failedDir \union {attempt[Recovery].of}
  BY <1>1 DEF MoveToFailed, Shape
<1>6. UNCHANGED <<pending, order, aborted, cutShort>>
  BY DEF MoveToFailed, history
<1>7. StageMove(Recovery) /\ CountKept(Recovery)
  BY <1>1, <1>3, <1>4, <1>5 DEF StageMove, CountKept, Kept
<1> QED
  BY <1>1, <1>3, <1>4, <1>5, <1>6, <1>7 DEF Moves, Kept

LEMMA StepsMove ==
    ASSUME DeliveryInv, BookInv, NEW x \in Actors, AttemptSteps(x)
    PROVE  Moves(x)
BY MovesBeforeSend, MovesInCore, MovesInSettle, MovesAside DEF AttemptSteps

-----------------------------------------------------------------------------
(* The steps of an attempt keep the books. *)

LEMMA StagesOfMoves ==
    ASSUME DeliveryInv, BookInv, NEW x \in Actors, Moves(x)
    PROVE  LET here == attempt[x].at
               there == attempt'[x].at
           IN /\ there \in Busy => here \in Busy \/ (x # Recovery /\ here = "writing")
              /\ there = "idle" => x = Recovery /\ here \in Busy
              /\ there = "writing" => x # Recovery /\ here = "idle"
              /\ there = "moving" => x = Recovery
              /\ there \in Busy \ {"sending"} => here \in Busy \ {"sending"} \/ attempt[x].queued
                                               \/ x = Recovery
              /\ x = Recovery => here \in Busy /\ there \in Busy \union {"idle"}
BY DEF Moves, StageMove, Busy, BookInv, Over

LEMMA MovesKeepBooks ==
    ASSUME DeliveryInv, BookInv, NEW x \in Actors, Moves(x)
    PROVE  BookInv'
<1>1. /\ order' = order /\ pending' = pending
      /\ \A d \in Deliveries : Accepted(d)' <=> Accepted(d)
  BY DEF Moves, Accepted
<1>2. x # Recovery => attempt[x].of = x /\ x \in Deliveries
  BY DEF DeliveryInv, AttemptInv
<1>3. attempt[x].of \in Deliveries
  BY DEF DeliveryInv, Shape, AttemptShape
<1>4. attempt[x].at \in Busy => (Accepted(attempt[x].of) <=> attempt[x].queued)
  BY <1>2 DEF BookInv
<1>5. ASSUME NEW d \in Deliveries
      PROVE  /\ attempt'[d].at \in {"idle", "writing"} => ~Accepted(d)' /\ ~attempt'[d].queued
             /\ attempt'[d].at # "moving"
             /\ attempt'[d].at \in Busy => (Accepted(d)' <=> attempt'[d].queued)
             /\ attempt'[d].at \in Busy \ {"sending"} => attempt'[d].queued
  <2>1. CASE d = x
    BY <1>1, <2>1, StagesOfMoves, RecoveryAssumption DEF BookInv, Moves, Busy
  <2>2. CASE d # x
    BY <1>1, <2>2 DEF BookInv, Moves
  <2> QED
    BY <2>1, <2>2
<1>6. ASSUME NEW d \in Deliveries, OnDisk(d)' \/ d \in failedDir'
      PROVE  Accepted(d)'
  <2>1. CASE d = attempt[x].of
    <3>1. CASE OnDisk(d) \/ d \in failedDir
      BY <1>1, <3>1 DEF BookInv
    <3>2. CASE ~OnDisk(d) /\ d \notin failedDir
      <4>1. attempt[x].at \in {"rewriting", "moving"}
        BY <1>6, <2>1, <3>2, NoFileAssumption DEF Moves, StageMove, Kept, OnDisk
      <4>2. CASE x = Recovery
        BY <1>1, <2>1, <4>1, <4>2 DEF BookInv, Busy
      <4>3. CASE x # Recovery
        <5>1. attempt[x].queued
          BY <1>2, <2>1, <4>1, <4>3 DEF BookInv, Busy
        <5> QED
          BY <1>1, <1>2, <2>1, <4>1, <4>3, <5>1 DEF BookInv, Busy
      <4> QED
        BY <4>2, <4>3
    <3> QED
      BY <3>1, <3>2
  <2>2. CASE d # attempt[x].of
    BY <1>1, <1>6, <2>2 DEF BookInv, Moves, Kept, OnDisk
  <2> QED
    BY <2>1, <2>2
<1>7. /\ attempt'[Recovery].at \in Busy \union {"idle"}
      /\ attempt'[Recovery].at \in Busy =>
           attempt'[Recovery].queued /\ Accepted(attempt[Recovery].of)'
  <2>1. CASE x = Recovery
    BY <1>1, <1>3, <2>1, StagesOfMoves DEF BookInv, Moves
  <2>2. CASE x # Recovery
    <3>1. attempt'[Recovery] = attempt[Recovery]
      BY <2>2 DEF Moves
    <3>2. attempt[Recovery].of \in Deliveries
      BY DEF DeliveryInv, Shape, AttemptShape
    <3> QED
      BY <1>1, <3>1, <3>2 DEF BookInv
  <2> QED
    BY <2>1, <2>2
<1>8. \A i \in DOMAIN pending' : attempt'[Recovery].queued /\ ~Recovers(order[i])'
  <2>1. CASE x = Recovery
    BY <1>1, <2>1, StagesOfMoves DEF BookInv, Moves, Recovers, Busy
  <2>2. CASE x # Recovery
    BY <1>1, <2>2 DEF BookInv, Moves, Recovers
  <2> QED
    BY <2>1, <2>2
<1>9. aborted' \subseteq Deliveries /\ cutShort' \subseteq Deliveries
  BY DEF Moves, BookInv
<1>10. ASSUME NEW y \in Actors, attempt'[y].at # "rewriting"
       PROVE  attempt'[y].count = 0
  BY <1>10 DEF Moves, CountKept, BookInv
<1> QED
  BY <1>1, <1>5, <1>6, <1>7, <1>8, <1>9, <1>10 DEF BookInv

-----------------------------------------------------------------------------
(* The steps that are not of an attempt. *)

(* The recovery turns to nothing, or to the entry at place i. *)
Rests ==
    /\ \A d \in Deliveries : attempt'[d] = attempt[d]
    /\ attempt[Recovery].at = "idle" /\ attempt'[Recovery].at = "idle"
    /\ attempt'[Recovery].count = attempt[Recovery].count
    /\ DOMAIN pending' \subseteq DOMAIN pending
    /\ \A i \in DOMAIN pending' : pending'[i] = pending[i]
    /\ pending' \in [DOMAIN pending' -> Nat]
    /\ DOMAIN pending' # {} => attempt'[Recovery].queued
    /\ UNCHANGED <<disk, failedDir, order, history>>

Takes(i) ==
    /\ \A d \in Deliveries : attempt'[d] = attempt[d]
    /\ attempt[Recovery].at = "idle" /\ attempt'[Recovery].of = order[i]
    /\ attempt[Recovery].queued /\ attempt'[Recovery].queued /\ attempt'[Recovery].count = 0
    /\ \/ attempt'[Recovery].at = "sending" /\ pending[i] < MaxRetries
       \/ attempt'[Recovery].at = "moving"
    /\ i \in DOMAIN pending /\ DOMAIN pending' = DOMAIN pending \ {i}
    /\ \A j \in DOMAIN pending' : pending'[j] = pending[j]
    /\ pending' \in [DOMAIN pending' -> Nat]
    /\ UNCHANGED <<disk, failedDir, order, history>>

Loads ==
    /\ \A d \in Deliveries : attempt'[d] = attempt[d]
    /\ LoadSeesLive \/ \A d \in Deliveries : ~InProgress(d)
    /\ attempt'[Recovery].at = "idle" /\ attempt'[Recovery].queued /\ attempt'[Recovery].count = 0
    /\ DOMAIN pending' = {j \in DOMAIN order : OnDisk(order[j])}
    /\ \A i \in DOMAIN pending' : pending'[i] = disk[order[i]]
    /\ pending' \in [DOMAIN pending' -> Nat]
    /\ UNCHANGED <<disk, failedDir, order, history>>

Dies ==
    /\ \A d \in Deliveries :
         \/ attempt'[d] = attempt[d] /\ attempt[d].at = "idle"
         \/ attempt'[d].at = "done" /\ ~attempt'[d].queued /\ attempt'[d].count = 0
    /\ attempt'[Recovery].at = "idle" /\ attempt'[Recovery].count = 0
    /\ DOMAIN pending' = {} /\ pending' \in [{} -> Nat]
    /\ UNCHANGED <<disk, failedDir, order, history>>

Accepts(d) ==
    /\ \A y \in Actors \ {d} : attempt'[y] = attempt[y]
    /\ attempt[d].at = "writing" /\ attempt'[d].at = "sending" /\ attempt'[d].queued
    /\ attempt'[d].count = attempt[d].count
    /\ disk' = [disk EXCEPT ![d] = 0]
    /\ order' = Append(order, d)
    /\ UNCHANGED <<failedDir, pending, history>>

LEMMA NonePendingFacts == DOMAIN NonePending = {} /\ NonePending \in [{} -> Nat]
BY DEF NonePending

LEMMA RecoveryReassigned ==
    ASSUME Shape, NEW a, attempt' = [attempt EXCEPT ![Recovery] = a]
    PROVE  attempt'[Recovery] = a /\ \A d \in Deliveries : attempt'[d] = attempt[d]
BY RecoveryAssumption DEF Shape

LEMMA RecoverSteps ==
    ASSUME DeliveryInv, BookInv, Recover, ~MoveToFailed
    PROVE  Rests \/ Loads \/ \E i \in DOMAIN pending : Takes(i)
<1>1. Shape /\ attempt[Recovery] \in AttemptShape
  BY DEF DeliveryInv, Shape
<1>2. CASE LoadPending
  <2> DEFINE a == [Idle(attempt[Recovery].of) EXCEPT !.queued = TRUE]
  <2>1. attempt' = [attempt EXCEPT ![Recovery] = a]
    BY <1>1, <1>2 DEF LoadPending, Shape
  <2>2. a.at = "idle" /\ a.queued /\ a.count = 0
    BY DEF Idle
  <2> HIDE DEF a
  <2>3. attempt'[Recovery] = a /\ \A d \in Deliveries : attempt'[d] = attempt[d]
    BY <1>1, <2>1, RecoveryReassigned
  <2>4. \A i \in DOMAIN order : order[i] \in Deliveries
    BY <1>1 DEF Shape
  <2>5. /\ DOMAIN pending' = {j \in DOMAIN order : OnDisk(order[j])}
        /\ \A i \in DOMAIN pending' : pending'[i] = disk[order[i]]
        /\ pending' \in [DOMAIN pending' -> Nat]
    BY <1>1, <1>2, <2>4 DEF LoadPending, OnDisk, Shape
  <2>6. Loads
    BY <1>2, <2>2, <2>3, <2>5 DEF LoadPending, Loads
  <2> QED
    BY <2>6
<1>3. CASE BudgetExceeded
  <2>1. Rests
    BY <1>3, NonePendingFacts DEF BudgetExceeded, Rests
  <2> QED
    BY <2>1
<1>4. ASSUME NEW i \in DOMAIN order, LooksAt(i)
      PROVE  /\ DOMAIN pending' = DOMAIN pending \ {i}
             /\ \A j \in DOMAIN pending' : pending'[j] = pending[j]
             /\ pending' \in [DOMAIN pending' -> Nat]
             /\ i \in DOMAIN pending
             /\ attempt[Recovery].at = "idle" /\ attempt[Recovery].queued
             /\ UNCHANGED <<disk, failedDir, order, history>>
  BY <1>4 DEF LooksAt, BookInv
<1>5. ASSUME NEW i \in DOMAIN order, Defer(i)
      PROVE  Rests
  BY <1>4, <1>5 DEF Defer, Rests
<1>6. ASSUME NEW i \in DOMAIN order, NEW to \in {"sending", "moving"}, LooksAt(i),
             attempt' = [attempt EXCEPT ![Recovery] =
                           [Idle(order[i]) EXCEPT !.at = to, !.queued = TRUE]],
             to = "sending" => pending[i] < MaxRetries
      PROVE  Takes(i)
  <2> DEFINE a == [Idle(order[i]) EXCEPT !.at = to, !.queued = TRUE]
  <2>1. a.at = to /\ a.queued /\ a.of = order[i] /\ a.count = 0
    BY DEF Idle
  <2>2. attempt' = [attempt EXCEPT ![Recovery] = a]
    BY <1>6
  <2> HIDE DEF a
  <2>3. attempt'[Recovery] = a /\ \A d \in Deliveries : attempt'[d] = attempt[d]
    BY <1>1, <2>2, RecoveryReassigned
  <2> QED
    BY <1>4, <1>6, <2>1, <2>3 DEF Takes
<1>7. ASSUME NEW i \in DOMAIN order, GiveUp(i) \/ Replay(i)
      PROVE  i \in DOMAIN pending /\ Takes(i)
  BY <1>4, <1>6, <1>7 DEF GiveUp, Replay
<1> QED
  BY <1>2, <1>3, <1>5, <1>7 DEF Recover

LEMMA RestartRests ==
    ASSUME DeliveryInv, BookInv, RestartInProcess
    PROVE  Rests
<1>1. Shape /\ attempt[Recovery] \in AttemptShape
  BY DEF DeliveryInv, Shape
<1> DEFINE a == [attempt[Recovery] EXCEPT !.queued = FALSE]
<1>2. attempt' = [attempt EXCEPT ![Recovery] = a]
  BY DEF RestartInProcess
<1>3. a.at = attempt[Recovery].at /\ a.count = attempt[Recovery].count
  BY <1>1 DEF AttemptShape
<1> HIDE DEF a
<1>4. attempt'[Recovery] = a /\ \A d \in Deliveries : attempt'[d] = attempt[d]
  BY <1>1, <1>2, RecoveryReassigned
<1> QED
  BY <1>3, <1>4, NonePendingFacts DEF RestartInProcess, Rests

LEMMA CrashDies ==
    ASSUME DeliveryInv, Crash
    PROVE  Dies
<1>1. ASSUME NEW d \in Deliveries
      PROVE  \/ attempt'[d] = attempt[d] /\ attempt[d].at = "idle"
             \/ attempt'[d].at = "done" /\ ~attempt'[d].queued /\ attempt'[d].count = 0
  <2>1. CASE attempt[d].at = "idle"
    BY <2>1, RecoveryAssumption DEF Crash
  <2>2. CASE attempt[d].at # "idle"
    <3>1. attempt'[d] = [Idle(attempt[d].of) EXCEPT !.at = "done"]
      BY <2>2, RecoveryAssumption DEF Crash
    <3> QED
      BY <3>1 DEF Idle
  <2> QED
    BY <2>1, <2>2
<1>2. attempt'[Recovery] = [Idle(attempt[Recovery].of) EXCEPT !.at = "idle"]
  BY DEF Crash
<1>3. attempt'[Recovery].at = "idle" /\ attempt'[Recovery].count = 0
  BY <1>2 DEF Idle
<1> QED
  BY <1>1, <1>3, NonePendingFacts DEF Crash, Dies

LEMMA EnqueueAccepts ==
    ASSUME DeliveryInv, NEW d \in Deliveries, EnqueueDelivery(d)
    PROVE  Accepts(d)
<1>1. Shape /\ attempt[d] \in AttemptShape
  BY DEF DeliveryInv, Shape
<1> DEFINE a == [attempt[d] EXCEPT !.at = "sending", !.queued = TRUE]
<1>2. attempt' = [attempt EXCEPT ![d] = a]
  BY <1>1 DEF EnqueueDelivery, Shape
<1>3. a.at = "sending" /\ a.queued /\ a.count = attempt[d].count
  BY <1>1 DEF AttemptShape
<1> HIDE DEF a
<1>4. attempt'[d] = a /\ \A y \in Actors \ {d} : attempt'[y] = attempt[y]
  BY <1>1, <1>2, Reassigned
<1> QED
  BY <1>3, <1>4 DEF EnqueueDelivery, Accepts

LEMMA NextSteps ==
    ASSUME DeliveryInv, BookInv, Next
    PROVE  \/ \E x \in Actors : AttemptSteps(x) /\ Moves(x)
           \/ \E d \in Deliveries : EnqueueDelivery(d) /\ Accepts(d)
           \/ Rests \/ Loads \/ Dies
           \/ \E i \in DOMAIN pending : Takes(i)
<1>1. ASSUME NEW d \in Deliveries, Live(d)
      PROVE  AttemptSteps(d) \/ (EnqueueDelivery(d) /\ Accepts(d))
  BY <1>1, EnqueueAccepts DEF Live, AttemptSteps
<1>2. ASSUME NEW x \in Actors, Core(x) \/ Settle(x)
      PROVE  AttemptSteps(x)
  BY <1>2 DEF AttemptSteps
<1>3. CASE Recover
  <2>1. CASE MoveToFailed
    BY <2>1, StepsMove DEF AttemptSteps
  <2>2. CASE ~MoveToFailed
    BY <1>3, <2>2, RecoverSteps
  <2> QED
    BY <2>1, <2>2
<1> QED
  BY <1>1, <1>2, <1>3, StepsMove, RestartRests, CrashDies DEF Next

-----------------------------------------------------------------------------
(* The books. *)

LEMMA OrderGrows ==
    ASSUME Shape, NEW d \in Deliveries, order' = Append(order, d)
    PROVE  /\ DOMAIN order' = DOMAIN order \union {Len(order) + 1}
           /\ Len(order) + 1 \notin DOMAIN order
           /\ order'[Len(order) + 1] = d
           /\ \A i \in DOMAIN order : order'[i] = order[i]
           /\ \A e \in Deliveries : Accepted(e)' <=> Accepted(e) \/ e = d
<1>1. order \in Seq(Deliveries) /\ Len(order) \in Nat /\ DOMAIN order = 1..Len(order)
  BY DEF Shape
<1>2. /\ Append(order, d) \in Seq(Deliveries) /\ Len(Append(order, d)) = Len(order) + 1
      /\ \A i \in 1..Len(order) : Append(order, d)[i] = order[i]
      /\ Append(order, d)[Len(order) + 1] = d
  BY <1>1
<1>3. DOMAIN order' = 1..(Len(order) + 1)
  BY <1>2
<1>4. 1..(Len(order) + 1) = 1..Len(order) \union {Len(order) + 1} /\ Len(order) + 1 \notin 1..Len(order)
  BY <1>1
<1>5. /\ DOMAIN order' = DOMAIN order \union {Len(order) + 1} /\ Len(order) + 1 \notin DOMAIN order
      /\ order'[Len(order) + 1] = d /\ \A i \in DOMAIN order : order'[i] = order[i]
  BY <1>1, <1>2, <1>3, <1>4
<1> QED
  BY <1>5 DEF Accepted

LEMMA BookInit == Init => BookInv
<1> SUFFICES ASSUME Init PROVE BookInv
  OBVIOUS
<1>1. DeliveryInv
  BY DeliveryInit
<1>2. \A x \in Actors : attempt[x].at = "idle" /\ ~attempt[x].queued /\ attempt[x].count = 0
  BY DEF Init, Idle
<1>3. DOMAIN order = {}
  <2>1. <<>> \in Seq(Deliveries) /\ Len(<<>>) = 0
    OBVIOUS
  <2>2. order = <<>>
    BY DEF Init
  <2> QED
    BY <2>1, <2>2
<1>4. /\ pending = NonePending /\ aborted = {} /\ cutShort = {} /\ failedDir = {}
      /\ \A d \in Deliveries : disk[d] = NoFile
  BY DEF Init
<1> QED
  BY <1>2, <1>3, <1>4, NonePendingFacts DEF BookInv, Accepted, OnDisk, Busy

LEMMA BookNext == DeliveryInv /\ BookInv /\ [Next]_vars => BookInv'
<1> SUFFICES ASSUME DeliveryInv, BookInv, [Next]_vars PROVE BookInv'
  OBVIOUS
<1>1. CASE UNCHANGED vars
  BY <1>1 DEF vars, BookInv, Accepted, OnDisk, Recovers, history
<1>2. ASSUME NEW x \in Actors, Moves(x) PROVE BookInv'
  BY <1>2, MovesKeepBooks
<1>3. ASSUME NEW d \in Deliveries, Accepts(d) PROVE BookInv'
  <2>1. Shape /\ d # Recovery
    BY RecoveryAssumption DEF DeliveryInv
  <2>2. ~Accepted(d) /\ attempt'[Recovery] = attempt[Recovery]
    BY <1>3, <2>1 DEF Accepts, BookInv
  <2>3. /\ DOMAIN order' = DOMAIN order \union {Len(order) + 1}
        /\ Len(order) + 1 \notin DOMAIN order
        /\ order'[Len(order) + 1] = d
        /\ \A i \in DOMAIN order : order'[i] = order[i]
        /\ \A e \in Deliveries : Accepted(e)' <=> Accepted(e) \/ e = d
    BY <1>3, <2>1, OrderGrows DEF Accepts
  <2>4. \A i \in DOMAIN order : order[i] # d
    BY <2>2 DEF Accepted
  <2>5. \A e \in Deliveries : OnDisk(e)' <=> OnDisk(e) \/ e = d
    BY <1>3, <2>1, NoFileAssumption DEF Accepts, OnDisk, Shape
  <2>6. attempt[Recovery].of \in Deliveries
    BY <2>1 DEF Shape, AttemptShape
  <2>7. \A i, j \in DOMAIN order' : order'[i] = order'[j] => i = j
    BY <2>3, <2>4 DEF BookInv
  <2>8. ASSUME NEW e \in Deliveries
        PROVE  /\ attempt'[e].at \in {"idle", "writing"} => ~Accepted(e)' /\ ~attempt'[e].queued
               /\ attempt'[e].at # "moving"
               /\ attempt'[e].at \in Busy => (Accepted(e)' <=> attempt'[e].queued)
               /\ attempt'[e].at \in Busy \ {"sending"} => attempt'[e].queued
               /\ OnDisk(e)' \/ e \in failedDir' => Accepted(e)'
    <3>1. CASE e = d
      BY <1>3, <2>3, <3>1 DEF Accepts, Busy
    <3>2. CASE e # d
      BY <1>3, <2>3, <2>5, <3>2 DEF Accepts, BookInv
    <3> QED
      BY <3>1, <3>2
  <2>9. pending' = pending /\ aborted' = aborted /\ cutShort' = cutShort
    BY <1>3 DEF Accepts, history
  <2>10. attempt'[Recovery].at \in Busy =>
           attempt'[Recovery].queued /\ Accepted(attempt[Recovery].of)'
    BY <2>2, <2>3, <2>6 DEF BookInv
  <2>11. \A i \in DOMAIN pending' : attempt'[Recovery].queued /\ ~Recovers(order[i])'
    BY <2>2, <2>3, <2>9 DEF BookInv, Recovers
  <2>12. \A y \in Actors : attempt'[y].at # "rewriting" => attempt'[y].count = 0
    BY <1>3 DEF Accepts, BookInv
  <2> QED
    BY <2>2, <2>3, <2>7, <2>8, <2>9, <2>10, <2>11, <2>12 DEF BookInv
<1>4. CASE Rests
  BY <1>4 DEF Rests, BookInv, Accepted, OnDisk, Recovers, history, Busy
<1>5. CASE Loads
  <2>1. \A d \in Deliveries : (Accepted(d)' <=> Accepted(d)) /\ (OnDisk(d)' <=> OnDisk(d))
    BY <1>5 DEF Loads, Accepted, OnDisk
  <2>2. \A i \in DOMAIN pending' : attempt'[Recovery].queued /\ ~Recovers(order[i])'
    BY <1>5 DEF Loads, Recovers
  <2> QED
    BY <1>5, <2>1, <2>2 DEF Loads, BookInv, history, Busy
<1>6. CASE Dies
  <2>1. \A d \in Deliveries : (Accepted(d)' <=> Accepted(d)) /\ (OnDisk(d)' <=> OnDisk(d))
    BY <1>6 DEF Dies, Accepted, OnDisk
  <2>2. \A d \in Deliveries :
           /\ attempt'[d].at \in {"idle", "writing"} => ~Accepted(d)' /\ ~attempt'[d].queued
           /\ attempt'[d].at \notin Busy
    BY <1>6, <2>1 DEF Dies, BookInv, Busy
  <2>3. attempt'[Recovery].at = "idle" /\ DOMAIN pending' = {} /\ pending' \in [DOMAIN pending' -> Nat]
    BY <1>6 DEF Dies
  <2> QED
    BY <1>6, <2>1, <2>2, <2>3 DEF Dies, BookInv, history, Busy
<1>7. ASSUME NEW i \in DOMAIN pending, Takes(i) PROVE BookInv'
  <2>1. \A d \in Deliveries : (Accepted(d)' <=> Accepted(d)) /\ (OnDisk(d)' <=> OnDisk(d))
    BY <1>7 DEF Takes, Accepted, OnDisk
  <2>2. i \in DOMAIN order /\ order[i] \in Deliveries /\ Accepted(order[i])
    BY DEF BookInv, DeliveryInv, Shape, Accepted
  <2>3. \A j \in DOMAIN pending' : attempt'[Recovery].queued /\ ~Recovers(order[j])'
    BY <1>7, <2>2 DEF Takes, BookInv, Recovers
  <2>4. attempt'[Recovery].queued /\ Accepted(attempt[Recovery].of)'
    BY <1>7, <2>1, <2>2 DEF Takes, Accepted
  <2> QED
    BY <1>7, <2>1, <2>3, <2>4 DEF Takes, BookInv, history, Busy
<1> QED
  BY <1>1, <1>2, <1>3, <1>4, <1>5, <1>6, <1>7, NextSteps

-----------------------------------------------------------------------------
(* The retry limit.  A live attempt writes at most once, so a file has     *)
(* MAX_RETRIES retries at most while its live attempt may still write, and *)
(* one more afterwards.  What an attempt is about to write is bounded by   *)
(* what it has read and by what may have happened to the file since.       *)
Fresh(d) == attempt[d].queued /\ attempt[d].at \in {"sending", "acking", "failing"}

RetryInv(d) ==
    LET l == attempt[d]
        r == attempt[Recovery]
        spare == IF Fresh(d) THEN 1 ELSE 0
    IN /\ OnDisk(d) => disk[d] + spare <= MaxRetries + 1
       /\ Recovers(d) /\ r.at \in {"sending", "acking", "failing"} =>
            /\ OnDisk(d) => disk[d] + spare <= MaxRetries
            /\ l.at = "rewriting" => l.count <= MaxRetries
       /\ Recovers(d) /\ r.at = "rewriting" =>
            /\ r.count + spare <= MaxRetries + 1
            /\ Fresh(d) /\ OnDisk(d) => disk[d] <= r.count
            /\ l.at = "rewriting" => l.count <= r.count + 1
       /\ l.at = "rewriting" =>
            /\ l.count <= MaxRetries + 1
            /\ OnDisk(d) => l.count <= disk[d] + 1
       /\ \A i \in DOMAIN pending : order[i] = d =>
            /\ pending[i] <= MaxRetries + 1
            /\ OnDisk(d) => disk[d] + spare <= pending[i] + 1
            /\ l.at = "rewriting" => l.count <= pending[i] + 1

RetryInvs == \A d \in Deliveries : RetryInv(d)

(* What the invariants about one delivery are made of. *)
LEMMA Kinds ==
    ASSUME DeliveryInv, BookInv, NEW d \in Deliveries
    PROVE  /\ d # Recovery
           /\ OnDisk(d) => disk[d] \in Nat
           /\ attempt[d].count \in Nat /\ attempt[Recovery].count \in Nat
           /\ attempt[d].of = d
           /\ attempt[Recovery].of \in Deliveries
           /\ attempt[d].queued \in BOOLEAN
           /\ \A i \in DOMAIN pending : pending[i] \in Nat
           /\ MaxRetries \in Nat /\ MaxRetries >= 2
<1>1. d # Recovery /\ MaxRetries \in Nat /\ MaxRetries >= 2
  BY RecoveryAssumption, MaxRetriesAssumption
<1>2. OnDisk(d) => disk[d] \in Nat
  BY DEF DeliveryInv, Shape, OnDisk
<1>3. attempt[d] \in AttemptShape /\ attempt[Recovery] \in AttemptShape
  BY DEF DeliveryInv, Shape
<1>4. /\ attempt[d].count \in Nat /\ attempt[Recovery].count \in Nat
      /\ attempt[Recovery].of \in Deliveries
      /\ attempt[d].queued \in BOOLEAN
  BY <1>3 DEF AttemptShape
<1>5. attempt[d].of = d
  BY <1>1 DEF DeliveryInv, AttemptInv
<1>6. \A i \in DOMAIN pending : pending[i] \in Nat
  BY DEF BookInv
<1> QED
  BY <1>1, <1>2, <1>4, <1>5, <1>6

LEMMA RetryInit == Init => RetryInvs
<1> SUFFICES ASSUME Init PROVE RetryInvs
  OBVIOUS
<1>1. \A x \in Actors : attempt[x].at = "idle"
  BY DEF Init, Idle
<1>2. \A d \in Deliveries : ~OnDisk(d)
  BY DEF Init, OnDisk
<1>3. DOMAIN pending = {}
  BY NonePendingFacts DEF Init
<1> QED
  BY <1>1, <1>2, <1>3 DEF RetryInvs, RetryInv, Recovers

(* A step that leaves d alone: its file, its attempt, the recovery of it.  *)
LEMMA RetryUntouched ==
    ASSUME RetryInvs, NEW d \in Deliveries, attempt'[d] = attempt[d], disk'[d] = disk[d],
           UNCHANGED <<order, pending>>,
           \/ attempt'[Recovery] = attempt[Recovery]
           \/ ~Recovers(d) /\ ~Recovers(d)'
    PROVE  RetryInv(d)'
<1>1. RetryInv(d)
  BY DEF RetryInvs
<1> QED
  BY <1>1 DEF RetryInv, Recovers, Fresh, OnDisk

LEMMA MovesKeepRetries ==
    ASSUME DeliveryInv, BookInv, RetryInvs, NEW x \in Actors, Moves(x), DeliveryInv', BookInv'
    PROVE  RetryInvs'
<1> SUFFICES ASSUME NEW d \in Deliveries PROVE RetryInv(d)'
  BY DEF RetryInvs
<1> USE Kinds
<1>1. RetryInv(d)
  BY DEF RetryInvs
<1>2. order' = order /\ pending' = pending
  BY DEF Moves
<1>3. CASE attempt[x].of # d
  <2>1. attempt'[d] = attempt[d] /\ disk'[d] = disk[d]
    BY <1>3 DEF Moves, Kept
  <2>2. \/ attempt'[Recovery] = attempt[Recovery]
        \/ ~Recovers(d) /\ ~Recovers(d)'
    BY <1>3 DEF Moves, Recovers
  <2> QED
    BY <1>2, <2>1, <2>2, RetryUntouched
<1>4. CASE x = d
  <2>1. attempt'[Recovery] = attempt[Recovery] /\ attempt[x].of = d
    BY <1>4 DEF Moves
  <2>2. Recovers(d)' <=> Recovers(d)
    BY <2>1 DEF Recovers
  <2>3. attempt'[d].queued = attempt[d].queued
    BY <1>4 DEF Moves
  <2>4. CASE /\ disk'[d] = disk[d]
             /\ attempt'[d].at # "rewriting"
             /\ Fresh(d)' => Fresh(d)
    BY <1>1, <1>2, <2>1, <2>2, <2>4 DEF RetryInv, OnDisk
  <2>5. CASE disk'[d] = NoFile /\ attempt'[d].at = "done"
    BY <1>1, <1>2, <2>1, <2>2, <2>5 DEF RetryInv, OnDisk, Fresh
  <2>6. CASE /\ attempt[d].at = "failing" /\ attempt'[d].at = "rewriting" /\ OnDisk(d)
             /\ attempt'[d].count = disk[d] + 1 /\ disk'[d] = disk[d]
    <3>1. Fresh(d) /\ ~Fresh(d)' /\ (OnDisk(d)' <=> OnDisk(d))
      BY <2>6 DEF BookInv, Busy, Fresh, OnDisk
    <3> QED
      BY <1>1, <1>2, <2>1, <2>2, <2>6, <3>1 DEF RetryInv
  <2>7. CASE /\ attempt[d].at = "rewriting" /\ attempt'[d].at = "done"
             /\ disk'[d] = attempt[d].count
    <3>1. ~Fresh(d)'
      BY <2>7 DEF Fresh
    <3> QED
      BY <1>1, <1>2, <2>1, <2>2, <2>7, <3>1 DEF RetryInv
  <2>8. attempt[d].at = "writing" => ~attempt[d].queued
    BY DEF BookInv
  <2> QED
    BY <1>4, <2>1, <2>3, <2>4, <2>5, <2>6, <2>7, <2>8 DEF Moves, StageMove, Kept, Over, Fresh
<1>5. CASE x = Recovery /\ attempt[x].of = d
  <2>1. attempt'[d] = attempt[d] /\ attempt'[Recovery].of = d /\ Recovers(d)
    BY <1>5, StagesOfMoves DEF Moves, Recovers, Busy
  <2>2. Fresh(d)' <=> Fresh(d)
    BY <2>1 DEF Fresh
  <2>3. \A i \in DOMAIN pending : order[i] # d
    BY <2>1 DEF BookInv
  <2>4. Recovers(d)' <=> attempt'[Recovery].at # "idle"
    BY <2>1 DEF Recovers
  <2>5. CASE disk'[d] = disk[d] /\ attempt'[Recovery].at \in {"idle", "moving"}
    BY <1>1, <1>2, <2>1, <2>2, <2>3, <2>4, <2>5 DEF RetryInv, OnDisk
  <2>6. CASE disk'[d] = NoFile /\ attempt'[Recovery].at = "idle"
    BY <1>1, <1>2, <2>1, <2>2, <2>3, <2>4, <2>6 DEF RetryInv, OnDisk
  <2>7. CASE /\ disk'[d] = disk[d]
             /\ attempt[Recovery].at \in {"sending", "acking", "failing"}
             /\ attempt'[Recovery].at \in {"sending", "acking", "failing"}
    BY <1>1, <1>2, <2>1, <2>2, <2>3, <2>4, <2>7 DEF RetryInv, OnDisk
  <2>8. CASE /\ attempt[Recovery].at = "failing" /\ attempt'[Recovery].at = "rewriting" /\ OnDisk(d)
             /\ attempt'[Recovery].count = disk[d] + 1 /\ disk'[d] = disk[d]
    <3>1. OnDisk(d)'
      BY <2>8 DEF OnDisk
    <3> QED
      BY <1>1, <1>2, <2>1, <2>2, <2>3, <2>4, <2>8, <3>1 DEF RetryInv
  <2>9. CASE /\ attempt[Recovery].at = "rewriting" /\ attempt'[Recovery].at = "idle"
             /\ disk'[d] = attempt[Recovery].count
    BY <1>1, <1>2, <2>1, <2>2, <2>3, <2>4, <2>9 DEF RetryInv
  <2>10. StageMove(Recovery)
    BY <1>5 DEF Moves
  <2>11. attempt[Recovery].of = d /\ attempt[Recovery].queued
    BY <1>5, <2>1 DEF BookInv, Recovers, Busy
  <2> QED
    BY <2>5, <2>6, <2>7, <2>8, <2>9, <2>10, <2>11 DEF StageMove, Kept, Over
<1> QED
  BY <1>3, <1>4, <1>5 DEF DeliveryInv, AttemptInv

LEMMA RetryNext == DeliveryInv /\ BookInv /\ RetryInvs /\ [Next]_vars => RetryInvs'
<1> SUFFICES ASSUME DeliveryInv, BookInv, RetryInvs, [Next]_vars PROVE RetryInvs'
  OBVIOUS
<1>0. DeliveryInv' /\ BookInv'
  BY DeliveryNext, BookNext
<1>1. CASE UNCHANGED vars
  BY <1>1 DEF vars, RetryInvs, RetryInv, Recovers, Fresh, OnDisk
<1>2. ASSUME NEW x \in Actors, Moves(x) PROVE RetryInvs'
  BY <1>0, <1>2, MovesKeepRetries
<1>3. ASSUME NEW d \in Deliveries, Accepts(d) PROVE RetryInvs'
  <2>1. Shape /\ d # Recovery /\ attempt'[Recovery] = attempt[Recovery] /\ pending' = pending
    BY <1>3, RecoveryAssumption DEF DeliveryInv, Accepts
  <2>2. /\ \A i \in DOMAIN pending : order'[i] = order[i] /\ order[i] # d
        /\ ~Recovers(d)
    <3>1. ~Accepted(d)
      BY <1>3 DEF Accepts, BookInv
    <3>2. \A i \in DOMAIN order : order'[i] = order[i]
      BY <1>3, <2>1, OrderGrows DEF Accepts
    <3> QED
      BY <3>1, <3>2 DEF BookInv, Accepted, Recovers
  <2>3. ASSUME NEW e \in Deliveries PROVE RetryInv(e)'
    <3>1. CASE e = d
      <4>1. disk'[d] = 0 /\ attempt'[d].at = "sending"
        BY <1>3, <2>1 DEF Accepts, Shape
      <4>2. ~Recovers(d)' /\ \A i \in DOMAIN pending' : order'[i] # d
        BY <2>1, <2>2 DEF Recovers
      <4> QED
        BY <3>1, <4>1, <4>2, Kinds DEF RetryInv
    <3>2. CASE e # d
      <4>1. attempt'[e] = attempt[e] /\ disk'[e] = disk[e]
        BY <1>3, <2>1, <3>2 DEF Accepts, Shape
      <4>2. /\ RetryInv(e) /\ (Recovers(e)' <=> Recovers(e)) /\ (Fresh(e)' <=> Fresh(e))
            /\ OnDisk(e)' <=> OnDisk(e)
        BY <2>1, <4>1 DEF RetryInvs, Recovers, Fresh, OnDisk
      <4> QED
        BY <2>1, <2>2, <4>1, <4>2 DEF RetryInv
    <3> QED
      BY <3>1, <3>2
  <2> QED
    BY <2>3 DEF RetryInvs
<1>4. ASSUME Rests, NEW d \in Deliveries PROVE RetryInv(d)'
  <2>1. attempt'[d] = attempt[d] /\ disk' = disk /\ order' = order
    BY <1>4 DEF Rests
  <2>2. RetryInv(d) /\ ~Recovers(d)' /\ (Fresh(d)' <=> Fresh(d)) /\ (OnDisk(d)' <=> OnDisk(d))
    BY <1>4, <2>1 DEF RetryInvs, Recovers, Fresh, OnDisk, Rests
  <2>3. /\ DOMAIN pending' \subseteq DOMAIN pending
        /\ \A i \in DOMAIN pending' : pending'[i] = pending[i]
    BY <1>4 DEF Rests
  <2>4. \A i \in DOMAIN pending' : order[i] = d =>
           /\ pending'[i] <= MaxRetries + 1
           /\ OnDisk(d) => disk[d] + (IF Fresh(d) THEN 1 ELSE 0) <= pending'[i] + 1
           /\ attempt[d].at = "rewriting" => attempt[d].count <= pending'[i] + 1
    BY <2>2, <2>3 DEF RetryInv
  <2>5. /\ OnDisk(d) => disk[d] + (IF Fresh(d) THEN 1 ELSE 0) <= MaxRetries + 1
        /\ attempt[d].at = "rewriting" =>
             /\ attempt[d].count <= MaxRetries + 1
             /\ OnDisk(d) => attempt[d].count <= disk[d] + 1
    BY <2>2 DEF RetryInv
  <2> QED
    BY <2>1, <2>2, <2>4, <2>5 DEF RetryInv
<1>5. ASSUME Loads, NEW d \in Deliveries PROVE RetryInv(d)'
  <2>1. attempt'[d] = attempt[d] /\ disk' = disk /\ order' = order
    BY <1>5 DEF Loads
  <2>2. RetryInv(d) /\ ~Recovers(d)' /\ (Fresh(d)' <=> Fresh(d)) /\ (OnDisk(d)' <=> OnDisk(d))
    BY <1>5, <2>1 DEF RetryInvs, Recovers, Fresh, OnDisk, Loads
  <2>3. \A i \in DOMAIN pending' : order[i] = d => OnDisk(d) /\ pending'[i] = disk[d]
    BY <1>5 DEF Loads
  <2> QED
    BY <2>1, <2>2, <2>3, Kinds DEF RetryInv
<1>6. ASSUME Dies, NEW d \in Deliveries PROVE RetryInv(d)'
  <2>1. /\ disk' = disk /\ order' = order /\ DOMAIN pending' = {} /\ ~Recovers(d)'
        /\ attempt'[d].at # "rewriting" /\ ~Fresh(d)'
    BY <1>6 DEF Dies, Recovers, Fresh
  <2>2. RetryInv(d)
    BY DEF RetryInvs
  <2> QED
    BY <2>1, <2>2, Kinds DEF RetryInv, OnDisk
<1>7. ASSUME NEW i \in DOMAIN pending, Takes(i), NEW d \in Deliveries PROVE RetryInv(d)'
  <2>1. attempt'[d] = attempt[d] /\ disk' = disk /\ order' = order
    BY <1>7 DEF Takes
  <2>2. RetryInv(d) /\ (Fresh(d)' <=> Fresh(d)) /\ (OnDisk(d)' <=> OnDisk(d))
    BY <2>1 DEF RetryInvs, Fresh, OnDisk
  <2>3. CASE order[i] # d
    <3>1. ~Recovers(d)'
      BY <1>7, <2>3 DEF Takes, Recovers
    <3> QED
      BY <1>7, <2>1, <2>2, <3>1 DEF RetryInv, Takes
  <2>4. CASE order[i] = d
    <3>1. attempt'[Recovery].at \in {"sending", "moving"}
      BY <1>7 DEF Takes
    <3>2. attempt'[Recovery].at = "sending" => pending[i] < MaxRetries
      BY <1>7 DEF Takes
    <3>3. \A j \in DOMAIN pending' : order[j] # d
      BY <1>7, <2>4 DEF Takes, BookInv
    <3>4. /\ OnDisk(d) => disk[d] + (IF Fresh(d) THEN 1 ELSE 0) <= pending[i] + 1
          /\ attempt[d].at = "rewriting" => attempt[d].count <= pending[i] + 1
      BY <2>2, <2>4 DEF RetryInv
    <3> QED
      BY <2>1, <2>2, <3>1, <3>2, <3>3, <3>4, Kinds DEF RetryInv
  <2> QED
    BY <2>3, <2>4
<1> QED
  BY <1>1, <1>2, <1>3, <1>4, <1>5, <1>6, <1>7, NextSteps DEF RetryInvs

-----------------------------------------------------------------------------
(* Where the recovery loads no entry that is in progress, a file has one   *)
(* writer at a time: the live attempt, from the enqueue until it settles,  *)
(* and afterwards the recovery.                                            *)
OwnInv(d) ==
    LET l == attempt[d]
        r == attempt[Recovery]
    IN /\ Engaged(d) => OnDisk(d) /\ disk[d] = 0 /\ ~Recovers(d)
       /\ l.at = "rewriting" => l.count <= 1
       /\ OnDisk(d) => d \notin failedDir /\ disk[d] <= MaxRetries
       /\ Recovers(d) =>
            /\ OnDisk(d)
            /\ r.at \in {"sending", "acking", "failing"} => disk[d] < MaxRetries
            /\ r.at = "rewriting" => r.count <= MaxRetries
       /\ \A i \in DOMAIN pending :
            order[i] = d => OnDisk(d) /\ pending[i] = disk[d] /\ ~Engaged(d)

OwnInvs == \A d \in Deliveries : OwnInv(d)

LEMMA OwnInit == Init => OwnInvs
<1> SUFFICES ASSUME Init PROVE OwnInvs
  OBVIOUS
<1>1. \A x \in Actors : attempt[x].at = "idle"
  BY DEF Init, Idle
<1>2. \A d \in Deliveries : ~OnDisk(d)
  BY DEF Init, OnDisk
<1>3. DOMAIN pending = {}
  BY NonePendingFacts DEF Init
<1> QED
  BY <1>1, <1>2, <1>3 DEF OwnInvs, OwnInv, Engaged, Busy, Recovers

(* A step that leaves d alone. *)
LEMMA OwnUntouched ==
    ASSUME OwnInvs, NEW d \in Deliveries, attempt'[d] = attempt[d], disk'[d] = disk[d],
           d \in failedDir' => d \in failedDir,
           UNCHANGED <<order, pending>>,
           \/ attempt'[Recovery] = attempt[Recovery]
           \/ ~Recovers(d) /\ ~Recovers(d)'
    PROVE  OwnInv(d)'
<1>1. OwnInv(d)
  BY DEF OwnInvs
<1> QED
  BY <1>1 DEF OwnInv, Recovers, Engaged, OnDisk

LEMMA MovesKeepOwners ==
    ASSUME DeliveryInv, BookInv, OwnInvs, NEW x \in Actors, Moves(x)
    PROVE  OwnInvs'
<1> SUFFICES ASSUME NEW d \in Deliveries PROVE OwnInv(d)'
  BY DEF OwnInvs
<1>1. OwnInv(d)
  BY DEF OwnInvs
<1>2. order' = order /\ pending' = pending
  BY DEF Moves
<1>3. CASE attempt[x].of # d
  <2>1. attempt'[d] = attempt[d] /\ disk'[d] = disk[d]
    BY <1>3, Kinds DEF Moves, Kept
  <2>2. \/ attempt'[Recovery] = attempt[Recovery]
        \/ ~Recovers(d) /\ ~Recovers(d)'
    BY <1>3 DEF Moves, Recovers
  <2>3. d \in failedDir' => d \in failedDir
    BY <1>3 DEF Moves
  <2> QED
    BY <1>2, <2>1, <2>2, <2>3, OwnUntouched
<1>4. CASE x = d
  <2>1. /\ attempt'[Recovery] = attempt[Recovery] /\ attempt[x].of = d
        /\ attempt'[d].queued = attempt[d].queued
        /\ attempt[d].at # "moving" /\ StageMove(d)
    BY <1>4, Kinds DEF Moves, BookInv
  <2>2. (Recovers(d)' <=> Recovers(d)) /\ (d \in failedDir' => d \in failedDir)
    BY <1>4, <2>1 DEF Recovers, Moves
  <2>3. /\ attempt[d].at = "writing" => ~attempt[d].queued
        /\ attempt[d].at \in Busy \ {"sending"} => attempt[d].queued
    BY DEF BookInv
  <2>4. CASE /\ disk'[d] = disk[d] /\ attempt'[d].at # "rewriting"
             /\ Engaged(d)' => Engaged(d)
    BY <1>1, <1>2, <2>1, <2>2, <2>4 DEF OwnInv, OnDisk
  <2>5. CASE attempt[d].at \in {"acking", "rewriting"} /\ attempt'[d].at = "done"
             /\ (disk'[d] = NoFile \/ (attempt[d].at = "rewriting" /\ disk'[d] = attempt[d].count))
    <3>1. Engaged(d) /\ ~Engaged(d)'
      BY <2>3, <2>5 DEF Engaged, Busy
    <3>2. attempt[d].at = "rewriting" => attempt[d].count <= MaxRetries
      BY <1>1, Kinds DEF OwnInv
    <3>3. d \notin failedDir /\ ~Recovers(d) /\ \A i \in DOMAIN pending : order[i] # d
      BY <1>1, <3>1 DEF OwnInv
    <3> QED
      BY <1>2, <2>2, <2>5, <3>1, <3>2, <3>3 DEF OwnInv, OnDisk
  <2>6. CASE /\ attempt[d].at = "failing" /\ attempt'[d].at = "rewriting" /\ OnDisk(d)
             /\ attempt'[d].count = disk[d] + 1 /\ disk'[d] = disk[d]
    <3>1. Engaged(d) /\ Engaged(d)'
      BY <2>1, <2>3, <2>6 DEF Engaged, Busy
    <3>2. attempt'[d].count <= 1
      BY <1>1, <2>6, <3>1 DEF OwnInv
    <3> QED
      BY <1>1, <1>2, <2>1, <2>2, <2>6, <3>1, <3>2 DEF OwnInv, OnDisk
  <2> QED
    BY <1>4, <2>1, <2>3, <2>4, <2>5, <2>6, Kinds DEF StageMove, Kept, Over, Engaged, Busy
<1>5. CASE x = Recovery /\ attempt[x].of = d
  <2>1. attempt'[d] = attempt[d] /\ attempt'[Recovery].of = d /\ Recovers(d)
    BY <1>5, StagesOfMoves, Kinds DEF Moves, Recovers, Busy
  <2>2. ~Engaged(d)' /\ attempt'[d].at # "rewriting"
    BY <1>1, <2>1 DEF Engaged, OwnInv, BookInv, Busy
  <2>3. \A i \in DOMAIN pending : order[i] # d
    BY <2>1 DEF BookInv
  <2>4. /\ Recovers(d)' <=> attempt'[Recovery].at # "idle"
        /\ attempt[Recovery].queued /\ StageMove(Recovery)
    BY <1>5, <2>1 DEF Recovers, BookInv, Busy, Moves
  <2>5. OnDisk(d) /\ d \notin failedDir /\ disk[d] <= MaxRetries
    BY <1>1, <2>1 DEF OwnInv
  <2>6. d \in failedDir' => disk'[d] = NoFile
    BY <2>5 DEF Moves
  <2>7. CASE /\ disk'[d] = disk[d] /\ attempt'[Recovery].at # "rewriting"
             /\ attempt'[Recovery].at \in {"sending", "acking", "failing"} =>
                  attempt[Recovery].at \in {"sending", "acking", "failing"}
    BY <1>1, <1>2, <2>1, <2>2, <2>3, <2>4, <2>5, <2>6, <2>7 DEF OwnInv, OnDisk
  <2>8. CASE disk'[d] = NoFile /\ attempt'[Recovery].at = "idle"
    BY <1>2, <2>2, <2>3, <2>4, <2>8 DEF OwnInv, OnDisk
  <2>9. CASE /\ attempt[Recovery].at = "failing" /\ attempt'[Recovery].at = "rewriting"
             /\ attempt'[Recovery].count = disk[d] + 1 /\ disk'[d] = disk[d]
    <3>1. disk[d] < MaxRetries /\ disk[d] \in Nat
      BY <1>1, <2>1, <2>5, <2>9, Kinds DEF OwnInv
    <3>2. attempt'[Recovery].count <= MaxRetries
      BY <2>9, <3>1, Kinds
    <3> QED
      BY <1>2, <2>2, <2>3, <2>5, <2>6, <2>9, <3>2 DEF OwnInv, OnDisk
  <2>10. CASE /\ attempt[Recovery].at = "rewriting" /\ attempt'[Recovery].at = "idle"
              /\ disk'[d] = attempt[Recovery].count
    <3>1. disk'[d] <= MaxRetries
      BY <1>1, <2>1, <2>10 DEF OwnInv
    <3>2. d \notin failedDir'
      BY <2>5, <2>10 DEF Moves
    <3> QED
      BY <1>2, <2>2, <2>3, <2>4, <2>10, <3>1, <3>2 DEF OwnInv
  <2> QED
    BY <1>5, <2>4, <2>7, <2>8, <2>9, <2>10 DEF StageMove, Kept, Over
<1> QED
  BY <1>3, <1>4, <1>5 DEF DeliveryInv, AttemptInv

LEMMA OwnNext ==
    ASSUME ~LoadSeesLive, DeliveryInv, BookInv, OwnInvs, [Next]_vars
    PROVE  OwnInvs'
<1>1. CASE UNCHANGED vars
  BY <1>1 DEF vars, OwnInvs, OwnInv, Recovers, Engaged, OnDisk
<1>2. ASSUME NEW x \in Actors, Moves(x) PROVE OwnInvs'
  BY <1>2, MovesKeepOwners
<1>3. ASSUME NEW d \in Deliveries, Accepts(d), NEW e \in Deliveries PROVE OwnInv(e)'
  <2>1. /\ Shape /\ d # Recovery /\ attempt'[Recovery] = attempt[Recovery]
        /\ pending' = pending /\ failedDir' = failedDir
    BY <1>3, RecoveryAssumption DEF DeliveryInv, Accepts
  <2>2. ~Accepted(d)
    BY <1>3 DEF Accepts, BookInv
  <2>3. \A i \in DOMAIN pending : i \in DOMAIN order /\ order'[i] = order[i]
    BY <1>3, <2>1, OrderGrows DEF Accepts, BookInv
  <2>4. CASE e = d
    <3>1. disk'[d] = 0 /\ attempt'[d].at = "sending"
      BY <1>3, <2>1 DEF Accepts, Shape
    <3>2. ~Recovers(d)' /\ d \notin failedDir'
      BY <2>1, <2>2 DEF BookInv, Recovers
    <3>3. \A i \in DOMAIN pending' : order'[i] # d
      BY <2>1, <2>2, <2>3 DEF Accepted
    <3> QED
      BY <2>4, <3>1, <3>2, <3>3, Kinds, NoFileAssumption DEF OwnInv, OnDisk
  <2>5. CASE e # d
    <3>1. attempt'[e] = attempt[e] /\ disk'[e] = disk[e]
      BY <1>3, <2>1, <2>5 DEF Accepts, Shape
    <3>2. /\ OwnInv(e) /\ (Recovers(e)' <=> Recovers(e)) /\ (Engaged(e)' <=> Engaged(e))
          /\ OnDisk(e)' <=> OnDisk(e)
      BY <2>1, <3>1 DEF OwnInvs, Recovers, Engaged, OnDisk
    <3> QED
      BY <2>1, <2>3, <3>1, <3>2 DEF OwnInv
  <2> QED
    BY <2>4, <2>5
<1>4. ASSUME Rests, NEW d \in Deliveries PROVE OwnInv(d)'
  <2>1. /\ attempt'[d] = attempt[d] /\ disk' = disk /\ order' = order /\ failedDir' = failedDir
        /\ DOMAIN pending' \subseteq DOMAIN pending
        /\ \A i \in DOMAIN pending' : pending'[i] = pending[i]
    BY <1>4 DEF Rests
  <2>2. /\ OwnInv(d) /\ ~Recovers(d)' /\ (Engaged(d)' <=> Engaged(d))
        /\ OnDisk(d)' <=> OnDisk(d)
    BY <1>4, <2>1 DEF OwnInvs, Recovers, Engaged, OnDisk, Rests
  <2>3. \A i \in DOMAIN pending' :
          order[i] = d => OnDisk(d) /\ pending'[i] = disk[d] /\ ~Engaged(d)
    BY <2>1, <2>2 DEF OwnInv
  <2> QED
    BY <2>1, <2>2, <2>3 DEF OwnInv
<1>5. ASSUME Loads, NEW d \in Deliveries PROVE OwnInv(d)'
  <2>1. /\ attempt'[d] = attempt[d] /\ disk' = disk /\ order' = order /\ failedDir' = failedDir
        /\ OwnInv(d)
    BY <1>5 DEF Loads, OwnInvs
  <2>2. ~Engaged(d)' /\ ~Recovers(d)' /\ (OnDisk(d)' <=> OnDisk(d))
    BY <1>5, <2>1 DEF Loads, InProgress, Engaged, Busy, Recovers, OnDisk
  <2>3. \A i \in DOMAIN pending' : order[i] = d => OnDisk(d) /\ pending'[i] = disk[d]
    BY <1>5 DEF Loads
  <2> QED
    BY <2>1, <2>2, <2>3 DEF OwnInv
<1>6. ASSUME Dies, NEW d \in Deliveries PROVE OwnInv(d)'
  <2>1. /\ disk' = disk /\ order' = order /\ DOMAIN pending' = {} /\ ~Recovers(d)'
        /\ attempt'[d].at # "rewriting" /\ ~Engaged(d)' /\ failedDir' = failedDir
    BY <1>6 DEF Dies, Recovers, Engaged, Busy
  <2> QED
    BY <2>1 DEF OwnInvs, OwnInv, OnDisk
<1>7. ASSUME NEW i \in DOMAIN pending, Takes(i), NEW d \in Deliveries PROVE OwnInv(d)'
  <2>1. /\ attempt'[d] = attempt[d] /\ disk' = disk /\ order' = order /\ failedDir' = failedDir
        /\ DOMAIN pending' = DOMAIN pending \ {i}
        /\ \A j \in DOMAIN pending' : pending'[j] = pending[j]
    BY <1>7 DEF Takes
  <2>2. OwnInv(d) /\ (Engaged(d)' <=> Engaged(d)) /\ (OnDisk(d)' <=> OnDisk(d))
    BY <2>1 DEF OwnInvs, Engaged, OnDisk
  <2>3. \A j \in DOMAIN pending' :
          order[j] = d => OnDisk(d) /\ pending'[j] = disk[d] /\ ~Engaged(d)
    BY <2>1, <2>2 DEF OwnInv
  <2>4. CASE order[i] # d
    <3>1. ~Recovers(d)'
      BY <1>7, <2>4 DEF Takes, Recovers
    <3> QED
      BY <2>1, <2>2, <2>3, <3>1 DEF OwnInv
  <2>5. CASE order[i] = d
    <3>1. attempt'[Recovery].at \in {"sending", "moving"}
      BY <1>7 DEF Takes
    <3>2. attempt'[Recovery].at = "sending" => disk[d] < MaxRetries
      BY <1>7, <2>2, <2>5 DEF Takes, OwnInv
    <3>3. OnDisk(d) /\ ~Engaged(d)
      BY <2>2, <2>5 DEF OwnInv
    <3> QED
      BY <2>1, <2>2, <2>3, <3>1, <3>2, <3>3 DEF OwnInv
  <2> QED
    BY <2>4, <2>5
<1> QED
  BY <1>1, <1>2, <1>3, <1>4, <1>5, <1>6, <1>7, NextSteps DEF OwnInvs

-----------------------------------------------------------------------------
(* TypeOK, the retry limit included, whether or not the recovery may load  *)
(* a delivery in progress: then a file has at most MAX_RETRIES retries and *)
(* one of the live attempt, and otherwise at most MAX_RETRIES.             *)

QueueInv == DeliveryInv /\ BookInv /\ RetryInvs /\ (~LoadSeesLive => OwnInvs)

LEMMA QueueInit == Init => QueueInv
BY DeliveryInit, BookInit, RetryInit, OwnInit DEF QueueInv

LEMMA QueueNext == QueueInv /\ [Next]_vars => QueueInv'
BY DeliveryNext, BookNext, RetryNext, OwnNext DEF QueueInv

LEMMA RetriesLimited ==
    ASSUME QueueInv
    PROVE  /\ \A d \in Deliveries : OnDisk(d) => disk[d] \in 0..RetryLimit
           /\ \A x \in Actors : attempt[x].count \in 0..RetryLimit
           /\ \A i \in DOMAIN pending : pending[i] \in 0..RetryLimit
<1>1. ASSUME NEW d \in Deliveries, OnDisk(d) PROVE disk[d] <= RetryLimit
  BY <1>1, Kinds DEF QueueInv, RetryInvs, RetryInv, OwnInvs, OwnInv, RetryLimit
<1>2. ASSUME NEW d \in Deliveries PROVE attempt[d].count <= RetryLimit
  <2>1. attempt[d].at # "rewriting" => attempt[d].count = 0
    BY DEF QueueInv, BookInv
  <2>2. attempt[d].at = "rewriting" =>
          attempt[d].count <= MaxRetries + 1 /\ (~LoadSeesLive => attempt[d].count <= 1)
    BY DEF QueueInv, RetryInvs, RetryInv, OwnInvs, OwnInv
  <2> QED
    BY <2>1, <2>2, Kinds DEF QueueInv, RetryLimit
<1>3. attempt[Recovery].count <= RetryLimit
  <2>1. attempt[Recovery].at # "rewriting" => attempt[Recovery].count = 0
    BY DEF QueueInv, BookInv
  <2>2. attempt[Recovery].of \in Deliveries
    BY DEF QueueInv, DeliveryInv, Shape, AttemptShape
  <2>3. ASSUME attempt[Recovery].at = "rewriting"
        PROVE  /\ attempt[Recovery].count <= MaxRetries + 1
               /\ ~LoadSeesLive => attempt[Recovery].count <= MaxRetries
    <3> DEFINE d == attempt[Recovery].of
    <3>1. Recovers(d) /\ d \in Deliveries
      BY <2>2, <2>3 DEF Recovers
    <3>2. attempt[Recovery].count + (IF Fresh(d) THEN 1 ELSE 0) <= MaxRetries + 1
      BY <2>3, <3>1 DEF QueueInv, RetryInvs, RetryInv
    <3>3. ~LoadSeesLive => attempt[Recovery].count <= MaxRetries
      BY <2>3, <3>1 DEF QueueInv, OwnInvs, OwnInv
    <3> HIDE DEF d
    <3> QED
      BY <3>1, <3>2, <3>3, Kinds DEF QueueInv
  <2> QED
    BY <2>1, <2>2, <2>3, Kinds DEF QueueInv, RetryLimit
<1>4. ASSUME NEW i \in DOMAIN pending PROVE pending[i] <= RetryLimit
  <2> DEFINE d == order[i]
  <2>1. d \in Deliveries /\ pending[i] \in Nat
    BY DEF QueueInv, BookInv, DeliveryInv, Shape
  <2>2. pending[i] <= MaxRetries + 1
    BY <2>1 DEF QueueInv, RetryInvs, RetryInv
  <2>3. ~LoadSeesLive => OnDisk(d) /\ pending[i] = disk[d]
    BY <2>1 DEF QueueInv, OwnInvs, OwnInv
  <2> QED
    BY <1>1, <2>1, <2>2, <2>3, Kinds DEF QueueInv, RetryLimit
<1>5. /\ \A d \in Deliveries : OnDisk(d) => disk[d] \in Nat
      /\ \A x \in Actors : attempt[x].count \in Nat
      /\ \A i \in DOMAIN pending : pending[i] \in Nat
  BY DEF QueueInv, DeliveryInv, Shape, AttemptShape, BookInv, OnDisk
<1>6. RetryLimit \in Nat
  BY MaxRetriesAssumption DEF RetryLimit
<1> QED
  BY <1>1, <1>2, <1>3, <1>4, <1>5, <1>6

LEMMA QueueTypes == QueueInv => TypeOK
<1> SUFFICES ASSUME QueueInv PROVE TypeOK
  OBVIOUS
<1>1. Shape /\ aborted \subseteq Deliveries /\ cutShort \subseteq Deliveries
  BY DEF QueueInv, DeliveryInv, BookInv
<1>2. disk \in [Deliveries -> (0..RetryLimit) \union {NoFile}]
  BY <1>1, RetriesLimited DEF Shape, OnDisk
<1>3. attempt \in [Actors -> Attempts]
  <2>1. ASSUME NEW x \in Actors PROVE attempt[x] \in Attempts
    BY <1>1, RetriesLimited DEF Shape, AttemptShape, Stages, Attempts
  <2> QED
    BY <1>1, <2>1 DEF Shape
<1>4. DOMAIN pending \subseteq DOMAIN order /\ pending \in [DOMAIN pending -> 0..RetryLimit]
  BY RetriesLimited DEF QueueInv, BookInv
<1> QED
  BY <1>1, <1>2, <1>3, <1>4 DEF TypeOK, Shape

(* Every state is well typed, and no entry is written with more retries    *)
(* than RetryLimit.                                                        *)
THEOREM RetriesAreBounded == Spec => []TypeOK
BY QueueInit, QueueNext, QueueTypes, PTL DEF Spec

-----------------------------------------------------------------------------
(* Where the recovery loads no entry in progress. *)

LEMMA EntryIsThere ==
    ASSUME ~LoadSeesLive, QueueInv, NEW x \in Actors, attempt[x].at \in Busy, attempt[x].queued
    PROVE  OnDisk(attempt[x].of) /\ Accepted(attempt[x].of) /\ attempt[x].of \notin failedDir
<1>1. attempt[x].of \in Deliveries /\ (x # Recovery => attempt[x].of = x)
  BY DEF QueueInv, DeliveryInv, Shape, AttemptShape, AttemptInv
<1>2. OwnInv(attempt[x].of)
  BY <1>1 DEF QueueInv, OwnInvs
<1>3. OnDisk(attempt[x].of)
  <2>1. CASE x = Recovery
    <3>1. Recovers(attempt[x].of)
      BY <2>1 DEF Recovers, Busy
    <3> QED
      BY <1>2, <3>1 DEF OwnInv
  <2>2. CASE x # Recovery
    <3>1. Engaged(attempt[x].of)
      BY <1>1, <2>2 DEF Engaged
    <3> QED
      BY <1>2, <3>1 DEF OwnInv
  <2> QED
    BY <2>1, <2>2
<1> QED
  BY <1>1, <1>2, <1>3 DEF OwnInv, QueueInv, BookInv

(* Write-ahead: no attempt sends a payload of an entry that has left the   *)
(* disk, so that no crash under a send goes unnoticed and nothing that was *)
(* settled is sent again.                                                  *)
THEOREM SendsAreWrittenAhead ==
    ASSUME ~LoadSeesLive
    PROVE  Spec => []WriteAhead
<1>1. QueueInv => WriteAhead
  <2> SUFFICES ASSUME QueueInv, NEW x \in Actors, Sending(x), attempt[x].queued
               PROVE  OnDisk(attempt[x].of)
    BY DEF WriteAhead
  <2> QED
    BY EntryIsThere DEF Sending, Busy
<1> QED
  BY <1>1, QueueInit, QueueNext, PTL DEF Spec

-----------------------------------------------------------------------------
(* The refinement of Outbox.  A step is seen as a payload handed over, an  *)
(* entry accepted or an entry settled; every other step is a stutter.      *)

OutcomeBar == [d \in Deliveries |-> Outcome(d)]
HandedBar == [d \in Deliveries |-> handed[d] \union waived[d]]

LEMMA SameOutcomes ==
    ASSUME UNCHANGED <<disk, failedDir, order, aborted, cutShort>>
    PROVE  OutcomeBar' = OutcomeBar
BY DEF OutcomeBar, Outcome, Accepted, OnDisk

LEMMA SameHanded ==
    ASSUME UNCHANGED <<handed, waived>>
    PROVE  HandedBar' = HandedBar
BY DEF HandedBar

LEMMA PromiseInit == Init => Promise!Init
<1> SUFFICES ASSUME Init PROVE Promise!Init
  OBVIOUS
<1>1. DOMAIN order = {}
  <2>1. <<>> \in Seq(Deliveries) /\ Len(<<>>) = 0
    OBVIOUS
  <2>2. order = <<>>
    BY DEF Init
  <2> QED
    BY <2>1, <2>2
<1>2. \A d \in Deliveries : Outcome(d) = "none"
  BY <1>1 DEF Outcome, Accepted
<1> QED
  BY <1>2 DEF Init, Promise!Init

(* The attempt that is about to send has an entry that is owed, or none.   *)
LEMMA SendingIsOpen ==
    ASSUME ~LoadSeesLive, QueueInv, NEW x \in Actors, Sending(x)
    PROVE  attempt[x].of \in Deliveries /\ Outcome(attempt[x].of) \in {"none", "owed"}
<1>1. attempt[x].of \in Deliveries /\ (x # Recovery => attempt[x].of = x)
  BY DEF QueueInv, DeliveryInv, Shape, AttemptShape, AttemptInv
<1>2. CASE attempt[x].queued
  BY <1>1, <1>2, EntryIsThere DEF Sending, Busy, Outcome
<1>3. CASE ~attempt[x].queued
  <2>1. x # Recovery /\ ~Accepted(x)
    BY <1>1, <1>3 DEF QueueInv, BookInv, Sending, Busy
  <2> QED
    BY <1>1, <2>1 DEF Outcome
<1> QED
  BY <1>1, <1>2, <1>3

LEMMA HandingIsHand ==
    ASSUME ~LoadSeesLive, QueueInv, NEW x \in Actors, SendPayload(x) \/ PassOver(x)
    PROVE  [Promise!Next]_(Promise!outboxVars)
<1> DEFINE d == attempt[x].of
           p == attempt[x].next
<1>1. /\ Sending(x) /\ p \in AllPayloads /\ d \in Deliveries /\ Outcome(d) \in {"none", "owed"}
      /\ Shape
  <2>1. attempt[x] \in AttemptShape /\ Sending(x) /\ p <= Payloads
    BY DEF QueueInv, DeliveryInv, Shape, SendPayload, PassOver
  <2>2. p \in AllPayloads
    BY <2>1, PayloadsAssumption DEF AttemptShape, AllPayloads
  <2> QED
    BY <2>1, <2>2, SendingIsOpen DEF QueueInv, DeliveryInv
<1>2. OutcomeBar' = OutcomeBar
  BY SameOutcomes DEF SendPayload, PassOver
<1>3. \/ HandedBar' = [HandedBar EXCEPT ![d] = @ \union {p}]
      \/ HandedBar' = HandedBar
  <2>1. CASE SendPayload(x)
    <3>1. handed' = [handed EXCEPT ![d] = @ \union {p}] /\ waived' = waived
      BY <2>1 DEF SendPayload
    <3> HIDE DEF d, p
    <3>2. \A e \in Deliveries : handed'[e] \union waived'[e] =
             IF e = d THEN (handed[e] \union waived[e]) \union {p} ELSE handed[e] \union waived[e]
      BY <1>1, <3>1 DEF Shape
    <3> QED
      BY <1>1, <3>2 DEF HandedBar
  <2>2. CASE PassOver(x) /\ x \in Watched
    BY <2>2, SameHanded DEF PassOver
  <2>3. CASE PassOver(x) /\ x \notin Watched
    <3>1. waived' = [waived EXCEPT ![d] = @ \union {p}] /\ handed' = handed
      BY <2>3 DEF PassOver
    <3> HIDE DEF d, p
    <3>2. \A e \in Deliveries : handed'[e] \union waived'[e] =
             IF e = d THEN (handed[e] \union waived[e]) \union {p} ELSE handed[e] \union waived[e]
      BY <1>1, <3>1 DEF Shape
    <3> QED
      BY <1>1, <3>2 DEF HandedBar
  <2> QED
    BY <2>1, <2>2, <2>3
<1>4. CASE HandedBar' = [HandedBar EXCEPT ![d] = @ \union {p}]
  <2>1. PICK e \in Deliveries, q \in AllPayloads : e = d /\ q = p
    BY <1>1
  <2>2. Promise!Hand(e, q)
    BY <1>1, <1>2, <1>4, <2>1 DEF Promise!Hand, OutcomeBar, HandedBar
  <2>3. Promise!Next
    BY <2>2 DEF Promise!Next
  <2> QED
    BY <2>3
<1>5. CASE HandedBar' = HandedBar
  BY <1>2, <1>5 DEF Promise!outboxVars, OutcomeBar, HandedBar
<1> QED
  BY <1>3, <1>4, <1>5

LEMMA EnqueueIsAccept ==
    ASSUME QueueInv, NEW d \in Deliveries, EnqueueDelivery(d)
    PROVE  Promise!Accept(d)
<1>1. Accepts(d) /\ Shape
  BY EnqueueAccepts DEF QueueInv, DeliveryInv
<1>2. ~Accepted(d)
  BY <1>1 DEF QueueInv, BookInv, Accepts
<1>3. \A e \in Deliveries : Accepted(e)' <=> Accepted(e) \/ e = d
  BY <1>1, OrderGrows DEF Accepts
<1>4. OnDisk(d)' /\ \A e \in Deliveries \ {d} : OnDisk(e)' <=> OnDisk(e)
  BY <1>1, NoFileAssumption DEF Accepts, OnDisk, Shape
<1>5. UNCHANGED <<failedDir, handed, waived, aborted, cutShort>>
  BY <1>1 DEF Accepts, history
<1>6. Outcome(d) = "none" /\ Outcome(d)' = "owed"
  BY <1>2, <1>3, <1>4 DEF Outcome
<1>7. \A e \in Deliveries \ {d} : Outcome(e)' = Outcome(e)
  BY <1>3, <1>4, <1>5 DEF Outcome
<1>8. OutcomeBar' = [OutcomeBar EXCEPT ![d] = "owed"] /\ HandedBar' = HandedBar
  BY <1>5, <1>6, <1>7, SameHanded DEF OutcomeBar
<1> QED
  BY <1>6, <1>8 DEF Promise!Accept, OutcomeBar, HandedBar

Settlements == {"delivered", "failed", "aborted", "cutShort"}

(* The entry of d is removed: what has become of d is settled.             *)
LEMMA RemovalIsSettle ==
    ASSUME QueueInv, NEW d \in Deliveries, NEW o \in Settlements,
           Outcome(d) = "owed", Outcome(d)' = o,
           o = "delivered" => handed[d] \union waived[d] = AllPayloads,
           \A e \in Deliveries \ {d} : Outcome(e)' = Outcome(e),
           UNCHANGED <<handed, waived>>
    PROVE  Promise!Next
<1>1. OutcomeBar' = [OutcomeBar EXCEPT ![d] = o] /\ HandedBar' = HandedBar
  BY SameHanded DEF OutcomeBar
<1>2. Promise!Settle(d, o)
  BY <1>1 DEF Promise!Settle, Settlements, OutcomeBar, HandedBar
<1> QED
  BY <1>2 DEF Promise!Next, Promise!Outcomes, Settlements

LEMMA AckIsSettle ==
    ASSUME ~LoadSeesLive, QueueInv, NEW x \in Actors, AckDelivery(x)
    PROVE  Promise!Next
<1>0. PICK d \in Deliveries : d = attempt[x].of
  BY DEF QueueInv, DeliveryInv, Shape, AttemptShape
<1>1. d \in Deliveries /\ (x # Recovery => d = x) /\ attempt[x].at = "acking" /\ Shape
  BY <1>0 DEF QueueInv, DeliveryInv, AttemptInv, AckDelivery
<1>2. attempt[x].queued
  <2>1. CASE x = Recovery
    BY <1>1, <2>1 DEF QueueInv, BookInv, Busy
  <2>2. CASE x # Recovery
    BY <1>1, <2>2 DEF QueueInv, BookInv, Busy
  <2> QED
    BY <2>1, <2>2
<1>3. OnDisk(d) /\ Accepted(d) /\ d \notin failedDir
  BY <1>0, <1>1, <1>2, EntryIsThere DEF Busy
<1>4. d \in aborted \union cutShort \/ handed[d] \union waived[d] = AllPayloads
  BY <1>0, <1>1 DEF QueueInv, DeliveryInv, AttemptInv, Covered
<1>5. disk' = [disk EXCEPT ![d] = NoFile] /\ UNCHANGED <<failedDir, order, handed, waived, aborted, cutShort>>
  BY <1>0 DEF AckDelivery, history
<1>6. ~OnDisk(d)' /\ \A e \in Deliveries \ {d} : OnDisk(e)' <=> OnDisk(e)
  BY <1>1, <1>5 DEF OnDisk, Shape
<1>7. \A e \in Deliveries : Accepted(e)' <=> Accepted(e)
  BY <1>5 DEF Accepted
<1>8. PICK o \in Settlements : o = IF d \in aborted THEN "aborted"
                                 ELSE IF d \in cutShort THEN "cutShort" ELSE "delivered"
  BY DEF Settlements
<1>9. Outcome(d) = "owed" /\ Outcome(d)' = o
  BY <1>1, <1>3, <1>5, <1>6, <1>7, <1>8 DEF Outcome
<1>10. \A e \in Deliveries \ {d} : Outcome(e)' = Outcome(e)
  BY <1>5, <1>6, <1>7 DEF Outcome
<1>11. o = "delivered" => handed[d] \union waived[d] = AllPayloads
  BY <1>4, <1>8
<1> QED
  BY <1>5, <1>8, <1>9, <1>10, <1>11, RemovalIsSettle

LEMMA MoveIsSettle ==
    ASSUME QueueInv, MoveToFailed
    PROVE  Promise!Next \/ (OutcomeBar' = OutcomeBar /\ HandedBar' = HandedBar)
<1>0. PICK d \in Deliveries : d = attempt[Recovery].of
  BY DEF QueueInv, DeliveryInv, Shape, AttemptShape
<1>1. Shape
  BY DEF QueueInv, DeliveryInv
<1>2. UNCHANGED <<order, handed, waived, aborted, cutShort>>
  BY DEF MoveToFailed, history
<1>3. CASE disk' = disk /\ failedDir' = failedDir
  BY <1>2, <1>3, SameOutcomes, SameHanded
<1>4. CASE OnDisk(d) /\ disk' = [disk EXCEPT ![d] = NoFile] /\ failedDir' = failedDir \union {d}
  <2>1. ~OnDisk(d)' /\ \A e \in Deliveries \ {d} : OnDisk(e)' <=> OnDisk(e)
    BY <1>1, <1>4 DEF OnDisk, Shape
  <2>2. Accepted(d) /\ \A e \in Deliveries : Accepted(e)' <=> Accepted(e)
    BY <1>1, <1>2, <1>4 DEF Accepted, QueueInv, BookInv
  <2>3. Outcome(d) = "owed" /\ Outcome(d)' = "failed"
    BY <1>1, <1>4, <2>1, <2>2 DEF Outcome
  <2>4. \A e \in Deliveries \ {d} : Outcome(e)' = Outcome(e)
    BY <1>2, <1>4, <2>1, <2>2 DEF Outcome
  <2>5. Promise!Next
    BY <1>2, <2>3, <2>4, RemovalIsSettle DEF Settlements
  <2> QED
    BY <2>5
<1> QED
  BY <1>0, <1>3, <1>4 DEF MoveToFailed

(* Where an attempt rewrites the file the file is there, before and after. *)
LEMMA RewriteIsStutter ==
    ASSUME ~LoadSeesLive, QueueInv, NEW x \in Actors, RewriteEntry(x)
    PROVE  OutcomeBar' = OutcomeBar /\ HandedBar' = HandedBar
<1> DEFINE d == attempt[x].of
<1>1. /\ d \in Deliveries /\ (x # Recovery => d = x) /\ attempt[x].at = "rewriting" /\ Shape
      /\ attempt[x].count \in Nat
  BY DEF QueueInv, DeliveryInv, Shape, AttemptShape, AttemptInv, RewriteEntry
<1>2. attempt[x].queued
  BY <1>1, RecoveryAssumption DEF QueueInv, BookInv, Busy
<1>3. OnDisk(d)
  BY <1>1, <1>2, EntryIsThere DEF Busy
<1>4. /\ disk' = [disk EXCEPT ![d] = attempt[x].count]
      /\ UNCHANGED <<failedDir, order, handed, waived, aborted, cutShort>>
  BY DEF RewriteEntry, history
<1> HIDE DEF d
<1>5. \A e \in Deliveries : (OnDisk(e)' <=> OnDisk(e)) /\ (Accepted(e)' <=> Accepted(e))
  BY <1>1, <1>3, <1>4, NoFileAssumption DEF OnDisk, Shape, Accepted
<1> QED
  BY <1>4, <1>5, SameHanded DEF OutcomeBar, Outcome

(* An attempt that an AbortError ends has an entry still owed, or none.    *)
LEMMA AbortIsStutter ==
    ASSUME ~LoadSeesLive, QueueInv, NEW d \in Deliveries, Abort(d) \/ ChannelAborts(d)
    PROVE  OutcomeBar' = OutcomeBar /\ HandedBar' = HandedBar
<1>1. Sending(d) /\ attempt[d].of = d
  BY RecoveryAssumption DEF Abort, ChannelAborts, AbortError, QueueInv, DeliveryInv, AttemptInv
<1>2. /\ \A e \in Deliveries \ {d} : (e \in aborted' <=> e \in aborted) /\ (e \in cutShort' <=> e \in cutShort)
      /\ UNCHANGED <<disk, failedDir, order, handed, waived>>
  BY DEF Abort, ChannelAborts, AbortError
<1>3. Outcome(d) \in {"none", "owed"}
  BY <1>1, SendingIsOpen
<1>4. \A e \in Deliveries : (OnDisk(e)' <=> OnDisk(e)) /\ (Accepted(e)' <=> Accepted(e))
  BY <1>2 DEF OnDisk, Accepted
<1>5. ASSUME NEW e \in Deliveries PROVE Outcome(e)' = Outcome(e)
  BY <1>2, <1>3, <1>4 DEF Outcome
<1> QED
  BY <1>2, <1>5, SameHanded DEF OutcomeBar

LEMMA OthersStutter ==
    ASSUME \/ \E d \in Deliveries : Deliver(d) \/ EnqueueFails(d)
           \/ \E x \in Actors : \/ CoreReturns(x) \/ CoreThrows(x)
                                \/ AckFails(x) \/ FailDelivery(x) \/ FailIsLost(x)
           \/ LoadPending \/ BudgetExceeded \/ RestartInProcess \/ Crash
           \/ \E i \in DOMAIN order : GiveUp(i) \/ Defer(i) \/ Replay(i)
           \/ UNCHANGED vars
    PROVE  OutcomeBar' = OutcomeBar /\ HandedBar' = HandedBar
<1>1. UNCHANGED <<disk, failedDir, order, handed, waived, aborted, cutShort>>
  BY DEF Deliver, EnqueueFails, CoreReturns, CoreThrows, CoreThrowsInto, AckFails, FailDelivery,
         FailIsLost, LoadPending, BudgetExceeded, RestartInProcess, Crash, GiveUp, Defer, Replay,
         LooksAt, history, vars
<1> QED
  BY <1>1, SameOutcomes, SameHanded

LEMMA PromiseNext ==
    ASSUME ~LoadSeesLive, QueueInv, [Next]_vars
    PROVE  [Promise!Next]_(Promise!outboxVars)
<1>1. ASSUME OutcomeBar' = OutcomeBar /\ HandedBar' = HandedBar
      PROVE  UNCHANGED Promise!outboxVars
  BY <1>1 DEF Promise!outboxVars, OutcomeBar, HandedBar
<1>2. ASSUME NEW d \in Deliveries, Live(d)
      PROVE  [Promise!Next]_(Promise!outboxVars)
  <2>1. CASE EnqueueDelivery(d)
    <3>1. Promise!Next
      BY <2>1, EnqueueIsAccept DEF Promise!Next
    <3> QED
      BY <3>1
  <2> QED
    BY <1>1, <1>2, <2>1, AbortIsStutter, OthersStutter DEF Live
<1>3. ASSUME NEW x \in Actors, Core(x)
      PROVE  [Promise!Next]_(Promise!outboxVars)
  BY <1>1, <1>3, HandingIsHand, OthersStutter DEF Core
<1>4. ASSUME NEW x \in Actors, Settle(x)
      PROVE  [Promise!Next]_(Promise!outboxVars)
  BY <1>1, <1>4, AckIsSettle, RewriteIsStutter, OthersStutter DEF Settle
<1>5. CASE Recover
  BY <1>1, <1>5, MoveIsSettle, OthersStutter DEF Recover
<1>6. CASE RestartInProcess \/ Crash \/ UNCHANGED vars
  BY <1>1, <1>6, OthersStutter
<1> QED
  BY <1>2, <1>3, <1>4, <1>5, <1>6 DEF Next

(* The queue implements Outbox: what it has accepted it owes until it has  *)
(* handed over every payload, put the entry aside, or met an AbortError;   *)
(* and what is settled stays settled, across crashes and restarts.         *)
THEOREM QueueKeepsPromise ==
    ASSUME ~LoadSeesLive
    PROVE  Spec => KeepsPromise
<1>1. QueueInv /\ [Next]_vars => [Promise!Next]_(Promise!outboxVars)
  BY PromiseNext
<1> QED
  BY <1>1, PromiseInit, QueueInit, QueueNext, PTL DEF Spec, KeepsPromise, Promise!Spec
=============================================================================
