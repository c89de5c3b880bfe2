-------------------------- MODULE DeliveryQueueProofs --------------------------
(***************************************************************************)
(* NeverLost for any number of deliveries, payloads and retries, whether   *)
(* or not the recovery may load a delivery in progress.                    *)
(*                                                                         *)
(* NeverLost is not inductive: the step that removes a file is the unlink  *)
(* of ackDelivery, which looks at nothing.  What makes it right was        *)
(* established steps before, when deliverOutboundPayloadsCore returned.    *)
(* AttemptInv carries it from there to the unlink.                         *)
(***************************************************************************)
EXTENDS DeliveryQueue, TLAPS

Stages == {"idle", "writing", "sending", "acking", "failing", "rewriting", "moving", "done"}

(* The shape of an attempt and of the state, without the retry limit.      *)
AttemptShape ==
    [at : Stages, of : Deliveries, next : 1..Payloads + 1, missed : BOOLEAN, queued : BOOLEAN,
     count : Nat]

Shape ==
    /\ disk \in [Deliveries -> Nat \union {NoFile}]
    /\ failedDir \subseteq Deliveries
    /\ attempt \in [Actors -> AttemptShape]
    /\ order \in Seq(Deliveries)
    /\ handed \in [Deliveries -> SUBSET AllPayloads]
    /\ waived \in [Deliveries -> SUBSET AllPayloads]

Covered(d) == handed[d] \union waived[d]

(* A live attempt is about its own delivery and starts with the first      *)
(* payload; an attempt that has missed nothing has dealt with every        *)
(* payload before the next; an attempt about to unlink the file has dealt  *)
(* with all of them, or was ended by an AbortError.                        *)
AttemptInv(x) ==
    /\ x # Recovery => attempt[x].of = x
    /\ (x # Recovery /\ attempt[x].at \in {"idle", "writing"}) => attempt[x].next = 1
    /\ (attempt[x].at = "sending" /\ ~attempt[x].missed) =>
         1..(attempt[x].next - 1) \subseteq Covered(attempt[x].of)
    /\ attempt[x].at = "acking" =>
         attempt[x].of \in aborted \union cutShort \/ Covered(attempt[x].of) = AllPayloads

DeliveryInv ==
    /\ Shape
    /\ \A x \in Actors : AttemptInv(x)
    /\ NeverLost

(* What every action does for the deliveries it is not about: nothing that *)
(* was dealt with, put aside or ended by an AbortError is forgotten, and a *)
(* file goes only when its delivery is settled.                            *)
Keeps ==
    /\ \A d \in Deliveries : Covered(d) \subseteq Covered(d)'
    /\ failedDir \subseteq failedDir'
    /\ aborted \subseteq aborted' /\ cutShort \subseteq cutShort'

Settled(d) == d \in failedDir \union aborted \union cutShort \/ Covered(d) = AllPayloads

FilesKept ==
    \A d \in Deliveries : Accepted(d)' => (Accepted(d) /\ (OnDisk(d) => OnDisk(d)' \/ Settled(d)'))
                                          \/ OnDisk(d)'

USE DEF Actors

-----------------------------------------------------------------------------
(* The invariant is kept by a step that keeps the shape, forgets nothing,  *)
(* keeps the files of what is not settled, and leaves each attempt either  *)
(* as it was or in a state that meets AttemptInv.                          *)
LEMMA StepKeeps ==
    ASSUME DeliveryInv, Shape', Keeps, FilesKept,
           \A x \in Actors : attempt'[x] = attempt[x] \/ AttemptInv(x)'
    PROVE  DeliveryInv'
<1>1. ASSUME NEW d \in Deliveries, Covered(d) = AllPayloads
      PROVE  Covered(d)' = AllPayloads
  BY <1>1 DEF Keeps, Covered, Shape
<1>2. ASSUME NEW x \in Actors
      PROVE  AttemptInv(x)'
  <2>1. CASE AttemptInv(x)'
    BY <2>1
  <2>2. CASE attempt'[x] = attempt[x]
    <3>1. attempt[x].of \in Deliveries
      BY DEF DeliveryInv, Shape, AttemptShape
    <3>2. AttemptInv(x)
      BY DEF DeliveryInv
    <3>3. Covered(attempt[x].of) \subseteq Covered(attempt[x].of)'
      BY <2>2, <3>1 DEF Keeps, Covered
    <3> QED
      BY <1>1, <2>2, <3>1, <3>2, <3>3 DEF AttemptInv, Keeps, Covered
  <2> QED
    BY <2>1, <2>2
<1>3. NeverLost'
  <2> SUFFICES ASSUME NEW d \in Deliveries, Accepted(d)'
               PROVE  OnDisk(d)' \/ Settled(d)'
    BY DEF NeverLost, Settled, Covered
  <2>1. OnDisk(d)' \/ (Accepted(d) /\ (OnDisk(d) => OnDisk(d)' \/ Settled(d)'))
    BY DEF FilesKept
  <2>2. CASE Accepted(d) /\ ~OnDisk(d)
    <3>1. Settled(d)
      BY <2>2 DEF DeliveryInv, NeverLost, Settled, Covered
    <3> QED
      BY <1>1, <3>1 DEF Settled, Keeps
  <2> QED
    BY <2>1, <2>2
<1> QED
  BY <1>2, <1>3 DEF DeliveryInv

-----------------------------------------------------------------------------
LEMMA IdleShape ==
    ASSUME NEW d \in Deliveries
    PROVE  Idle(d) \in AttemptShape
BY PayloadsAssumption DEF Idle, AttemptShape, Stages

LEMMA DeliveryInit == Init => DeliveryInv
<1> SUFFICES ASSUME Init PROVE DeliveryInv
  OBVIOUS
<1>1. (CHOOSE d \in Deliveries : TRUE) \in Deliveries
  BY DeliveriesAssumption
<1>2. ASSUME NEW x \in Actors
      PROVE  /\ attempt[x] \in AttemptShape
             /\ attempt[x].at = "idle" /\ attempt[x].next = 1
             /\ x # Recovery => attempt[x].of = x
  <2>1. PICK d \in Deliveries : attempt[x] = Idle(d) /\ (x # Recovery => d = x)
    BY <1>1 DEF Init
  <2> QED
    BY <2>1, IdleShape DEF Idle
<1>3. Shape
  <2>1. <<>> \in Seq(Deliveries)
    OBVIOUS
  <2> QED
    BY <1>2, <2>1 DEF Init, Shape
<1>4. \A x \in Actors : AttemptInv(x)
  BY <1>2 DEF AttemptInv
<1>5. NeverLost
  <2>1. <<>> \in Seq(Deliveries) /\ Len(<<>>) = 0
    OBVIOUS
  <2>2. order = <<>>
    BY DEF Init
  <2>3. DOMAIN order = 1..0
    BY <2>1, <2>2
  <2> QED
    BY <2>3 DEF NeverLost, Accepted
<1> QED
  BY <1>3, <1>4, <1>5 DEF DeliveryInv

-----------------------------------------------------------------------------
(* A step of one attempt that touches neither files nor payloads.          *)
LEMMA QuietStep ==
    ASSUME DeliveryInv, UNCHANGED <<disk, failedDir, order, history>>,
           NEW x \in Actors, NEW a \in AttemptShape,
           attempt' = [attempt EXCEPT ![x] = a],
           AttemptInv(x)'
    PROVE  DeliveryInv'
<1>1. Shape'
  BY DEF DeliveryInv, Shape, history
<1>2. Keeps
  BY DEF Keeps, Covered, history
<1>3. FilesKept
  BY DEF FilesKept, Accepted, OnDisk
<1>4. \A y \in Actors : attempt'[y] = attempt[y] \/ AttemptInv(y)'
  BY DEF DeliveryInv, Shape
<1> QED
  BY <1>1, <1>2, <1>3, <1>4, StepKeeps

LEMMA NothingMoves ==
    ASSUME DeliveryInv, UNCHANGED <<disk, failedDir, attempt, order, history>>
    PROVE  DeliveryInv'
BY DEF DeliveryInv, Shape, AttemptInv, NeverLost, Covered, Accepted, OnDisk, history

(* The live attempts before they send. *)
LEMMA DeliverKeeps ==
    ASSUME DeliveryInv, NEW d \in Deliveries, Deliver(d)
    PROVE  DeliveryInv'
<1> DEFINE a == [attempt[d] EXCEPT !.at = "writing"]
<1>1. attempt[d] \in AttemptShape /\ AttemptInv(d) /\ d # Recovery
  BY RecoveryAssumption DEF DeliveryInv, Shape
<1>2. a \in AttemptShape
  BY <1>1 DEF AttemptShape, Stages
<1>3. attempt' = [attempt EXCEPT ![d] = a] /\ attempt'[d] = a
  BY DEF Deliver, DeliveryInv, Shape
<1>4. AttemptInv(d)'
  BY <1>1, <1>3 DEF AttemptInv, Deliver, AttemptShape
<1> QED
  BY <1>2, <1>3, <1>4, QuietStep DEF Deliver

LEMMA EnqueueFailsKeeps ==
    ASSUME DeliveryInv, NEW d \in Deliveries, EnqueueFails(d)
    PROVE  DeliveryInv'
<1> DEFINE a == [attempt[d] EXCEPT !.at = "sending"]
<1>1. attempt[d] \in AttemptShape /\ AttemptInv(d) /\ d # Recovery
  BY RecoveryAssumption DEF DeliveryInv, Shape
<1>2. a \in AttemptShape
  BY <1>1 DEF AttemptShape, Stages
<1>3. attempt' = [attempt EXCEPT ![d] = a] /\ attempt'[d] = a
  BY DEF EnqueueFails, DeliveryInv, Shape
<1>4. a.at = "sending" /\ a.next = 1 /\ a.of = d
  BY <1>1 DEF AttemptInv, EnqueueFails, AttemptShape
<1>5. AttemptInv(d)'
  <2>1. 1..(a.next - 1) = {}
    BY <1>4
  <2>2. a.at # "acking" /\ a.at \notin {"idle", "writing"}
    BY <1>4
  <2> HIDE DEF a
  <2> QED
    BY <1>3, <1>4, <2>1, <2>2 DEF AttemptInv
<1> QED
  BY <1>2, <1>3, <1>5, QuietStep DEF EnqueueFails

LEMMA EnqueueDeliveryKeeps ==
    ASSUME DeliveryInv, NEW d \in Deliveries, EnqueueDelivery(d)
    PROVE  DeliveryInv'
<1> DEFINE a == [attempt[d] EXCEPT !.at = "sending", !.queued = TRUE]
<1>1. attempt[d] \in AttemptShape /\ AttemptInv(d) /\ d # Recovery
  BY RecoveryAssumption DEF DeliveryInv, Shape
<1>2. a \in AttemptShape
  BY <1>1 DEF AttemptShape, Stages
<1>3. attempt' = [attempt EXCEPT ![d] = a] /\ attempt'[d] = a
  BY DEF EnqueueDelivery, DeliveryInv, Shape
<1>4. a.at = "sending" /\ a.next = 1 /\ a.of = d
  BY <1>1 DEF AttemptInv, EnqueueDelivery, AttemptShape
<1>5. AttemptInv(d)'
  <2>1. 1..(a.next - 1) = {}
    BY <1>4
  <2>2. a.at # "acking" /\ a.at \notin {"idle", "writing"}
    BY <1>4
  <2> HIDE DEF a
  <2> QED
    BY <1>3, <1>4, <2>1, <2>2 DEF AttemptInv
<1>6. Shape'
  BY <1>2, <1>3 DEF DeliveryInv, Shape, EnqueueDelivery, history
<1>7. Keeps
  BY DEF EnqueueDelivery, Keeps, Covered, history
<1>8. FilesKept
  BY NoFileAssumption DEF FilesKept, Accepted, OnDisk, EnqueueDelivery, DeliveryInv, Shape
<1>9. \A y \in Actors : attempt'[y] = attempt[y] \/ AttemptInv(y)'
  BY <1>3, <1>5 DEF DeliveryInv, Shape
<1> QED
  BY <1>6, <1>7, <1>8, <1>9, StepKeeps

-----------------------------------------------------------------------------
(* The payload loop. *)

LEMMA SendPayloadKeeps ==
    ASSUME DeliveryInv, NEW x \in Actors, SendPayload(x)
    PROVE  DeliveryInv'
<1>1. attempt[x] \in AttemptShape /\ AttemptInv(x) /\ attempt[x].at = "sending"
  BY DEF DeliveryInv, Shape, SendPayload, Sending
<1>2. PICK d \in Deliveries, p \in AllPayloads : d = attempt[x].of /\ p = attempt[x].next
  BY <1>1, PayloadsAssumption DEF AttemptShape, SendPayload, AllPayloads
<1> DEFINE a == [attempt[x] EXCEPT !.next = p + 1]
<1>3. a \in AttemptShape
  BY <1>1, <1>2, PayloadsAssumption DEF AttemptShape, AllPayloads
<1>4. attempt' = [attempt EXCEPT ![x] = a] /\ attempt'[x] = a
  BY <1>2 DEF SendPayload, DeliveryInv, Shape
<1>5. handed' = [handed EXCEPT ![d] = @ \union {p}] /\ waived' = waived
  BY <1>2 DEF SendPayload
<1>6. Covered(d)' = Covered(d) \union {p}
  BY <1>2, <1>5 DEF Covered, DeliveryInv, Shape
<1>7. AttemptInv(x)'
  <2>1. a.at = "sending" /\ a.of = d /\ a.missed = attempt[x].missed /\ a.next = p + 1
    BY <1>1, <1>2 DEF AttemptShape
  <2>2. 1..(a.next - 1) = 1..(p - 1) \union {p}
    BY <1>2, <2>1, PayloadsAssumption DEF AllPayloads
  <2>3. ~attempt[x].missed => 1..(p - 1) \subseteq Covered(d)
    BY <1>1, <1>2 DEF AttemptInv
  <2> HIDE DEF a
  <2>4. attempt'[x].of = d /\ attempt'[x].at = "sending"
    BY <1>4, <2>1
  <2>5. ~attempt'[x].missed => 1..(attempt'[x].next - 1) \subseteq Covered(d)'
    BY <1>4, <1>6, <2>1, <2>2, <2>3
  <2> QED
    BY <1>1, <1>2, <2>4, <2>5 DEF AttemptInv, Covered
<1>8. Shape'
  BY <1>2, <1>3, <1>4, <1>5 DEF DeliveryInv, Shape, SendPayload
<1>9. Keeps
  BY <1>2, <1>5 DEF SendPayload, Keeps, Covered, DeliveryInv, Shape
<1>10. FilesKept
  BY DEF FilesKept, Accepted, OnDisk, SendPayload
<1>11. \A y \in Actors : attempt'[y] = attempt[y] \/ AttemptInv(y)'
  BY <1>4, <1>7 DEF DeliveryInv, Shape
<1> QED
  BY <1>8, <1>9, <1>10, <1>11, StepKeeps

LEMMA PassOverKeeps ==
    ASSUME DeliveryInv, NEW x \in Actors, PassOver(x)
    PROVE  DeliveryInv'
<1>1. attempt[x] \in AttemptShape /\ AttemptInv(x) /\ attempt[x].at = "sending"
  BY DEF DeliveryInv, Shape, PassOver, Sending
<1>2. PICK d \in Deliveries, p \in AllPayloads : d = attempt[x].of /\ p = attempt[x].next
  BY <1>1, PayloadsAssumption DEF AttemptShape, PassOver, AllPayloads
<1>t. PICK told \in BOOLEAN : told <=> x \in Watched
  OBVIOUS
<1>m. PICK m \in BOOLEAN : m = (attempt[x].missed \/ told)
  OBVIOUS
<1> DEFINE a == [attempt[x] EXCEPT !.next = p + 1, !.missed = m]
<1>3. a \in AttemptShape
  <2>1. p + 1 \in 1..Payloads + 1
    BY <1>2, PayloadsAssumption DEF AllPayloads
  <2>2. CASE m = TRUE
    BY <1>1, <2>1, <2>2 DEF AttemptShape
  <2>3. CASE m = FALSE
    BY <1>1, <2>1, <2>3 DEF AttemptShape
  <2> QED
    BY <1>m, <2>2, <2>3
<1>4. attempt' = [attempt EXCEPT ![x] = a] /\ attempt'[x] = a
  BY <1>2, <1>t, <1>m DEF PassOver, DeliveryInv, Shape
<1>5. /\ handed' = handed
      /\ waived' = IF told THEN waived ELSE [waived EXCEPT ![d] = @ \union {p}]
  BY <1>2, <1>t DEF PassOver
<1>6. Covered(d)' = IF told THEN Covered(d) ELSE Covered(d) \union {p}
  BY <1>2, <1>5 DEF Covered, DeliveryInv, Shape
<1>7. AttemptInv(x)'
  <2>1. /\ a.at = "sending" /\ a.of = d /\ a.next = p + 1
        /\ ~a.missed => ~attempt[x].missed /\ ~told
    BY <1>1, <1>2, <1>m DEF AttemptShape
  <2>2. 1..(a.next - 1) = 1..(p - 1) \union {p}
    BY <1>2, <2>1, PayloadsAssumption DEF AllPayloads
  <2>3. ~attempt[x].missed => 1..(p - 1) \subseteq Covered(d)
    BY <1>1, <1>2 DEF AttemptInv
  <2> HIDE DEF a
  <2>4. attempt'[x].of = d /\ attempt'[x].at = "sending"
    BY <1>4, <2>1
  <2>5. ~attempt'[x].missed => 1..(attempt'[x].next - 1) \subseteq Covered(d)'
    BY <1>4, <1>6, <2>1, <2>2, <2>3
  <2> QED
    BY <1>1, <1>2, <2>4, <2>5 DEF AttemptInv, Covered
<1>8. Shape'
  BY <1>2, <1>3, <1>4, <1>5 DEF DeliveryInv, Shape, PassOver
<1>9. Keeps
  BY <1>2, <1>5 DEF PassOver, Keeps, Covered, DeliveryInv, Shape
<1>10. FilesKept
  BY DEF FilesKept, Accepted, OnDisk, PassOver
<1>11. \A y \in Actors : attempt'[y] = attempt[y] \/ AttemptInv(y)'
  BY <1>4, <1>7 DEF DeliveryInv, Shape
<1> QED
  BY <1>8, <1>9, <1>10, <1>11, StepKeeps

(* The call returns with nothing missed: every payload was dealt with, and *)
(* the entry may be acknowledged.                                          *)
LEMMA CoreReturnsKeeps ==
    ASSUME DeliveryInv, NEW x \in Actors, CoreReturns(x)
    PROVE  DeliveryInv'
<1> DEFINE to == IF attempt[x].missed THEN "failing" ELSE "acking"
           a == [attempt[x] EXCEPT !.at = IF attempt[x].queued THEN to ELSE "done"]
<1>1. attempt[x] \in AttemptShape /\ AttemptInv(x) /\ attempt[x].at = "sending"
  BY DEF DeliveryInv, Shape, CoreReturns, Sending
<1>2. a \in AttemptShape /\ a.at \in {"failing", "acking", "done"} /\ a.of = attempt[x].of
  BY <1>1 DEF AttemptShape, Stages
<1>3. attempt' = [attempt EXCEPT ![x] = a] /\ attempt'[x] = a
  BY DEF CoreReturns, Settling, DeliveryInv, Shape
<1>4. a.at = "acking" => Covered(attempt[x].of) = AllPayloads
  <2> SUFFICES ASSUME a.at = "acking" PROVE Covered(attempt[x].of) = AllPayloads
    OBVIOUS
  <2>1. ~attempt[x].missed
    BY <1>1 DEF AttemptShape
  <2>2. attempt[x].next - 1 = Payloads
    BY <1>1, PayloadsAssumption DEF CoreReturns, AttemptShape
  <2>3. Covered(attempt[x].of) \subseteq AllPayloads
    BY <1>1 DEF DeliveryInv, Shape, Covered, AttemptShape
  <2> QED
    BY <1>1, <2>1, <2>2, <2>3 DEF AttemptInv, AllPayloads
<1>5. AttemptInv(x)'
  <2> HIDE DEF a
  <2>1. handed' = handed /\ waived' = waived
    BY DEF CoreReturns, history
  <2> QED
    BY <1>1, <1>2, <1>3, <1>4, <2>1 DEF AttemptInv, Covered
<1> QED
  BY <1>2, <1>3, <1>5, QuietStep DEF CoreReturns

LEMMA CoreThrowsKeeps ==
    ASSUME DeliveryInv, NEW x \in Actors, CoreThrows(x)
    PROVE  DeliveryInv'
<1>1. PICK to \in {"failing", "moving"} : Settling(x, to)
  BY DEF CoreThrows, CoreThrowsInto
<1> DEFINE a == [attempt[x] EXCEPT !.at = IF attempt[x].queued THEN to ELSE "done"]
<1>2. attempt[x] \in AttemptShape /\ AttemptInv(x)
  BY DEF DeliveryInv, Shape
<1>3. a \in AttemptShape /\ a.at \in {"failing", "moving", "done"} /\ a.of = attempt[x].of
  BY <1>2 DEF AttemptShape, Stages
<1>4. attempt' = [attempt EXCEPT ![x] = a] /\ attempt'[x] = a
  BY <1>1 DEF Settling, DeliveryInv, Shape
<1>5. AttemptInv(x)'
  <2> HIDE DEF a
  <2> QED
    BY <1>2, <1>3, <1>4 DEF AttemptInv
<1> QED
  BY <1>3, <1>4, <1>5, QuietStep DEF CoreThrows, CoreThrowsInto

LEMMA AbortKeeps ==
    ASSUME DeliveryInv, NEW d \in Deliveries, Abort(d) \/ ChannelAborts(d)
    PROVE  DeliveryInv'
<1> DEFINE a == [attempt[d] EXCEPT !.at = IF attempt[d].queued THEN "acking" ELSE "done"]
<1>1. attempt[d] \in AttemptShape /\ attempt[d].of = d
  BY RecoveryAssumption DEF DeliveryInv, Shape, AttemptInv
<1>2. a \in AttemptShape /\ a.at \in {"acking", "done"} /\ a.of = d
  BY <1>1 DEF AttemptShape, Stages
<1>3. attempt' = [attempt EXCEPT ![d] = a] /\ attempt'[d] = a
  BY DEF Abort, ChannelAborts, AbortError, Settling, DeliveryInv, Shape
<1>4. AttemptInv(d)'
  <2> HIDE DEF a
  <2> QED
    BY <1>2, <1>3 DEF AttemptInv, Abort, ChannelAborts
<1>5. Shape'
  BY <1>2, <1>3 DEF DeliveryInv, Shape, Abort, ChannelAborts, AbortError
<1>6. Keeps
  BY DEF Abort, ChannelAborts, AbortError, Keeps, Covered
<1>7. FilesKept
  BY DEF FilesKept, Accepted, OnDisk, Abort, ChannelAborts, AbortError
<1>8. \A y \in Actors : attempt'[y] = attempt[y] \/ AttemptInv(y)'
  BY <1>3, <1>4 DEF DeliveryInv, Shape
<1> QED
  BY <1>5, <1>6, <1>7, <1>8, StepKeeps

-----------------------------------------------------------------------------
(* Settling the entry. *)

(* The unlink: AttemptInv is what makes it safe. *)
LEMMA AckDeliveryKeeps ==
    ASSUME DeliveryInv, NEW x \in Actors, AckDelivery(x)
    PROVE  DeliveryInv'
<1>1. attempt[x] \in AttemptShape /\ AttemptInv(x) /\ attempt[x].at = "acking"
  BY DEF DeliveryInv, Shape, AckDelivery
<1>2. PICK d \in Deliveries : d = attempt[x].of
  BY <1>1 DEF AttemptShape
<1> DEFINE a == [attempt[x] EXCEPT !.at = Over(x)]
<1>3. a \in AttemptShape /\ a.of = d /\ a.at = Over(x) /\ Over(x) \in {"idle", "done"}
  BY <1>1, <1>2 DEF AttemptShape, Over, Stages
<1>4. attempt' = [attempt EXCEPT ![x] = a] /\ attempt'[x] = a
  BY DEF AckDelivery, DeliveryInv, Shape
<1>5. AttemptInv(x)'
  <2> HIDE DEF a
  <2> QED
    BY <1>1, <1>2, <1>3, <1>4 DEF AttemptInv, Over
<1>6. disk' = [disk EXCEPT ![d] = NoFile] /\ UNCHANGED <<failedDir, pending, order, history>>
  BY <1>2 DEF AckDelivery
<1>7. Shape'
  BY <1>3, <1>4, <1>6 DEF DeliveryInv, Shape, history
<1>8. Keeps
  BY <1>6 DEF Keeps, Covered, history
<1>9. Settled(d)'
  BY <1>1, <1>2, <1>6 DEF AttemptInv, Settled, Covered, history
<1>10. FilesKept
  BY <1>6, <1>9 DEF FilesKept, Accepted, OnDisk, DeliveryInv, Shape
<1>11. \A y \in Actors : attempt'[y] = attempt[y] \/ AttemptInv(y)'
  BY <1>4, <1>5 DEF DeliveryInv, Shape
<1> QED
  BY <1>7, <1>8, <1>10, <1>11, StepKeeps

LEMMA AckFailsKeeps ==
    ASSUME DeliveryInv, NEW x \in Actors, AckFails(x)
    PROVE  DeliveryInv'
<1> DEFINE a == [attempt[x] EXCEPT !.at = IF x = Recovery THEN "failing" ELSE "done"]
<1>1. attempt[x] \in AttemptShape /\ AttemptInv(x)
  BY DEF DeliveryInv, Shape
<1>2. a \in AttemptShape /\ a.of = attempt[x].of /\ a.at \in {"failing", "done"}
  BY <1>1 DEF AttemptShape, Stages
<1>3. attempt' = [attempt EXCEPT ![x] = a] /\ attempt'[x] = a
  BY DEF AckFails, DeliveryInv, Shape
<1>4. AttemptInv(x)'
  <2> HIDE DEF a
  <2> QED
    BY <1>1, <1>2, <1>3 DEF AttemptInv
<1> QED
  BY <1>2, <1>3, <1>4, QuietStep DEF AckFails

LEMMA FailDeliveryKeeps ==
    ASSUME DeliveryInv, NEW x \in Actors, FailDelivery(x)
    PROVE  DeliveryInv'
<1>1. attempt[x] \in AttemptShape /\ AttemptInv(x) /\ attempt[x].of \in Deliveries
  BY DEF DeliveryInv, Shape, AttemptShape
<1>2. PICK a : /\ attempt' = [attempt EXCEPT ![x] = a]
               /\ a = IF OnDisk(attempt[x].of)
                      THEN [attempt[x] EXCEPT !.at = "rewriting", !.count = disk[attempt[x].of] + 1]
                      ELSE [attempt[x] EXCEPT !.at = Over(x)]
  BY DEF FailDelivery, DeliveryInv, Shape
<1>3. OnDisk(attempt[x].of) => disk[attempt[x].of] + 1 \in Nat
  BY <1>1 DEF OnDisk, DeliveryInv, Shape
<1>4. /\ a \in AttemptShape /\ a.of = attempt[x].of /\ a.at \in {"rewriting", "idle", "done"}
      /\ a.at = "idle" => x = Recovery
  BY <1>1, <1>2, <1>3 DEF AttemptShape, Stages, Over
<1>5. attempt'[x] = a
  BY <1>2 DEF DeliveryInv, Shape
<1>6. AttemptInv(x)'
  BY <1>1, <1>4, <1>5 DEF AttemptInv
<1> QED
  BY <1>2, <1>4, <1>6, QuietStep DEF FailDelivery

LEMMA FailIsLostKeeps ==
    ASSUME DeliveryInv, NEW x \in Actors, FailIsLost(x)
    PROVE  DeliveryInv'
<1> DEFINE a == [attempt[x] EXCEPT !.at = Over(x), !.count = 0]
<1>1. attempt[x] \in AttemptShape /\ AttemptInv(x)
  BY DEF DeliveryInv, Shape
<1>2. /\ a \in AttemptShape /\ a.of = attempt[x].of /\ a.at \in {"idle", "done"}
      /\ a.at = "idle" => x = Recovery
  BY <1>1 DEF AttemptShape, Stages, Over
<1>3. attempt' = [attempt EXCEPT ![x] = a] /\ attempt'[x] = a
  BY DEF FailIsLost, DeliveryInv, Shape
<1>4. AttemptInv(x)'
  <2> HIDE DEF a
  <2> QED
    BY <1>1, <1>2, <1>3 DEF AttemptInv
<1> QED
  BY <1>2, <1>3, <1>4, QuietStep DEF FailIsLost

LEMMA RewriteEntryKeeps ==
    ASSUME DeliveryInv, NEW x \in Actors, RewriteEntry(x)
    PROVE  DeliveryInv'
<1>1. attempt[x] \in AttemptShape /\ AttemptInv(x)
  BY DEF DeliveryInv, Shape
<1>2. PICK d \in Deliveries, n \in Nat : d = attempt[x].of /\ n = attempt[x].count
  BY <1>1 DEF AttemptShape
<1> DEFINE a == [attempt[x] EXCEPT !.at = Over(x), !.count = 0]
<1>3. /\ a \in AttemptShape /\ a.of = attempt[x].of /\ a.at \in {"idle", "done"}
      /\ a.at = "idle" => x = Recovery
  BY <1>1 DEF AttemptShape, Stages, Over
<1>4. attempt' = [attempt EXCEPT ![x] = a] /\ attempt'[x] = a
  BY DEF RewriteEntry, DeliveryInv, Shape
<1>5. AttemptInv(x)'
  <2> HIDE DEF a
  <2> QED
    BY <1>1, <1>3, <1>4 DEF AttemptInv
<1>6. disk' = [disk EXCEPT ![d] = n] /\ UNCHANGED <<failedDir, pending, order, history>>
  BY <1>2 DEF RewriteEntry
<1>7. Shape'
  BY <1>3, <1>4, <1>6 DEF DeliveryInv, Shape, history
<1>8. Keeps
  BY <1>6 DEF Keeps, Covered, history
<1>9. FilesKept
  BY <1>6, NoFileAssumption DEF FilesKept, Accepted, OnDisk, DeliveryInv, Shape
<1>10. \A y \in Actors : attempt'[y] = attempt[y] \/ AttemptInv(y)'
  BY <1>4, <1>5 DEF DeliveryInv, Shape
<1> QED
  BY <1>7, <1>8, <1>9, <1>10, StepKeeps

LEMMA MoveToFailedKeeps ==
    ASSUME DeliveryInv, MoveToFailed
    PROVE  DeliveryInv'
<1>1. attempt[Recovery] \in AttemptShape /\ AttemptInv(Recovery)
  BY DEF DeliveryInv, Shape
<1>2. PICK d \in Deliveries : d = attempt[Recovery].of
  BY <1>1 DEF AttemptShape
<1> DEFINE a == [attempt[Recovery] EXCEPT !.at = "idle"]
<1>3. a \in AttemptShape /\ a.of = d /\ a.at = "idle"
  BY <1>1, <1>2 DEF AttemptShape, Stages
<1>4. attempt' = [attempt EXCEPT ![Recovery] = a] /\ attempt'[Recovery] = a
  BY DEF MoveToFailed, DeliveryInv, Shape
<1>5. AttemptInv(Recovery)'
  <2> HIDE DEF a
  <2> QED
    BY <1>3, <1>4 DEF AttemptInv
<1>6. /\ UNCHANGED <<order, history>>
      /\ \/ disk' = [disk EXCEPT ![d] = NoFile] /\ failedDir' = failedDir \union {d}
         \/ disk' = disk /\ failedDir' = failedDir
  BY <1>2 DEF MoveToFailed
<1>7. Shape'
  BY <1>3, <1>4, <1>6 DEF DeliveryInv, Shape, history
<1>8. Keeps
  BY <1>6 DEF Keeps, Covered, history
<1>9. FilesKept
  BY <1>6 DEF FilesKept, Accepted, OnDisk, Settled, DeliveryInv, Shape
<1>10. \A y \in Actors : attempt'[y] = attempt[y] \/ AttemptInv(y)'
  BY <1>4, <1>5 DEF DeliveryInv, Shape
<1> QED
  BY <1>7, <1>8, <1>9, <1>10, StepKeeps

-----------------------------------------------------------------------------
(* The recovery loop, restarts and crashes. *)

(* The recovery turns to another entry, or stops. *)
LEMMA RecoveryTurns ==
    ASSUME DeliveryInv, UNCHANGED <<disk, failedDir, order, history>>,
           NEW a \in AttemptShape, a.at \in {"idle", "moving"} \/ (a.at = "sending" /\ a.next = 1),
           attempt' = [attempt EXCEPT ![Recovery] = a]
    PROVE  DeliveryInv'
<1>1. attempt'[Recovery] = a
  BY DEF DeliveryInv, Shape
<1>2. a.next = 1 => 1..(a.next - 1) = {}
  OBVIOUS
<1>3. AttemptInv(Recovery)'
  BY <1>1, <1>2 DEF AttemptInv
<1> QED
  BY <1>3, QuietStep

LEMMA RecoverKeeps ==
    ASSUME DeliveryInv, Recover
    PROVE  DeliveryInv'
<1>1. attempt[Recovery] \in AttemptShape
  BY DEF DeliveryInv, Shape
<1>2. CASE LoadPending
  <2> DEFINE a == [Idle(attempt[Recovery].of) EXCEPT !.queued = TRUE]
  <2>1. a \in AttemptShape /\ a.at = "idle"
    BY <1>1, IdleShape DEF Idle, AttemptShape
  <2>2. attempt' = [attempt EXCEPT ![Recovery] = a]
    BY <1>2 DEF LoadPending
  <2> QED
    BY <1>2, <2>1, <2>2, RecoveryTurns DEF LoadPending
<1>3. CASE MoveToFailed
  BY <1>3, MoveToFailedKeeps
<1>4. CASE BudgetExceeded
  BY <1>4, NothingMoves DEF BudgetExceeded
<1>5. ASSUME NEW i \in DOMAIN order, GiveUp(i)
      PROVE  DeliveryInv'
  <2> DEFINE a == [Idle(order[i]) EXCEPT !.at = "moving", !.queued = TRUE]
  <2>1. order[i] \in Deliveries
    BY DEF DeliveryInv, Shape
  <2>2. a \in AttemptShape /\ a.at = "moving"
    BY <2>1, IdleShape DEF Idle, AttemptShape, Stages
  <2> QED
    BY <1>5, <2>2, RecoveryTurns DEF GiveUp, LooksAt
<1>6. ASSUME NEW i \in DOMAIN order, Defer(i)
      PROVE  DeliveryInv'
  BY <1>6, NothingMoves DEF Defer, LooksAt
<1>7. ASSUME NEW i \in DOMAIN order, Replay(i)
      PROVE  DeliveryInv'
  <2> DEFINE a == [Idle(order[i]) EXCEPT !.at = "sending", !.queued = TRUE]
  <2>1. order[i] \in Deliveries
    BY DEF DeliveryInv, Shape
  <2>2. a \in AttemptShape /\ a.at = "sending" /\ a.next = 1
    BY <2>1, IdleShape DEF Idle, AttemptShape, Stages
  <2> QED
    BY <1>7, <2>2, RecoveryTurns DEF Replay, LooksAt
<1> QED
  BY <1>2, <1>3, <1>4, <1>5, <1>6, <1>7 DEF Recover

LEMMA RestartKeeps ==
    ASSUME DeliveryInv, RestartInProcess
    PROVE  DeliveryInv'
<1> DEFINE a == [attempt[Recovery] EXCEPT !.queued = FALSE]
<1>1. attempt[Recovery] \in AttemptShape
  BY DEF DeliveryInv, Shape
<1>2. a \in AttemptShape /\ a.at = "idle"
  BY <1>1 DEF RestartInProcess, AttemptShape
<1>3. attempt' = [attempt EXCEPT ![Recovery] = a]
  BY DEF RestartInProcess
<1> QED
  BY <1>2, <1>3, RecoveryTurns DEF RestartInProcess

LEMMA CrashKeeps ==
    ASSUME DeliveryInv, Crash
    PROVE  DeliveryInv'
<1>1. ASSUME NEW x \in Actors, attempt'[x] # attempt[x]
      PROVE  /\ attempt'[x] \in AttemptShape
             /\ attempt'[x].of = attempt[x].of
             /\ attempt'[x].at = IF x = Recovery THEN "idle" ELSE "done"
  <2>1. attempt[x].of \in Deliveries
    BY DEF DeliveryInv, Shape, AttemptShape
  <2>2. attempt'[x] = [Idle(attempt[x].of) EXCEPT !.at = IF x = Recovery THEN "idle" ELSE "done"]
    BY <1>1 DEF Crash
  <2> QED
    BY <2>1, <2>2, IdleShape DEF Idle, AttemptShape, Stages
<1>2. \A x \in Actors : attempt'[x] = attempt[x] \/ AttemptInv(x)'
  <2> SUFFICES ASSUME NEW x \in Actors, attempt'[x] # attempt[x]
               PROVE  AttemptInv(x)'
    OBVIOUS
  <2>1. x # Recovery => attempt[x].of = x
    BY DEF DeliveryInv, AttemptInv
  <2> QED
    BY <1>1, <2>1 DEF AttemptInv
<1>3. attempt' \in [Actors -> AttemptShape]
  <2>1. attempt' = [x \in Actors |-> attempt'[x]]
    BY DEF Crash
  <2>2. \A x \in Actors : attempt'[x] \in AttemptShape
    BY <1>1 DEF DeliveryInv, Shape
  <2> QED
    BY <2>1, <2>2
<1>4. Shape'
  BY <1>3 DEF DeliveryInv, Shape, Crash, history
<1>5. Keeps
  BY DEF Crash, Keeps, Covered, history
<1>6. FilesKept
  BY DEF Crash, FilesKept, Accepted, OnDisk
<1> QED
  BY <1>2, <1>4, <1>5, <1>6, StepKeeps

-----------------------------------------------------------------------------
LEMMA DeliveryNext == DeliveryInv /\ [Next]_vars => DeliveryInv'
<1> SUFFICES ASSUME DeliveryInv, [Next]_vars PROVE DeliveryInv'
  OBVIOUS
<1>1. CASE UNCHANGED vars
  BY <1>1, NothingMoves DEF vars, history
<1>2. ASSUME NEW d \in Deliveries, Live(d)
      PROVE  DeliveryInv'
  BY <1>2, DeliverKeeps, EnqueueDeliveryKeeps, EnqueueFailsKeeps, AbortKeeps DEF Live
<1>3. ASSUME NEW x \in Actors, Core(x)
      PROVE  DeliveryInv'
  BY <1>3, SendPayloadKeeps, PassOverKeeps, CoreReturnsKeeps, CoreThrowsKeeps DEF Core
<1>4. ASSUME NEW x \in Actors, Settle(x)
      PROVE  DeliveryInv'
  BY <1>4, AckDeliveryKeeps, AckFailsKeeps, FailDeliveryKeeps, FailIsLostKeeps, RewriteEntryKeeps
     DEF Settle
<1> QED
  BY <1>1, <1>2, <1>3, <1>4, RecoverKeeps, RestartKeeps, CrashKeeps DEF Next

(* At least once, but for the two losses NeverLost names: no crash,        *)
(* restart, failing file operation or overlapping recovery makes the queue *)
(* forget a delivery that it has accepted.                                 *)
THEOREM DeliveryNeverLost == Spec => []NeverLost
<1>1. DeliveryInv => NeverLost
  BY DEF DeliveryInv
<1> QED
  BY <1>1, DeliveryInit, DeliveryNext, PTL DEF Spec
=============================================================================
