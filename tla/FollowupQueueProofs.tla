-------------------------- MODULE FollowupQueueProofs --------------------------
(***************************************************************************)
(* The safety of the followup queue for any messages, objects, settings    *)
(* and capacities.  What holds only where the session is not cleared, or   *)
(* where a run does not end under a message that saw it active, has that   *)
(* as its hypothesis.                                                      *)
(*                                                                         *)
(* The drain has much control and little effect: each of its steps parks   *)
(* it, lets it collect, begins a followup turn or completes one.  Each     *)
(* action is shown once to be such a step, and each invariant to be kept   *)
(* by such steps, by an enqueue and by a clearing.                         *)
(***************************************************************************)
EXTENDS FollowupQueue, SequenceTheorems, TLAPS

Items(o) == ToSet(queue[o].items)
Batch(o) == ToSet(drain[o].batch)

(* t is s without its first k elements. *)
Drops(s, t, k) ==
    /\ k \in 0..Len(s) /\ Len(t) = Len(s) - k
    /\ \A i \in 1..Len(t) : t[i] = s[i + k]

LEMMA ElementsOf ==
    ASSUME NEW s \in Seq(Messages)
    PROVE  /\ Len(s) \in Nat /\ DOMAIN s = 1..Len(s)
           /\ \A i \in DOMAIN s : s[i] \in Messages /\ s[i] \in ToSet(s)
           /\ \A m \in ToSet(s) : \E i \in DOMAIN s : s[i] = m
           /\ ToSet(s) \subseteq Messages
           /\ s = <<>> <=> Len(s) = 0
           /\ s = <<>> <=> ToSet(s) = {}
<1>1. Len(s) \in Nat /\ DOMAIN s = 1..Len(s) /\ (s = <<>> <=> Len(s) = 0)
  OBVIOUS
<1>2. \A i \in DOMAIN s : s[i] \in Messages
  BY <1>1
<1>3. Len(s) # 0 => 1 \in DOMAIN s
  BY <1>1
<1>4. Len(s) = 0 => DOMAIN s = {}
  BY <1>1
<1> QED
  BY <1>1, <1>2, <1>3, <1>4 DEF ToSet

LEMMA AppendIs ==
    ASSUME NEW s \in Seq(Messages), NEW m \in Messages, NEW t, t = Append(s, m)
    PROVE  /\ t \in Seq(Messages) /\ Len(t) = Len(s) + 1
           /\ \A i \in 1..Len(s) : t[i] = s[i]
           /\ t[Len(s) + 1] = m
           /\ ToSet(t) = ToSet(s) \union {m}
<1>1. /\ Append(s, m) \in Seq(Messages) /\ Len(Append(s, m)) = Len(s) + 1
      /\ \A i \in 1..Len(s) : Append(s, m)[i] = s[i]
      /\ Append(s, m)[Len(s) + 1] = m
  OBVIOUS
<1>2. /\ Len(s) \in Nat /\ DOMAIN s = 1..Len(s) /\ DOMAIN Append(s, m) = 1..Len(s) + 1
  BY <1>1
<1>3. ToSet(Append(s, m)) = ToSet(s) \union {m}
  BY <1>1, <1>2 DEF ToSet
<1> QED
  BY <1>1, <1>3

LEMMA SuffixIs ==
    ASSUME NEW s \in Seq(Messages), NEW k \in Nat, NEW t, t = SubSeq(s, k + 1, Len(s))
    PROVE  /\ t \in Seq(Messages)
           /\ Drops(s, t, IF k <= Len(s) THEN k ELSE Len(s))
<1>1. Len(s) \in Nat /\ \A i \in 1..Len(s) : s[i] \in Messages
  OBVIOUS
<1>2. \A i \in (k + 1)..Len(s) : s[i] \in Messages
  BY <1>1
<1>3. /\ SubSeq(s, k + 1, Len(s)) \in Seq(Messages)
      /\ Len(SubSeq(s, k + 1, Len(s))) = IF k + 1 <= Len(s) THEN Len(s) - (k + 1) + 1 ELSE 0
      /\ \A i \in 1..(Len(s) - (k + 1) + 1) : SubSeq(s, k + 1, Len(s))[i] = s[k + 1 + i - 1]
  BY <1>1, <1>2, SubSeqProperties
<1>4. CASE k + 1 <= Len(s)
  BY <1>1, <1>3, <1>4 DEF Drops
<1>5. CASE k + 1 > Len(s)
  <2>1. (IF k <= Len(s) THEN k ELSE Len(s)) = Len(s)
    BY <1>1, <1>5
  <2>2. t \in Seq(Messages) /\ Len(t) = 0
    BY <1>1, <1>3, <1>5
  <2>3. Drops(s, t, Len(s))
    BY <1>1, <2>2 DEF Drops
  <2> QED
    BY <2>1, <2>2, <2>3
<1> QED
  BY <1>1, <1>4, <1>5

LEMMA PrefixIs ==
    ASSUME NEW s \in Seq(Messages), NEW k \in 0..Len(s), NEW t, t = SubSeq(s, 1, k)
    PROVE  /\ t \in Seq(Messages) /\ Len(t) = k
           /\ \A i \in 1..k : t[i] = s[i]
<1>1. Len(s) \in Nat /\ \A i \in 1..Len(s) : s[i] \in Messages
  OBVIOUS
<1>2. \A i \in 1..k : s[i] \in Messages
  BY <1>1
<1>3. /\ SubSeq(s, 1, k) \in Seq(Messages)
      /\ Len(SubSeq(s, 1, k)) = IF 1 <= k THEN k - 1 + 1 ELSE 0
      /\ \A i \in 1..(k - 1 + 1) : SubSeq(s, 1, k)[i] = s[1 + i - 1]
  BY <1>1, <1>2, SubSeqProperties
<1> QED
  BY <1>1, <1>3

LEMMA ConcatIs ==
    ASSUME NEW s \in Seq(Messages), NEW u \in Seq(Messages), NEW t, t = s \o u
    PROVE  /\ t \in Seq(Messages) /\ Len(t) = Len(s) + Len(u)
           /\ \A i \in 1..Len(s) : t[i] = s[i]
           /\ \A i \in 1..Len(u) : t[Len(s) + i] = u[i]
           /\ \A i \in 1..Len(t) : i <= Len(s) \/ i - Len(s) \in 1..Len(u)
           /\ ToSet(t) = ToSet(s) \union ToSet(u)
<1>1. /\ t \in Seq(Messages) /\ Len(t) = Len(s) + Len(u)
      /\ \A i \in 1..Len(s) + Len(u) : t[i] = IF i <= Len(s) THEN s[i] ELSE u[i - Len(s)]
  BY ConcatProperties
<1>2. Len(s) \in Nat /\ Len(u) \in Nat /\ DOMAIN s = 1..Len(s) /\ DOMAIN u = 1..Len(u)
      /\ DOMAIN t = 1..Len(s) + Len(u)
  BY <1>1
<1>3. /\ \A i \in 1..Len(s) : t[i] = s[i]
      /\ \A i \in 1..Len(u) : t[Len(s) + i] = u[i]
      /\ \A i \in 1..Len(t) : i <= Len(s) \/ i - Len(s) \in 1..Len(u)
  BY <1>1, <1>2
<1>4. ToSet(t) \subseteq ToSet(s) \union ToSet(u)
  BY <1>1, <1>2, <1>3 DEF ToSet
<1>5. ASSUME NEW i \in DOMAIN u PROVE u[i] \in ToSet(t)
  <2>1. Len(s) + i \in DOMAIN t /\ t[Len(s) + i] = u[i]
    BY <1>2, <1>3
  <2> QED
    BY <2>1 DEF ToSet
<1>6. ASSUME NEW i \in DOMAIN s PROVE s[i] \in ToSet(t)
  <2>1. i \in DOMAIN t /\ t[i] = s[i]
    BY <1>2, <1>3
  <2> QED
    BY <2>1 DEF ToSet
<1>7. ToSet(s) \union ToSet(u) \subseteq ToSet(t)
  BY <1>5, <1>6 DEF ToSet
<1> QED
  BY <1>1, <1>3, <1>4, <1>7

-----------------------------------------------------------------------------
(* The steps of a drain. *)

Parked(d) == d \in Drains /\ d.at \in {"idle", "debounce"} /\ d.batch = <<>>
Others(o) == \A p \in Objects \ {o} : drain'[p] = drain[p]

(* What scheduleFollowupDrain and the finally block do: o's drain is over, *)
(* and the object the map holds has a drain if there is work left.         *)
Parks(o) ==
    /\ Parked(drain'[o]) /\ drain' \in [Objects -> Drains]
    /\ \A p \in Objects \ {o} :
         drain'[p] = drain[p] \/ (Parked(drain'[p]) /\ drain[p].at = "idle" /\ p = current)
    /\ HasWork(queue'[o]) =>
         current' = current /\ (current # NoQueue => drain'[current].at # "idle")
    /\ ~HasWork(queue'[o]) =>
         current' = NoQueue /\ drain'[o].at = "idle" /\ Others(o)
    /\ callback' \in BOOLEAN

Collects(o) ==
    /\ drain[o].at = "debounce"
    /\ drain' \in [Objects -> Drains] /\ drain'[o].at = "collecting" /\ drain'[o].batch = drain[o].batch
    /\ ~CrossChannel(queue[o].items)
    /\ Others(o)
    /\ UNCHANGED <<current, callback>>

(* The turn holds the first items of the queue, or the summary alone. *)
Begins(o) ==
    LET s == queue[o].items
        d == drain'[o]
    IN /\ drain' \in [Objects -> Drains] /\ d.at = "running"
       /\ d.takes <= Len(s)
       /\ d.batch = SubSeq(s, 1, d.takes) \/ (d.batch = <<>> /\ queue[o].dropped # {})
       /\ drain[o].at = "collecting" \/ d.takes = 1
       /\ d.late = drain[o].late
       /\ Others(o)
       /\ UNCHANGED <<current, callback>>

Completes(o) ==
    /\ drain[o].at = "running"
    /\ queue' = [queue EXCEPT ![o] = queue'[o]] /\ queue'[o] \in QueueStates
    /\ queue'[o].items = SubSeq(queue[o].items, drain[o].takes + 1, Len(queue[o].items))
    /\ queue'[o].dropped \subseteq queue[o].dropped
    /\ answered' = answered \o drain[o].batch
    /\ excused \subseteq excused' /\ excused' \subseteq Messages
    /\ \/ Parks(o)
       \/ /\ Parked(drain'[o]) /\ drain'[o].at = "debounce" /\ Others(o)
          /\ drain' \in [Objects -> Drains]
          /\ UNCHANGED <<current, callback>>
    /\ UNCHANGED <<stage, accepted, cleared>>

Waiting == [NoDrain EXCEPT !.at = "debounce"]

LEMMA RestingDrains == Parked(NoDrain) /\ NoDrain.at = "idle" /\ Parked(Waiting) /\ Waiting.at = "debounce"
<1>1. <<>> \in Seq(Messages)
  OBVIOUS
<1> QED
  BY <1>1 DEF Parked, NoDrain, Waiting, Drains

LEMMA Schedules ==
    ASSUME NEW drains \in [Objects -> Drains], NEW held \in Objects \union {NoQueue},
           callback \in BOOLEAN, ScheduleDrain(drains, held)
    PROVE  /\ \A p \in Objects :
                drain'[p] = drains[p]
                \/ (Parked(drain'[p]) /\ drains[p].at = "idle" /\ p = held)
           /\ drain' \in [Objects -> Drains]
           /\ held # NoQueue => drain'[held].at # "idle"
           /\ current' = held /\ callback' \in BOOLEAN
<1>1. CASE held # NoQueue /\ drains[held].at = "idle"
  <2>1. drain' = [drains EXCEPT ![held] = Waiting]
    BY <1>1 DEF ScheduleDrain, Waiting
  <2>2. Waiting \in Drains
    BY RestingDrains DEF Parked
  <2> QED
    BY <1>1, <2>1, <2>2, RestingDrains DEF ScheduleDrain
<1>2. CASE ~(held # NoQueue /\ drains[held].at = "idle")
  BY <1>2 DEF ScheduleDrain
<1> QED
  BY <1>1, <1>2

LEMMA EndParks ==
    ASSUME TypeOK, NEW o \in Objects, EndDrain(o)
    PROVE  Parks(o)
<1> DEFINE ended == [drain EXCEPT ![o] = NoDrain]
<1>1. /\ ended \in [Objects -> Drains] /\ ended[o] = NoDrain
      /\ \A p \in Objects \ {o} : ended[p] = drain[p]
  BY RestingDrains DEF TypeOK, Parked
<1>2. current \in Objects \union {NoQueue} /\ callback \in BOOLEAN
  BY DEF TypeOK
<1>3. HasWork(queue'[o]) => ScheduleDrain(ended, current)
  BY DEF EndDrain
<1>4. ~HasWork(queue'[o]) => drain' = ended /\ current' = NoQueue /\ UNCHANGED callback
  BY DEF EndDrain
<1> HIDE DEF ended
<1>5. CASE HasWork(queue'[o])
  BY <1>1, <1>2, <1>3, <1>5, Schedules, RestingDrains DEF Parks
<1>6. CASE ~HasWork(queue'[o])
  BY <1>1, <1>2, <1>4, <1>6, RestingDrains DEF Parks, Others
<1> QED
  BY <1>5, <1>6

LEMMA AwaitsBegins ==
    ASSUME TypeOK, NEW o \in Objects, NEW forced \in BOOLEAN, NEW batch \in Seq(Messages),
           NEW told \in SUBSET Messages, NEW takes \in Nat,
           Awaits(o, forced, batch, told, takes),
           takes <= Len(queue[o].items),
           \/ batch = SubSeq(queue[o].items, 1, takes)
           \/ batch = <<>> /\ queue[o].dropped # {},
           drain[o].at = "collecting" \/ takes = 1
    PROVE  Begins(o)
<1> DEFINE d == [drain[o] EXCEPT !.at = "running", !.forced = forced, !.batch = batch,
                                 !.told = told, !.takes = takes]
<1>0. drain[o] \in Drains
  BY DEF TypeOK
<1>1. /\ d \in Drains /\ d.at = "running" /\ d.takes = takes /\ d.batch = batch
      /\ d.late = drain[o].late
  BY <1>0 DEF Drains
<1>2. drain' = [drain EXCEPT ![o] = d] /\ UNCHANGED <<current, callback>>
  BY DEF Awaits, TypeOK
<1> HIDE DEF d
<1>3. drain'[o] = d /\ Others(o) /\ drain' \in [Objects -> Drains]
  BY <1>1, <1>2 DEF TypeOK, Others
<1> QED
  BY <1>1, <1>2, <1>3 DEF Begins

LEMMA QueueTypes ==
    ASSUME TypeOK, NEW o \in Objects
    PROVE  /\ queue[o].items \in Seq(Messages) /\ Len(queue[o].items) \in Nat
           /\ queue[o].dropped \in SUBSET Messages
           /\ drain[o] \in Drains /\ drain[o].forced \in BOOLEAN
           /\ drain[o].batch \in Seq(Messages) /\ drain[o].takes \in Nat
           /\ drain[o].told \in SUBSET Messages
           /\ queue[o] \in QueueStates
BY DEF TypeOK, QueueStates, Drains

LEMMA Elapses ==
    ASSUME TypeOK, NEW o \in Objects, DebounceElapses(o)
    PROVE  Parks(o) \/ Collects(o) \/ Begins(o)
<1> DEFINE s == queue[o].items
<1>1. s \in Seq(Messages) /\ Len(s) \in Nat /\ (s # <<>> => 1 <= Len(s))
  BY QueueTypes, ElementsOf
<1>2. ASSUME NEW forced \in BOOLEAN, NEW batch \in Seq(Messages), NEW told \in SUBSET Messages,
             RunNextItem(o, forced, batch, told),
             batch = SubSeq(s, 1, 1) \/ (batch = <<>> /\ queue[o].dropped # {})
      PROVE  Parks(o) \/ Begins(o)
  <2>1. CASE s = <<>>
    BY <1>2, <2>1, EndParks DEF RunNextItem
  <2>2. CASE s # <<>>
    <3>1. Awaits(o, forced, batch, told, 1)
      BY <1>2, <2>2 DEF RunNextItem
    <3> QED
      BY <1>1, <1>2, <2>2, <3>1, AwaitsBegins
  <2> QED
    BY <2>1, <2>2
<1>3. s # <<>> => SubSeq(s, 1, 1) \in Seq(Messages)
  BY <1>1, PrefixIs
<1>4. ASSUME NEW forced \in BOOLEAN, RunNextItem(o, forced, SubSeq(s, 1, 1), {})
      PROVE  Parks(o) \/ Begins(o)
  <2>1. CASE s = <<>>
    BY <1>4, <2>1, EndParks DEF RunNextItem
  <2>2. CASE s # <<>>
    <3>1. PICK batch \in Seq(Messages), told \in SUBSET Messages :
            batch = SubSeq(s, 1, 1) /\ told = {}
      BY <1>3, <2>2
    <3>2. RunNextItem(o, forced, batch, told)
      BY <1>4, <3>1
    <3> QED
      BY <1>2, <3>1, <3>2
  <2> QED
    BY <2>1, <2>2
<1>5. ASSUME RunNextItem(o, drain[o].forced, <<>>, queue[o].dropped), queue[o].dropped # {}
      PROVE  Parks(o) \/ Begins(o)
  <2>0. <<>> \in Seq(Messages)
    OBVIOUS
  <2>1. PICK batch \in Seq(Messages) : batch = <<>>
    BY <2>0
  <2>2. PICK forced \in BOOLEAN, told \in SUBSET Messages :
          forced = drain[o].forced /\ told = queue[o].dropped
    BY QueueTypes
  <2>3. RunNextItem(o, forced, batch, told)
    BY <1>5, <2>1, <2>2
  <2> QED
    BY <1>2, <1>5, <2>1, <2>3
<1>6. ASSUME drain' = [drain EXCEPT ![o].at = "collecting"], ~CrossChannel(s),
             UNCHANGED <<current, callback>>
      PROVE  Collects(o)
  <2> DEFINE d == [drain[o] EXCEPT !.at = "collecting"]
  <2>1. d \in Drains /\ d.at = "collecting" /\ d.batch = drain[o].batch
    BY QueueTypes DEF Drains
  <2>2. drain' = [drain EXCEPT ![o] = d]
    BY <1>6 DEF TypeOK
  <2> HIDE DEF d
  <2>3. drain'[o] = d /\ Others(o) /\ drain' \in [Objects -> Drains]
    BY <2>1, <2>2 DEF TypeOK, Others
  <2>4. drain[o].at = "debounce"
    BY DEF DebounceElapses
  <2> QED
    BY <1>6, <2>1, <2>3, <2>4 DEF Collects
<1> HIDE DEF s
<1> QED
  BY <1>4, <1>5, <1>6, EndParks, QueueTypes DEF DebounceElapses, s, HasSummary

LEMMA CollectSteps ==
    ASSUME TypeOK, NEW o \in Objects, Collect(o)
    PROVE  Parks(o) \/ Begins(o)
<1> DEFINE s == queue[o].items
           told == IF HasSummary(queue[o]) THEN queue[o].dropped ELSE {}
<1>1. /\ s \in Seq(Messages) /\ Len(s) \in Nat /\ s = SubSeq(s, 1, Len(s))
      /\ told \in SUBSET Messages /\ drain[o].forced \in BOOLEAN
  BY QueueTypes, SubSeqFull
<1>2. EndDrain(o) \/ Awaits(o, drain[o].forced, s, told, Len(s))
  BY DEF Collect
<1>3. drain[o].at = "collecting"
  BY DEF Collect
<1> HIDE DEF s, told
<1>4. CASE Awaits(o, drain[o].forced, s, told, Len(s))
  <2>1. Len(s) <= Len(queue[o].items) /\ s = SubSeq(queue[o].items, 1, Len(s))
    BY <1>1 DEF s
  <2> QED
    BY <1>1, <1>3, <1>4, <2>1, AwaitsBegins
<1> QED
  BY <1>2, <1>4, EndParks

LEMMA RunCompletesIs ==
    ASSUME TypeOK, NEW o \in Objects, RunCompletes(o)
    PROVE  Completes(o)
<1> DEFINE s == SubSeq(queue[o].items, drain[o].takes + 1, Len(queue[o].items))
           left == IF drain[o].told # {} THEN {} ELSE queue[o].dropped
           q == [queue[o] EXCEPT !.items = s, !.dropped = left]
<1>1. s \in Seq(Messages)
  BY QueueTypes, SuffixIs
<1>2. q \in QueueStates /\ q.items = s /\ q.dropped = left
  BY <1>1, QueueTypes DEF QueueStates
<1>3. queue' = [queue EXCEPT ![o] = q]
  BY DEF RunCompletes, TypeOK
<1>4. left \subseteq queue[o].dropped
  OBVIOUS
<1> HIDE DEF q, left
<1>5. queue'[o] = q
  BY <1>3 DEF TypeOK
<1>6. \/ Parks(o)
      \/ /\ Parked(drain'[o]) /\ drain'[o].at = "debounce" /\ Others(o)
         /\ drain' \in [Objects -> Drains]
         /\ UNCHANGED <<current, callback>>
  <2>1. CASE HasWork(queue'[o])
    <3> DEFINE d == [NoDrain EXCEPT !.at = "debounce", !.forced = drain[o].forced]
    <3>1. <<>> \in Seq(Messages)
      OBVIOUS
    <3>2. Parked(d) /\ d.at = "debounce"
      BY <3>1, QueueTypes DEF NoDrain, Parked, Drains
    <3>3. drain' = [drain EXCEPT ![o] = d] /\ UNCHANGED <<current, callback>>
      BY <2>1 DEF RunCompletes
    <3> HIDE DEF d
    <3>4. d \in Drains
      BY <3>2 DEF Parked
    <3> QED
      BY <3>2, <3>3, <3>4 DEF TypeOK, Others
  <2>2. CASE ~HasWork(queue'[o])
    BY <2>2, EndParks DEF RunCompletes
  <2> QED
    BY <2>1, <2>2
<1>7. excused \subseteq excused' /\ excused' \subseteq Messages
  BY QueueTypes DEF RunCompletes, TypeOK
<1> QED
  BY <1>2, <1>3, <1>4, <1>5, <1>6, <1>7 DEF RunCompletes, Completes

Still == UNCHANGED <<queue, stage, accepted, answered, excused, cleared>>

LEMMA DrainSteps ==
    ASSUME TypeOK, NEW o \in Objects, Drain(o)
    PROVE  /\ Draining(o)
           /\ drain[o].at = "running" => MayEndRun
           /\ \/ Still /\ (Parks(o) \/ Collects(o) \/ Begins(o))
              \/ Completes(o)
<1>1. Draining(o) /\ (drain[o].at = "running" => MayEndRun)
  BY DEF Drain, DebounceElapses, Collect, RunCompletes, RunThrows, Draining
<1>2. ASSUME DebounceElapses(o) PROVE Still /\ (Parks(o) \/ Collects(o) \/ Begins(o))
  <2>1. Still
    BY <1>2 DEF Still, DebounceElapses
  <2> QED
    BY <1>2, <2>1, Elapses
<1>3. ASSUME Collect(o) PROVE Still /\ (Parks(o) \/ Begins(o))
  <2>1. Still
    BY <1>3 DEF Still, Collect
  <2> QED
    BY <1>3, <2>1, CollectSteps
<1>4. ASSUME RunThrows(o) PROVE Still /\ Parks(o)
  <2>1. Still /\ EndDrain(o)
    BY <1>4 DEF Still, RunThrows
  <2> QED
    BY <2>1, EndParks
<1> QED
  BY <1>1, <1>2, <1>3, <1>4, RunCompletesIs DEF Drain

-----------------------------------------------------------------------------
(* An enqueue. *)

Rejects(m, o) ==
    /\ queue'[o] \in QueueStates
    /\ queue'[o].items = queue[o].items /\ queue'[o].dropped = queue[o].dropped
    /\ stage' = [stage EXCEPT ![m] = "rejected"]
    /\ UNCHANGED <<callback, drain, accepted, excused>>

(* The drain of the queue goes on awaiting its collect step. *)
Marked(m, o) ==
    /\ drain[o].at = "collecting" /\ drain'[o].at = "collecting"
    /\ drain'[o].batch = drain[o].batch /\ drain'[o].takes = drain[o].takes
    /\ drain'[o].late = drain[o].late \union {m}

Admits(m, o) ==
    /\ queue'[o] \in QueueStates
    /\ \E k \in 0..Len(queue[o].items) :
         /\ queue'[o].items = Append(SubSeq(queue[o].items, k + 1, Len(queue[o].items)), m)
         /\ DropPolicies \subseteq {"new"} => k = 0
    /\ Len(queue'[o].items) <= queue'[o].cap
    /\ DropPolicies \subseteq {"new"} => queue'[o].dropped = queue[o].dropped
    /\ stage' = [stage EXCEPT ![m] = "queued"]
    /\ accepted' = Append(accepted, m)
    /\ excused \subseteq excused' /\ excused' \subseteq Messages
    /\ drain' \in [Objects -> Drains] /\ callback' \in BOOLEAN
    /\ Others(o)
    /\ \/ drain'[o] = drain[o] /\ drain[o].at # "collecting"
       \/ Parked(drain'[o]) /\ drain[o].at = "idle"
       \/ Marked(m, o)

(* The queue that an enqueue finds or makes, and what it does to it. *)
Enqueues(m, o) ==
    /\ stage[m] = "held"
    /\ IsQueueFor(o) /\ current' = o
    /\ queue' = [queue EXCEPT ![o] = queue'[o]]
    /\ UNCHANGED <<answered, cleared>>
    /\ Rejects(m, o) \/ Admits(m, o)

LEMMA GetQueueIs ==
    ASSUME TypeOK, NEW o \in Objects, NEW s \in Settings, IsQueueFor(o),
           NEW q, q = GetQueue(o, s)
    PROVE  /\ q \in QueueStates
           /\ q.items = queue[o].items /\ q.dropped = queue[o].dropped
           /\ q.cap = s.cap /\ q.dropPolicy = s.dropPolicy
<1>1. /\ s.mode \in Modes /\ s.cap \in Caps /\ s.dropPolicy \in DropPolicies
  BY DEF Settings
<1>2. CASE current = NoQueue
  <2>1. queue[o].items = <<>> /\ queue[o].dropped = {}
    BY <1>2, NoQueueAssumption DEF IsQueueFor, HasWork
  <2>2. q = NewQueue(s) /\ <<>> \in Seq(Messages)
    BY <1>2 DEF GetQueue
  <2> QED
    BY <1>1, <2>1, <2>2 DEF NewQueue, QueueStates
<1>3. CASE current # NoQueue
  <2>1. q = [queue[o] EXCEPT !.mode = s.mode, !.cap = s.cap, !.dropPolicy = s.dropPolicy]
    BY <1>3 DEF GetQueue
  <2>2. queue[o] \in QueueStates
    BY QueueTypes
  <2> QED
    BY <1>1, <2>1, <2>2 DEF QueueStates
<1> QED
  BY <1>2, <1>3

LEMMA PushIs ==
    ASSUME NEW q \in QueueStates, NEW m \in Messages, NEW r, r = Push(q, m)
    PROVE  /\ r \in QueueStates
           /\ \E k \in 0..Len(q.items) :
                /\ r.items = Append(SubSeq(q.items, k + 1, Len(q.items)), m)
                /\ Len(q.items) < q.cap => k = 0
           /\ r.cap = q.cap /\ Len(r.items) <= q.cap
           /\ q.dropPolicy # "summarize" => r.dropped = q.dropped
<1> DEFINE s == q.items
<1>1. /\ s \in Seq(Messages) /\ Len(s) \in Nat /\ q.cap \in Caps /\ q.dropped \in SUBSET Messages
  BY ElementsOf DEF QueueStates
<1>2. q.cap \in Nat /\ q.cap >= 1
  <2>1. q.cap \in Nat \ {0}
    BY <1>1, CapsAssumption
  <2> QED
    BY <2>1
<1>3. PICK k \in 0..Len(s) : k = IF Len(s) < q.cap THEN 0 ELSE Len(s) - q.cap + 1
  BY <1>1, <1>2
<1>4. k \in Nat /\ k <= Len(s) /\ Len(s) - k + 1 <= q.cap /\ (Len(s) < q.cap => k = 0)
  BY <1>1, <1>2, <1>3
<1> DEFINE t == SubSeq(s, k + 1, Len(s))
           spliced == ToSet(SubSeq(s, 1, k))
           dropped == IF q.dropPolicy = "summarize" THEN q.dropped \union spliced ELSE q.dropped
<1>5. r = [q EXCEPT !.items = Append(t, m), !.dropped = dropped, !.lastRun = TRUE]
  BY <1>3 DEF Push
<1>6. t \in Seq(Messages) /\ Drops(s, t, k)
  <2>1. SubSeq(s, k + 1, Len(s)) \in Seq(Messages) /\ Drops(s, SubSeq(s, k + 1, Len(s)), k)
    BY <1>1, <1>4, SuffixIs
  <2> QED
    BY <2>1
<1>7. spliced \subseteq Messages
  <2>1. SubSeq(s, 1, k) \in Seq(Messages)
    BY <1>1, <1>3, PrefixIs
  <2> QED
    BY <2>1, ElementsOf
<1>8. dropped \in SUBSET Messages /\ (q.dropPolicy # "summarize" => dropped = q.dropped)
  BY <1>1, <1>7
<1> HIDE DEF spliced, dropped
<1>9. Append(t, m) \in Seq(Messages) /\ Len(Append(t, m)) = Len(s) - k + 1
  <2>1. Len(t) = Len(s) - k
    BY <1>6 DEF Drops
  <2> HIDE DEF t
  <2> QED
    BY <1>6, <2>1, AppendIs
<1> HIDE DEF t
<1>10. r \in QueueStates /\ r.items = Append(t, m) /\ r.dropped = dropped /\ r.cap = q.cap
  BY <1>5, <1>8, <1>9 DEF QueueStates
<1>11. t = SubSeq(q.items, k + 1, Len(q.items))
  BY DEF t
<1> QED
  BY <1>4, <1>8, <1>9, <1>10, <1>11

LEMMA MarkLateIs ==
    ASSUME TypeOK, NEW m \in Messages, NEW o \in Objects, NEW marked, marked = MarkLate(m, o)
    PROVE  /\ marked \in [Objects -> Drains]
           /\ \A p \in Objects \ {o} : marked[p] = drain[p]
           /\ drain[o].at # "collecting" => marked[o] = drain[o]
           /\ marked[o].at = drain[o].at
           /\ marked[o].batch = drain[o].batch /\ marked[o].takes = drain[o].takes
           /\ drain[o].at = "collecting" => marked[o].late = drain[o].late \union {m}
<1>1. drain \in [Objects -> Drains] /\ drain[o] \in Drains
  BY DEF TypeOK
<1>2. CASE drain[o].at = "collecting"
  <2> DEFINE d == [drain[o] EXCEPT !.late = @ \union {m}]
  <2>1. /\ d \in Drains /\ d.at = drain[o].at /\ d.batch = drain[o].batch
        /\ d.takes = drain[o].takes /\ d.late = drain[o].late \union {m}
    BY <1>1 DEF Drains
  <2>2. marked = [drain EXCEPT ![o] = d]
    BY <1>1, <1>2 DEF MarkLate
  <2> HIDE DEF d
  <2> QED
    BY <1>1, <1>2, <2>1, <2>2
<1>3. CASE drain[o].at # "collecting"
  BY <1>1, <1>3 DEF MarkLate
<1> QED
  BY <1>2, <1>3

LEMMA EnqueueIs ==
    ASSUME TypeOK, NEW m \in Messages, NEW o \in Objects, NEW s \in Settings, Enqueue(m, o, s)
    PROVE  Enqueues(m, o)
<1>1. PICK q : q = GetQueue(o, s)
  OBVIOUS
<1>2. IsQueueFor(o) /\ current \in Objects \union {NoQueue}
  BY DEF Enqueue, TypeOK
<1>3. /\ q \in QueueStates
      /\ q.items = queue[o].items /\ q.dropped = queue[o].dropped
      /\ q.cap = s.cap /\ q.dropPolicy = s.dropPolicy
  BY <1>1, <1>2, GetQueueIs
<1>4. s.cap \in Caps /\ s.dropPolicy \in DropPolicies
  BY DEF Settings
<1>5. stage[m] = "held" /\ UNCHANGED <<answered, cleared>>
  BY DEF Enqueue
<1>6. ASSUME NEW r \in QueueStates, queue' = [queue EXCEPT ![o] = r]
      PROVE  queue'[o] = r /\ queue' = [queue EXCEPT ![o] = queue'[o]]
  BY <1>6 DEF TypeOK
<1>7. CASE /\ AlreadyQueued(m, q.items)
           /\ queue' = [queue EXCEPT ![o] = q]
           /\ stage' = [stage EXCEPT ![m] = "rejected"]
           /\ current' = o
           /\ UNCHANGED <<callback, drain, accepted, excused>>
  <2>1. queue'[o] = q /\ queue' = [queue EXCEPT ![o] = queue'[o]]
    BY <1>3, <1>6, <1>7
  <2>2. Rejects(m, o)
    BY <1>3, <1>7, <2>1 DEF Rejects
  <2> QED
    BY <1>2, <1>5, <1>7, <2>1, <2>2 DEF Enqueues
<1>8. CASE /\ queue' = [queue EXCEPT ![o] = [q EXCEPT !.lastRun = TRUE]]
           /\ stage' = [stage EXCEPT ![m] = "rejected"]
           /\ current' = o
           /\ UNCHANGED <<callback, drain, accepted, excused>>
  <2>1. PICK r : r = [q EXCEPT !.lastRun = TRUE]
    OBVIOUS
  <2>2. r \in QueueStates /\ r.items = q.items /\ r.dropped = q.dropped
    BY <1>3, <2>1 DEF QueueStates
  <2>3. queue'[o] = r /\ queue' = [queue EXCEPT ![o] = queue'[o]]
    BY <1>6, <1>8, <2>1, <2>2
  <2>4. Rejects(m, o)
    BY <1>3, <1>8, <2>2, <2>3 DEF Rejects
  <2> QED
    BY <1>2, <1>5, <1>8, <2>3, <2>4 DEF Enqueues
<1>9. CASE /\ ~(s.dropPolicy = "new" /\ Len(q.items) >= s.cap)
           /\ queue' = [queue EXCEPT ![o] = Push(q, m)]
           /\ stage' = [stage EXCEPT ![m] = "queued"]
           /\ accepted' = Append(accepted, m)
           /\ excused' = IF s.dropPolicy = "old"
                         THEN excused \union (ToSet(q.items) \ ToSet(queue'[o].items))
                         ELSE excused
           /\ IF callback THEN ScheduleDrain(MarkLate(m, o), o)
                          ELSE current' = o /\ drain' = MarkLate(m, o) /\ UNCHANGED callback
  <2>1. PICK r : r = Push(q, m)
    OBVIOUS
  <2>2. /\ r \in QueueStates
        /\ \E k \in 0..Len(q.items) :
             /\ r.items = Append(SubSeq(q.items, k + 1, Len(q.items)), m)
             /\ Len(q.items) < q.cap => k = 0
        /\ Len(r.items) <= r.cap
        /\ q.dropPolicy # "summarize" => r.dropped = q.dropped
    BY <1>3, <2>1, PushIs
  <2>3. queue'[o] = r /\ queue' = [queue EXCEPT ![o] = queue'[o]]
    BY <1>6, <1>9, <2>1, <2>2
  <2>4. DropPolicies \subseteq {"new"} => Len(q.items) < q.cap /\ q.dropPolicy # "summarize"
    <3>1. q.items \in Seq(Messages) /\ q.cap \in Caps
      BY <1>3 DEF QueueStates
    <3>2. Len(q.items) \in Nat /\ q.cap \in Nat
      BY <3>1, ElementsOf, CapsAssumption
    <3>3. DropPolicies \subseteq {"new"} => q.dropPolicy = "new" /\ s.dropPolicy = "new"
      BY <1>3, <1>4
    <3>4. s.dropPolicy = "new" => ~(Len(q.items) >= q.cap)
      BY <1>3, <1>9
    <3> QED
      BY <3>2, <3>3, <3>4
  <2>5. /\ drain' \in [Objects -> Drains] /\ callback' \in BOOLEAN /\ current' = o
        /\ Others(o)
        /\ \/ drain'[o] = drain[o] /\ drain[o].at # "collecting"
           \/ Parked(drain'[o]) /\ drain[o].at = "idle"
           \/ Marked(m, o)
    <3>1. callback \in BOOLEAN
      BY DEF TypeOK
    <3>2. PICK marked : marked = MarkLate(m, o)
      OBVIOUS
    <3>3. /\ marked \in [Objects -> Drains]
          /\ \A p \in Objects \ {o} : marked[p] = drain[p]
          /\ drain[o].at # "collecting" => marked[o] = drain[o]
          /\ marked[o].at = drain[o].at
          /\ marked[o].batch = drain[o].batch /\ marked[o].takes = drain[o].takes
          /\ drain[o].at = "collecting" => marked[o].late = drain[o].late \union {m}
      BY <3>2, MarkLateIs
    <3>4. /\ drain' \in [Objects -> Drains] /\ callback' \in BOOLEAN /\ current' = o
          /\ \A p \in Objects :
               drain'[p] = marked[p] \/ (Parked(drain'[p]) /\ marked[p].at = "idle" /\ p = o)
      <4>1. CASE callback
        BY <1>9, <3>1, <3>2, <3>3, <4>1, Schedules
      <4>2. CASE ~callback
        BY <1>9, <3>1, <3>2, <3>3, <4>2
      <4> QED
        BY <3>1, <4>1, <4>2
    <3> QED
      BY <3>3, <3>4 DEF Others, Marked
  <2>6. excused \subseteq excused' /\ excused' \subseteq Messages
    <3>1. ToSet(q.items) \subseteq Messages
      BY <1>3, ElementsOf DEF QueueStates
    <3> QED
      BY <1>9, <3>1 DEF TypeOK
  <2>7. Admits(m, o)
    BY <1>3, <1>4, <1>9, <2>2, <2>3, <2>4, <2>5, <2>6 DEF Admits
  <2> QED
    BY <1>2, <1>5, <2>3, <2>5, <2>7 DEF Enqueues
<1> QED
  BY <1>1, <1>7, <1>8, <1>9 DEF Enqueue

(* The other steps. *)
Clears ==
    /\ MayClear /\ cleared' = TRUE /\ current' = NoQueue /\ callback' = FALSE
    /\ queue' \in [Objects -> QueueStates]
    /\ \A o \in Objects :
         queue'[o] = queue[o] \/ (queue'[o].items = <<>> /\ queue'[o].dropped = {})
    /\ excused \subseteq excused' /\ excused' \subseteq Messages
    /\ UNCHANGED <<drain, stage, accepted, answered>>

LEMMA ClearIs == ASSUME TypeOK, ClearSessionQueues PROVE Clears
<1>1. CASE current = NoQueue
  BY <1>1 DEF ClearSessionQueues, Clears, TypeOK
<1>2. CASE current # NoQueue
  <2> DEFINE r == [queue[current] EXCEPT !.items = <<>>, !.dropped = {}, !.lastRun = FALSE]
  <2>1. current \in Objects /\ <<>> \in Seq(Messages)
    BY <1>2 DEF TypeOK
  <2>2. r \in QueueStates /\ r.items = <<>> /\ r.dropped = {}
    BY <2>1, QueueTypes DEF QueueStates
  <2>3. queue' = [queue EXCEPT ![current] = r]
    BY <1>2, <2>1 DEF ClearSessionQueues, TypeOK
  <2> HIDE DEF r
  <2>4. /\ queue' \in [Objects -> QueueStates]
        /\ \A o \in Objects :
             queue'[o] = queue[o] \/ (queue'[o].items = <<>> /\ queue'[o].dropped = {})
    BY <2>1, <2>2, <2>3 DEF TypeOK
  <2>5. ToSet(queue[current].items) \subseteq Messages /\ queue[current].dropped \subseteq Messages
    BY <2>1, QueueTypes, ElementsOf
  <2>6. excused \subseteq excused' /\ excused' \subseteq Messages
    BY <1>2, <2>5 DEF ClearSessionQueues, TypeOK
  <2> QED
    BY <2>4, <2>6 DEF ClearSessionQueues, Clears
<1> QED
  BY <1>1, <1>2

LEMMA NextSteps ==
    ASSUME TypeOK, Next
    PROVE  \/ \E o \in Objects : Drain(o)
           \/ \E m \in Messages : Arrive(m) \/ FinishRun(m)
           \/ \E m \in Messages, o \in Objects : Enqueues(m, o)
           \/ Clears
<1>1. ASSUME NEW m \in Messages, NEW o \in Objects, NEW s \in Settings, Enqueue(m, o, s)
      PROVE  Enqueues(m, o)
  BY <1>1, EnqueueIs
<1> QED
  BY <1>1, ClearIs DEF Next

-----------------------------------------------------------------------------
(* Types and capacities. *)


LEMMA FollowupInit == Init => TypeOK
<1> SUFFICES ASSUME Init PROVE TypeOK
  OBVIOUS
<1> DEFINE s == CHOOSE s \in Settings : TRUE
<1>1. s \in Settings
  <2>1. PICK a \in Modes, b \in Caps, c \in DropPolicies : TRUE
    BY SettingsAssumption
  <2>2. [mode |-> a, cap |-> b, dropPolicy |-> c] \in Settings
    BY <2>1 DEF Settings
  <2> QED
    BY <2>2
<1> HIDE DEF s
<1>2. <<>> \in Seq(Messages) /\ Len(<<>>) = 0
  OBVIOUS
<1>3. NewQueue(s) \in QueueStates /\ NewQueue(s).items = <<>>
  BY <1>1, <1>2 DEF NewQueue, QueueStates, Settings
<1>4. queue = [o \in Objects |-> NewQueue(s)]
  BY DEF Init, s
<1>5. NoDrain \in Drains
  BY RestingDrains DEF Parked
<1> QED
  BY <1>2, <1>3, <1>4, <1>5 DEF Init, TypeOK, Stages

LEMMA CompletesShorter ==
    ASSUME TypeOK, NEW o \in Objects, Completes(o)
    PROVE  Len(queue'[o].items) <= Len(queue[o].items)
<1>1. PICK t : t = queue'[o].items
  OBVIOUS
<1>2. t \in Seq(Messages) /\ Drops(queue[o].items, t,
            IF drain[o].takes <= Len(queue[o].items) THEN drain[o].takes ELSE Len(queue[o].items))
  BY <1>1, QueueTypes, SuffixIs DEF Completes
<1> QED
  BY <1>1, <1>2, QueueTypes DEF Drops

LEMMA FollowupTypes == ASSUME TypeOK, [Next]_vars PROVE TypeOK'
<1>1. ASSUME NEW o \in Objects, Drain(o) PROVE TypeOK'
  <2>1. ASSUME Parks(o) \/ Collects(o) \/ Begins(o)
        PROVE  drain' \in [Objects -> Drains] /\ current' \in Objects \union {NoQueue}
               /\ callback' \in BOOLEAN
    BY <2>1 DEF Parks, Collects, Begins, TypeOK
  <2>2. CASE Still /\ (Parks(o) \/ Collects(o) \/ Begins(o))
    BY <2>1, <2>2 DEF Still, TypeOK
  <2>3. CASE Completes(o)
    <3>1. drain' \in [Objects -> Drains] /\ current' \in Objects \union {NoQueue}
          /\ callback' \in BOOLEAN
      BY <2>1, <2>3 DEF Completes, TypeOK
    <3>2. answered' \in Seq(Messages)
      BY <2>3, QueueTypes, ConcatIs DEF Completes, TypeOK
    <3>3. /\ queue' = [queue EXCEPT ![o] = queue'[o]] /\ queue'[o] \in QueueStates
          /\ excused' \subseteq Messages /\ UNCHANGED <<stage, accepted, cleared>>
      BY <2>3 DEF Completes
    <3> QED
      BY <3>1, <3>2, <3>3 DEF TypeOK
  <2> QED
    BY <1>1, <2>2, <2>3, DrainSteps
<1>2. ASSUME NEW m \in Messages, Arrive(m) \/ FinishRun(m) PROVE TypeOK'
  <2>1. CASE Arrive(m)
    BY <2>1 DEF Arrive, TypeOK, Stages
  <2>2. CASE FinishRun(m)
    <3>1. drain' \in [Objects -> Drains] /\ current' = current /\ callback' \in BOOLEAN
      BY <2>2, Schedules DEF FinishRun, TypeOK
    <3> QED
      BY <2>2, <3>1 DEF FinishRun, TypeOK, Stages
  <2> QED
    BY <1>2, <2>1, <2>2
<1>3. ASSUME NEW m \in Messages, NEW o \in Objects, Enqueues(m, o) PROVE TypeOK'
  <2>0. /\ queue' = [queue EXCEPT ![o] = queue'[o]] /\ current' = o
        /\ UNCHANGED <<answered, cleared>>
    BY <1>3 DEF Enqueues
  <2>1. CASE Rejects(m, o)
    <3>1. /\ queue'[o] \in QueueStates
          /\ stage' = [stage EXCEPT ![m] = "rejected"]
          /\ UNCHANGED <<callback, drain, accepted, excused>>
      BY <2>1 DEF Rejects
    <3> QED
      BY <2>0, <3>1 DEF TypeOK, Stages
  <2>2. CASE Admits(m, o)
    <3>1. /\ queue'[o] \in QueueStates
          /\ stage' = [stage EXCEPT ![m] = "queued"]
          /\ accepted' = Append(accepted, m) /\ excused' \subseteq Messages
          /\ drain' \in [Objects -> Drains] /\ callback' \in BOOLEAN
      BY <2>2 DEF Admits
    <3>2. accepted' \in Seq(Messages)
      BY <3>1, AppendIs DEF TypeOK
    <3> QED
      BY <2>0, <3>1, <3>2 DEF TypeOK, Stages
  <2> QED
    BY <1>3, <2>1, <2>2 DEF Enqueues
<1>4. ASSUME Clears PROVE TypeOK'
  BY <1>4 DEF Clears, TypeOK
<1>5. CASE UNCHANGED vars
  BY <1>5 DEF vars, TypeOK
<1> QED
  BY <1>1, <1>2, <1>3, <1>4, <1>5, NextSteps

(* The types, whatever arrives, fails, is dropped or cleared. *)
THEOREM FollowupTyped == Spec => []TypeOK
<1> QED
  BY FollowupInit, FollowupTypes, PTL DEF Spec

(* However messages arrive, and whatever cap the settings ask for: the     *)
(* queue that admits a message is within the cap it has by then, and no    *)
(* other step makes a queue longer.                                        *)
THEOREM FollowupCapHolds == Spec => CapHolds
<1> DEFINE Within ==
             /\ accepted' # accepted => Len(queue'[current'].items) <= queue'[current'].cap
             /\ \A o \in Objects :
                  \/ Len(queue'[o].items) <= Len(queue[o].items)
                  \/ accepted' # accepted /\ o = current'
<1>0. ASSUME TypeOK, NEW o \in Objects, queue'[o] = queue[o] \/ queue'[o].items = queue[o].items
      PROVE  Len(queue'[o].items) <= Len(queue[o].items)
  BY <1>0, QueueTypes
<1>1. ASSUME TypeOK, NEW o \in Objects, Drain(o) PROVE Within
  <2>1. CASE Still
    BY <1>0, <1>1, <2>1 DEF Still
  <2>2. CASE Completes(o)
    <3>1. accepted' = accepted /\ \A p \in Objects \ {o} : queue'[p] = queue[p]
      BY <1>1, <2>2 DEF Completes, TypeOK
    <3> QED
      BY <1>0, <1>1, <2>2, <3>1, CompletesShorter
  <2> QED
    BY <1>1, <2>1, <2>2, DrainSteps
<1>2. ASSUME TypeOK, NEW m \in Messages, Arrive(m) \/ FinishRun(m) PROVE Within
  <2>1. accepted' = accepted /\ queue' = queue
    BY <1>2 DEF Arrive, FinishRun
  <2> QED
    BY <1>0, <1>2, <2>1
<1>3. ASSUME TypeOK, NEW m \in Messages, NEW o \in Objects, Enqueues(m, o) PROVE Within
  <2>1. current' = o /\ \A p \in Objects \ {o} : queue'[p] = queue[p]
    BY <1>3 DEF Enqueues, TypeOK
  <2>2. CASE Rejects(m, o)
    <3>1. accepted' = accepted /\ queue'[o].items = queue[o].items
      BY <2>2 DEF Rejects
    <3> QED
      BY <1>0, <1>3, <2>1, <3>1
  <2>3. CASE Admits(m, o)
    <3>1. Len(queue'[o].items) <= queue'[o].cap /\ accepted' = Append(accepted, m)
      BY <2>3 DEF Admits
    <3>2. accepted' # accepted
      <4>1. accepted \in Seq(Messages)
        BY <1>3 DEF TypeOK
      <4>2. Len(accepted') = Len(accepted) + 1 /\ Len(accepted) \in Nat
        BY <3>1, <4>1, AppendIs
      <4> QED
        BY <4>2
    <3> QED
      BY <1>0, <1>3, <2>1, <3>1, <3>2
  <2> QED
    BY <1>3, <2>2, <2>3 DEF Enqueues
<1>4. ASSUME TypeOK, Clears PROVE Within
  <2> SUFFICES ASSUME NEW o \in Objects PROVE Len(queue'[o].items) <= Len(queue[o].items)
    BY <1>4 DEF Clears
  <2>1. CASE queue'[o] = queue[o]
    BY <1>0, <1>4, <2>1
  <2>2. CASE queue'[o].items = <<>>
    <3>1. Len(<<>>) = 0 /\ Len(queue[o].items) \in Nat
      BY <1>4, QueueTypes
    <3> QED
      BY <2>2, <3>1
  <2> QED
    BY <1>4, <2>1, <2>2 DEF Clears
<1>5. TypeOK /\ [Next]_vars => [Within]_vars
  BY <1>1, <1>2, <1>3, <1>4, NextSteps
<1> QED
  BY <1>5, FollowupTyped, PTL DEF Spec, CapHolds

-----------------------------------------------------------------------------
(* The books: who owns a message. *)

Mine(o) == Items(o) \union Batch(o)

(* What a turn has taken is at the front of the queue, so that what leaves *)
(* the queue with the turn is the turn's.                                  *)
Own(o) ==
    /\ IsInjective(queue[o].items) /\ IsInjective(drain[o].batch)
    /\ \A i \in DOMAIN queue[o].items : queue[o].items[i] \in Batch(o) => i <= drain[o].takes
    /\ drain[o].at # "running" => drain[o].batch = <<>>

(* A message is accepted once, is then in one queue or turn, and not       *)
(* answered before it has left.                                            *)
Ledger ==
    /\ IsInjective(accepted) /\ IsInjective(answered)
    /\ \A m \in ToSet(accepted) : stage[m] = "queued"
    /\ ToSet(answered) \subseteq ToSet(accepted)
    /\ \A o \in Objects : Mine(o) \subseteq ToSet(accepted) \ ToSet(answered)
    /\ \A o, p \in Objects : o # p => Mine(o) \intersect Mine(p) = {}

Books == Ledger /\ \A o \in Objects : Own(o)

(* A step that begins and completes no turn, and accepts no message. *)
Calm ==
    /\ \A p \in Objects :
         /\ queue'[p].items = queue[p].items \/ queue'[p].items = <<>>
         /\ \/ drain'[p] = drain[p]
            \/ /\ drain'[p].batch = <<>> /\ drain'[p].at # "running"
               /\ drain'[p].at = "collecting" => ~CrossChannel(queue'[p].items)
    /\ \A m \in Messages : stage[m] = "queued" => stage'[m] = "queued"
    /\ cleared => cleared'
    /\ UNCHANGED <<accepted, answered>>

LEMMA FollowupSteps ==
    ASSUME TypeOK, Books, [Next]_vars
    PROVE  \/ Calm
           \/ \E o \in Objects : Still /\ Begins(o)
           \/ \E o \in Objects : Completes(o)
           \/ \E m \in Messages, o \in Objects : Enqueues(m, o) /\ Admits(m, o)
<1>1. ASSUME NEW o \in Objects, Still, Parks(o) PROVE Calm
  BY <1>1 DEF Still, Parks, Parked, Calm
<1>2. ASSUME NEW o \in Objects, Still, Collects(o) PROVE Calm
  <2>1. drain[o].batch = <<>>
    BY <1>2 DEF Books, Own, Collects
  <2> QED
    BY <1>2, <2>1 DEF Still, Collects, Others, Calm
<1>3. ASSUME NEW m \in Messages, Arrive(m) PROVE Calm
  BY <1>3 DEF Arrive, Calm, TypeOK
<1>4. ASSUME NEW m \in Messages, FinishRun(m) PROVE Calm
  <2>1. \A p \in Objects : drain'[p] = drain[p] \/ Parked(drain'[p])
    BY <1>4, Schedules DEF FinishRun, TypeOK
  <2> QED
    BY <1>4, <2>1 DEF FinishRun, Calm, TypeOK, Parked
<1>5. ASSUME NEW m \in Messages, NEW o \in Objects, Enqueues(m, o), Rejects(m, o) PROVE Calm
  <2>1. \A p \in Objects : queue'[p].items = queue[p].items
    BY <1>5 DEF Enqueues, Rejects, TypeOK
  <2> QED
    BY <1>5, <2>1 DEF Enqueues, Rejects, Calm, TypeOK
<1>6. ASSUME Clears PROVE Calm
  BY <1>6 DEF Clears, Calm
<1>7. ASSUME UNCHANGED vars PROVE Calm
  BY <1>7 DEF vars, Calm
<1>8. ASSUME NEW o \in Objects, Drain(o)
      PROVE  Calm \/ (Still /\ Begins(o)) \/ Completes(o)
  BY <1>1, <1>2, <1>8, DrainSteps
<1>9. ASSUME NEW m \in Messages, NEW o \in Objects, Enqueues(m, o)
      PROVE  Calm \/ (Enqueues(m, o) /\ Admits(m, o))
  BY <1>5, <1>9 DEF Enqueues
<1> QED
  BY <1>3, <1>4, <1>6, <1>7, <1>8, <1>9, NextSteps

(* What a turn takes when it begins. *)
LEMMA TurnTakes ==
    ASSUME TypeOK, NEW o \in Objects, Begins(o)
    PROVE  /\ drain'[o].batch \in Seq(Messages) /\ drain'[o].takes \in Nat
           /\ drain'[o].takes <= Len(queue[o].items)
           /\ \/ drain'[o].batch = <<>> /\ queue[o].dropped # {}
              \/ Len(drain'[o].batch) = drain'[o].takes
           /\ \A i \in DOMAIN drain'[o].batch :
                /\ i \in DOMAIN queue[o].items /\ i <= drain'[o].takes
                /\ drain'[o].batch[i] = queue[o].items[i]
           /\ ToSet(drain'[o].batch) \subseteq Items(o)
<1>1. PICK b : b = drain'[o].batch
  OBVIOUS
<1>2. PICK s : s = queue[o].items
  OBVIOUS
<1>3. PICK k : k = drain'[o].takes
  OBVIOUS
<1>4. b \in Seq(Messages) /\ k \in Nat /\ s \in Seq(Messages) /\ Len(s) \in Nat /\ DOMAIN s = 1..Len(s)
  <2>1. drain'[o] \in Drains
    BY DEF Begins
  <2> QED
    BY <1>1, <1>2, <1>3, <2>1, QueueTypes, ElementsOf DEF Drains
<1>5. k <= Len(s) /\ (b = SubSeq(s, 1, k) \/ (b = <<>> /\ queue[o].dropped # {}))
  BY <1>1, <1>2, <1>3 DEF Begins
<1>6. CASE b = SubSeq(s, 1, k)
  <2>1. Len(b) = k /\ \A i \in 1..k : b[i] = s[i]
    BY <1>4, <1>5, <1>6, PrefixIs
  <2>2. DOMAIN b = 1..k
    BY <1>4, <2>1, ElementsOf
  <2>3. \A i \in DOMAIN b : i \in DOMAIN s /\ i <= k /\ b[i] = s[i]
    BY <1>4, <1>5, <2>1, <2>2
  <2>4. ToSet(b) \subseteq ToSet(s)
    BY <2>3 DEF ToSet
  <2> QED
    BY <1>1, <1>2, <1>3, <1>4, <1>5, <2>1, <2>3, <2>4 DEF Items
<1>7. CASE b = <<>> /\ queue[o].dropped # {}
  <2>1. DOMAIN b = {} /\ ToSet(b) = {}
    BY <1>7 DEF ToSet
  <2> QED
    BY <1>1, <1>2, <1>3, <1>4, <1>5, <1>7, <2>1
<1> QED
  BY <1>5, <1>6, <1>7

LEMMA NothingIs == ToSet(<<>>) = {} /\ DOMAIN <<>> = {} /\ IsInjective(<<>>) /\ Len(<<>>) = 0
BY DEF ToSet, IsInjective

LEMMA DropsKeeps ==
    ASSUME NEW s \in Seq(Messages), NEW t \in Seq(Messages), NEW k, Drops(s, t, k)
    PROVE  /\ \A i \in DOMAIN t : i + k \in DOMAIN s /\ t[i] = s[i + k]
           /\ \A i \in DOMAIN s : i > k => s[i] \in ToSet(t)
           /\ ToSet(t) \subseteq ToSet(s)
           /\ IsInjective(s) => IsInjective(t)
<1>1. /\ k \in 0..Len(s) /\ Len(s) \in Nat /\ Len(t) = Len(s) - k
      /\ DOMAIN s = 1..Len(s) /\ DOMAIN t = 1..Len(t)
      /\ \A i \in 1..Len(t) : t[i] = s[i + k]
  BY ElementsOf DEF Drops
<1>2. \A i \in DOMAIN t : i \in Nat /\ i + k \in DOMAIN s /\ t[i] = s[i + k]
  BY <1>1
<1>3. \A i \in DOMAIN s : i > k => s[i] \in ToSet(t)
  <2> SUFFICES ASSUME NEW i \in DOMAIN s, i > k PROVE s[i] \in ToSet(t)
    OBVIOUS
  <2>1. i - k \in DOMAIN t /\ (i - k) + k = i
    BY <1>1
  <2>2. t[i - k] = s[i]
    BY <1>1, <2>1
  <2> QED
    BY <2>1, <2>2 DEF ToSet
<1>4. ToSet(t) \subseteq ToSet(s)
  BY <1>2 DEF ToSet
<1>5. ASSUME IsInjective(s), NEW i \in DOMAIN t, NEW j \in DOMAIN t, t[i] = t[j] PROVE i = j
  <2>1. i + k = j + k
    BY <1>2, <1>5 DEF IsInjective
  <2> QED
    BY <1>1, <1>2, <2>1
<1> QED
  BY <1>2, <1>3, <1>4, <1>5 DEF IsInjective

LEMMA AppendKeeps ==
    ASSUME NEW s \in Seq(Messages), NEW m \in Messages, m \notin ToSet(s), IsInjective(s),
           NEW t, t = Append(s, m)
    PROVE  IsInjective(t)
<1>1. /\ t \in Seq(Messages) /\ Len(t) = Len(s) + 1 /\ \A i \in 1..Len(s) : t[i] = s[i]
      /\ t[Len(s) + 1] = m
  BY AppendIs
<1>2. /\ Len(s) \in Nat /\ DOMAIN s = 1..Len(s) /\ DOMAIN t = 1..Len(s) + 1
      /\ \A i \in DOMAIN s : s[i] # m
  BY <1>1, ElementsOf
<1> QED
  BY <1>1, <1>2 DEF IsInjective

LEMMA ConcatKeeps ==
    ASSUME NEW s \in Seq(Messages), NEW u \in Seq(Messages), IsInjective(s), IsInjective(u),
           ToSet(s) \intersect ToSet(u) = {}, NEW t, t = s \o u
    PROVE  IsInjective(t)
<1>1. /\ t \in Seq(Messages) /\ Len(t) = Len(s) + Len(u)
      /\ \A i \in 1..Len(s) : t[i] = s[i]
      /\ \A i \in 1..Len(u) : t[Len(s) + i] = u[i]
      /\ \A i \in 1..Len(t) : i <= Len(s) \/ i - Len(s) \in 1..Len(u)
  BY ConcatIs
<1>2. /\ Len(s) \in Nat /\ Len(u) \in Nat /\ DOMAIN s = 1..Len(s) /\ DOMAIN u = 1..Len(u)
      /\ DOMAIN t = 1..Len(t)
      /\ \A i \in DOMAIN s, j \in DOMAIN u : s[i] # u[j]
  BY <1>1, ElementsOf
<1>3. \A i \in DOMAIN t :
        \/ i \in DOMAIN s /\ t[i] = s[i]
        \/ i - Len(s) \in DOMAIN u /\ t[i] = u[i - Len(s)]
  <2> SUFFICES ASSUME NEW i \in DOMAIN t, i > Len(s)
               PROVE  i - Len(s) \in DOMAIN u /\ t[i] = u[i - Len(s)]
    BY <1>1, <1>2
  <2>1. i - Len(s) \in DOMAIN u /\ Len(s) + (i - Len(s)) = i
    BY <1>1, <1>2
  <2> QED
    BY <1>1, <1>2, <2>1
<1> QED
  BY <1>2, <1>3 DEF IsInjective

(* t is s with m appended and without its first k elements. *)
MakesRoom(s, m, k, t) ==
    /\ k \in 0..Len(s) /\ Len(t) = Len(s) - k + 1
    /\ \A i \in 1..Len(s) - k : i + k \in DOMAIN s /\ t[i] = s[i + k]
    /\ t[Len(t)] = m /\ Len(t) \in DOMAIN t
    /\ ToSet(t) \subseteq ToSet(s) \union {m}
    /\ IsInjective(s) /\ m \notin ToSet(s) => IsInjective(t)

LEMMA MadeRoom ==
    ASSUME NEW s \in Seq(Messages), NEW m \in Messages, NEW k,
           NEW u \in Seq(Messages), Drops(s, u, k), NEW t, t = Append(u, m)
    PROVE  t \in Seq(Messages) /\ MakesRoom(s, m, k, t)
<1>1. /\ t \in Seq(Messages) /\ Len(t) = Len(u) + 1
      /\ \A i \in 1..Len(u) : t[i] = u[i]
      /\ t[Len(u) + 1] = m
  BY AppendIs
<1>7. ToSet(t) = ToSet(u) \union {m}
  BY AppendIs, Zenon
<1>2. /\ \A i \in DOMAIN u : i + k \in DOMAIN s /\ u[i] = s[i + k]
      /\ ToSet(u) \subseteq ToSet(s)
      /\ IsInjective(s) => IsInjective(u)
  BY DropsKeeps
<1>3. /\ Len(s) \in Nat /\ Len(u) = Len(s) - k /\ Len(u) \in Nat
      /\ DOMAIN u = 1..Len(s) - k /\ Len(s) - k \in Nat /\ k \in 0..Len(s)
  BY ElementsOf DEF Drops
<1>4. IsInjective(s) /\ m \notin ToSet(s) => IsInjective(t)
  BY <1>2, AppendKeeps
<1>5. Len(t) = Len(s) - k + 1 /\ Len(t) \in 1..Len(t) /\ Len(t) = Len(u) + 1
  BY <1>1, <1>3
<1>8. t[Len(t)] = m
  BY <1>1, <1>5
<1>9. \A i \in 1..Len(s) - k : i + k \in DOMAIN s /\ t[i] = s[i + k]
  BY <1>1, <1>2, <1>3
<1>6. DOMAIN t = 1..Len(t)
  BY <1>1, ElementsOf
<1> QED
  BY <1>1, <1>2, <1>3, <1>4, <1>5, <1>6, <1>7, <1>8, <1>9 DEF MakesRoom

(* What is in the queue after m is admitted: m, last, and what was there   *)
(* but for the first k.                                                    *)
LEMMA AdmitsItems ==
    ASSUME TypeOK, NEW m \in Messages, NEW o \in Objects, Enqueues(m, o), Admits(m, o),
           NEW s, s = queue[o].items, NEW t, t = queue'[o].items
    PROVE  /\ s \in Seq(Messages) /\ t \in Seq(Messages)
           /\ \E k \in 0..Len(s) :
                MakesRoom(s, m, k, t) /\ (DropPolicies \subseteq {"new"} => k = 0)
<1>1. PICK k \in 0..Len(s) :
        /\ t = Append(SubSeq(s, k + 1, Len(s)), m)
        /\ DropPolicies \subseteq {"new"} => k = 0
  BY DEF Admits
<1>2. s \in Seq(Messages)
  BY QueueTypes
<1>3. PICK u : u = SubSeq(s, k + 1, Len(s))
  OBVIOUS
<1>4. k \in Nat /\ k <= Len(s) /\ Len(s) \in Nat
  BY <1>2, ElementsOf
<1>5. u \in Seq(Messages) /\ Drops(s, u, k) /\ t = Append(u, m)
  BY <1>1, <1>2, <1>3, <1>4, SuffixIs
<1>6. t \in Seq(Messages) /\ MakesRoom(s, m, k, t)
  BY <1>2, <1>5, MadeRoom
<1> QED
  BY <1>1, <1>2, <1>6

LEMMA BooksInit == Init => Books
<1> SUFFICES ASSUME Init PROVE Books
  OBVIOUS
<1>1. \A o \in Objects : queue[o].items = <<>> /\ drain[o].batch = <<>>
  BY DEF Init, NewQueue, NoDrain
<1>2. accepted = <<>> /\ answered = <<>>
  BY DEF Init
<1> QED
  BY <1>1, <1>2, NothingIs DEF Books, Ledger, Own, Mine, Items, Batch

LEMMA CalmBooks == ASSUME TypeOK, Books, Calm PROVE Books'
<1>1. \A p \in Objects : Items(p)' \subseteq Items(p) /\ Batch(p)' \subseteq Batch(p)
  BY NothingIs DEF Calm, Items, Batch
<1>2. ToSet(accepted) \subseteq Messages /\ UNCHANGED <<accepted, answered>>
  BY ElementsOf DEF TypeOK, Calm
<1>3. Ledger'
  BY <1>1, <1>2 DEF Books, Ledger, Mine, Calm
<1>4. ASSUME NEW p \in Objects PROVE Own(p)'
  <2>1. Own(p)
    BY DEF Books
  <2>2. queue'[p].items = queue[p].items \/ queue'[p].items = <<>>
    BY DEF Calm
  <2>3. drain'[p] = drain[p] \/ (drain'[p].batch = <<>> /\ drain'[p].at # "running")
    BY DEF Calm
  <2>4. CASE drain'[p] = drain[p]
    BY <2>1, <2>2, <2>4, NothingIs DEF Own, Batch
  <2>5. CASE drain'[p].batch = <<>> /\ drain'[p].at # "running"
    BY <2>1, <2>2, <2>5, NothingIs DEF Own, Batch
  <2> QED
    BY <2>3, <2>4, <2>5
<1> QED
  BY <1>3, <1>4 DEF Books

LEMMA BeginsBooks == ASSUME TypeOK, Books, NEW o \in Objects, Still, Begins(o) PROVE Books'
<1>1. \A p \in Objects \ {o} : drain'[p] = drain[p]
  BY DEF Begins, Others
<1>2. Batch(o)' \subseteq Items(o)
  BY TurnTakes DEF Batch, Items
<1>3. \A p \in Objects : Mine(p)' \subseteq Mine(p)
  BY <1>1, <1>2 DEF Mine, Still, Items, Batch
<1>4. Ledger'
  BY <1>3 DEF Books, Ledger, Still
<1>5. ASSUME NEW p \in Objects \ {o} PROVE Own(p)'
  BY <1>1 DEF Books, Own, Still, Batch
<1>6. Own(o)'
  <2> DEFINE b == drain'[o].batch
             s == queue[o].items
  <2>1. /\ \A i \in DOMAIN b : i \in DOMAIN s /\ i <= drain'[o].takes /\ b[i] = s[i]
        /\ drain'[o].at = "running" /\ queue'[o].items = s
    BY TurnTakes DEF Begins, Still
  <2>2. IsInjective(s)
    BY DEF Books, Own
  <2>3. IsInjective(b)
    BY <2>1, <2>2 DEF IsInjective
  <2>4. ASSUME NEW i \in DOMAIN s, s[i] \in ToSet(b) PROVE i <= drain'[o].takes
    <3>1. PICK j \in DOMAIN b : b[j] = s[i]
      BY <2>4 DEF ToSet
    <3>2. i = j
      BY <2>1, <2>2, <3>1 DEF IsInjective
    <3> QED
      BY <2>1, <3>2
  <2> QED
    BY <2>1, <2>2, <2>3, <2>4 DEF Own, Batch
<1> QED
  BY <1>4, <1>5, <1>6 DEF Books

(* What leaves the queue with a turn, and what stays. *)
LEMMA TurnLeaves ==
    ASSUME TypeOK, NEW o \in Objects, Completes(o),
           NEW s, s = queue[o].items, NEW t, t = queue'[o].items
    PROVE  /\ s \in Seq(Messages) /\ t \in Seq(Messages)
           /\ \E k \in Nat : k <= drain[o].takes /\ Drops(s, t, k)
                             /\ (drain[o].takes <= Len(s) => k = drain[o].takes)
                             /\ \A i \in DOMAIN t : i + k > drain[o].takes
           /\ \A p \in Objects \ {o} : queue'[p] = queue[p]
           /\ drain'[o].batch = <<>> /\ drain'[o].at # "running"
           /\ \A p \in Objects \ {o} :
                drain'[p] = drain[p]
                \/ (Parked(drain'[p]) /\ drain[p].at = "idle" /\ p = current)
<1>1. s \in Seq(Messages) /\ drain[o].takes \in Nat
  BY QueueTypes
<1>2. PICK takes \in Nat : takes = drain[o].takes
  BY <1>1
<1>3. t = SubSeq(s, takes + 1, Len(s)) /\ Len(s) \in Nat
  BY <1>1, <1>2, ElementsOf DEF Completes
<1>4. PICK k : k = IF takes <= Len(s) THEN takes ELSE Len(s)
  OBVIOUS
<1>5. t \in Seq(Messages) /\ Drops(s, t, k)
  BY <1>1, <1>3, <1>4, SuffixIs
<1>6. k \in Nat /\ k <= takes /\ (takes <= Len(s) => k = takes) /\ (k = takes \/ k = Len(s))
  BY <1>3, <1>4
<1>7. \A i \in DOMAIN t : i + k > takes
  <2>1. Len(t) = Len(s) - k /\ DOMAIN t = 1..Len(t) /\ Len(t) \in Nat
    BY <1>5, ElementsOf DEF Drops
  <2>2. CASE k = takes
    <3>1. \A i \in DOMAIN t : i \in Nat /\ i >= 1
      BY <2>1
    <3> QED
      BY <2>2, <3>1
  <2>3. CASE k = Len(s)
    <3>1. Len(t) = 0
      BY <1>3, <2>1, <2>3
    <3>2. DOMAIN t = {}
      BY <2>1, <3>1
    <3> QED
      BY <3>2
  <2> QED
    BY <1>6, <2>2, <2>3
<1>8. \A p \in Objects \ {o} : queue'[p] = queue[p]
  BY DEF Completes, TypeOK
<1>9. /\ Parked(drain'[o])
      /\ \A p \in Objects \ {o} :
           drain'[p] = drain[p] \/ (Parked(drain'[p]) /\ drain[p].at = "idle" /\ p = current)
  BY DEF Completes, Parks, Others
<1> QED
  BY <1>1, <1>2, <1>5, <1>6, <1>7, <1>8, <1>9 DEF Parked

LEMMA CompletesBooks == ASSUME TypeOK, Books, NEW o \in Objects, Completes(o) PROVE Books'
<1>1. PICK s, t : s = queue[o].items /\ t = queue'[o].items
  OBVIOUS
<1>2. /\ s \in Seq(Messages) /\ t \in Seq(Messages)
      /\ \A p \in Objects \ {o} : queue'[p] = queue[p]
      /\ drain'[o].batch = <<>> /\ drain'[o].at # "running"
      /\ \A p \in Objects \ {o} :
           drain'[p] = drain[p] \/ (drain'[p].batch = <<>> /\ drain'[p].at # "running")
  BY <1>1, TurnLeaves DEF Parked
<1>3. PICK k \in Nat : Drops(s, t, k) /\ \A i \in DOMAIN t : i + k > drain[o].takes
  BY <1>1, TurnLeaves
<1>4. /\ \A i \in DOMAIN t : i + k \in DOMAIN s /\ t[i] = s[i + k]
      /\ ToSet(t) \subseteq ToSet(s)
      /\ IsInjective(s) => IsInjective(t)
  BY <1>2, <1>3, DropsKeeps
<1>5. /\ IsInjective(s) /\ IsInjective(drain[o].batch)
      /\ \A i \in DOMAIN s : s[i] \in Batch(o) => i <= drain[o].takes
  BY <1>1 DEF Books, Own
<1>6. ASSUME NEW m \in ToSet(t) PROVE m \notin Batch(o)
  <2>1. PICK i \in DOMAIN t : t[i] = m
    BY <1>2, <1>6, ElementsOf
  <2>2. i + k \in DOMAIN s /\ s[i + k] = m /\ i + k > drain[o].takes
    BY <1>3, <1>4, <2>1
  <2>3. i + k \in Nat /\ drain[o].takes \in Nat
    BY <1>2, <2>2, QueueTypes, ElementsOf
  <2> QED
    BY <1>5, <2>2, <2>3
<1>7. Mine(o)' \subseteq Mine(o) \ Batch(o)
  BY <1>1, <1>2, <1>4, <1>6, NothingIs DEF Mine, Items, Batch
<1>8. \A p \in Objects \ {o} : Mine(p)' \subseteq Mine(p)
  BY <1>2, NothingIs DEF Mine, Items, Batch
<1>9. /\ answered \in Seq(Messages) /\ drain[o].batch \in Seq(Messages)
      /\ answered' = answered \o drain[o].batch /\ UNCHANGED <<accepted, stage>>
  BY QueueTypes DEF TypeOK, Completes
<1>10. Batch(o) \subseteq ToSet(accepted) \ ToSet(answered)
  BY DEF Books, Ledger, Mine
<1>11. ToSet(answered') = ToSet(answered) \union Batch(o)
  BY <1>9, ConcatIs DEF Batch
<1>12. IsInjective(answered')
  <2>1. ToSet(answered) \intersect ToSet(drain[o].batch) = {}
    BY <1>10 DEF Batch
  <2>2. IsInjective(answered)
    BY DEF Books, Ledger
  <2> QED
    BY <1>5, <1>9, <2>1, <2>2, ConcatKeeps
<1>13. Ledger'
  <2>1. \A p \in Objects \ {o} : Mine(p) \intersect Batch(o) = {}
    BY DEF Books, Ledger, Mine
  <2>2. \A p \in Objects : Mine(p)' \subseteq Mine(p) /\ Mine(p)' \intersect Batch(o) = {}
    BY <1>7, <1>8, <2>1
  <2>3. Ledger
    BY DEF Books
  <2> QED
    BY <1>9, <1>10, <1>11, <1>12, <2>2, <2>3 DEF Ledger
<1>14. Own(o)'
  BY <1>1, <1>2, <1>4, <1>5, NothingIs DEF Own, Batch
<1>15. ASSUME NEW p \in Objects \ {o} PROVE Own(p)'
  <2>1. Own(p)
    BY DEF Books
  <2>2. CASE drain'[p] = drain[p]
    BY <1>2, <2>1, <2>2 DEF Own, Batch
  <2>3. CASE drain'[p].batch = <<>> /\ drain'[p].at # "running"
    BY <1>2, <2>1, <2>3, NothingIs DEF Own, Batch
  <2> QED
    BY <1>2, <2>2, <2>3
<1> QED
  BY <1>13, <1>14, <1>15 DEF Books

LEMMA AdmitsBooks ==
    ASSUME TypeOK, Books, NEW m \in Messages, NEW o \in Objects, Enqueues(m, o), Admits(m, o)
    PROVE  Books'
<1>1. PICK s, t : s = queue[o].items /\ t = queue'[o].items
  OBVIOUS
<1>2. /\ s \in Seq(Messages) /\ t \in Seq(Messages)
      /\ \E k \in 0..Len(s) : MakesRoom(s, m, k, t)
  BY <1>1, AdmitsItems
<1>3. PICK k \in 0..Len(s) : MakesRoom(s, m, k, t)
  BY <1>2
<1>4. /\ Len(t) = Len(s) - k + 1
      /\ \A i \in 1..Len(s) - k : i + k \in DOMAIN s /\ t[i] = s[i + k]
      /\ t[Len(t)] = m
      /\ ToSet(t) \subseteq ToSet(s) \union {m}
      /\ IsInjective(s) /\ m \notin ToSet(s) => IsInjective(t)
  BY <1>3 DEF MakesRoom
<1>5. /\ stage[m] = "held" /\ stage' = [stage EXCEPT ![m] = "queued"]
      /\ accepted' = Append(accepted, m) /\ answered' = answered
      /\ \A p \in Objects \ {o} : queue'[p] = queue[p]
      /\ \A p \in Objects : drain'[p] = drain[p] \/ (drain'[p].batch = <<>> /\ drain'[p].at # "running")
  BY DEF Enqueues, Admits, Others, Marked, Parked, Books, Own, TypeOK
<1>6. Ledger /\ \A p \in Objects : Own(p)
  BY DEF Books
<1>7. m \notin ToSet(accepted) /\ \A p \in Objects : m \notin Mine(p)
  BY <1>5, <1>6 DEF Ledger
<1>8. /\ ToSet(accepted') = ToSet(accepted) \union {m} /\ IsInjective(accepted')
      /\ ToSet(accepted) \subseteq Messages
  <2>1. PICK a, b : a = accepted /\ b = accepted'
    OBVIOUS
  <2>2. a \in Seq(Messages) /\ b = Append(a, m) /\ IsInjective(a) /\ m \notin ToSet(a)
    BY <1>5, <1>6, <1>7, <2>1 DEF Ledger, TypeOK
  <2>3. ToSet(b) = ToSet(a) \union {m}
    BY <2>2, AppendIs
  <2>4. IsInjective(b)
    BY <2>2, AppendKeeps
  <2>5. ToSet(a) \subseteq Messages
    BY <2>2, ElementsOf
  <2> QED
    BY <2>1, <2>3, <2>4, <2>5
<1>9. /\ Mine(o)' \subseteq Mine(o) \union {m}
      /\ \A p \in Objects \ {o} : Mine(p)' \subseteq Mine(p)
  BY <1>1, <1>4, <1>5, NothingIs DEF Mine, Items, Batch
<1>10. \A n \in ToSet(accepted') : stage'[n] = "queued"
  BY <1>5, <1>6, <1>8 DEF Ledger, TypeOK
<1>11. Ledger'
  <2>1. /\ IsInjective(answered) /\ ToSet(answered) \subseteq ToSet(accepted)
        /\ \A p \in Objects : Mine(p) \subseteq ToSet(accepted) \ ToSet(answered)
        /\ \A p, q \in Objects : p # q => Mine(p) \intersect Mine(q) = {}
    BY <1>6 DEF Ledger
  <2>2. \A p \in Objects : Mine(p)' \subseteq Mine(p) \union {m}
    BY <1>9
  <2>3. \A p, q \in Objects : p # q => Mine(p)' \intersect Mine(q)' = {}
    BY <1>7, <1>9, <2>1
  <2>4. \A p \in Objects : Mine(p)' \subseteq ToSet(accepted') \ ToSet(answered)
    BY <1>7, <1>8, <2>1, <2>2
  <2> QED
    BY <1>5, <1>8, <1>10, <2>1, <2>3, <2>4 DEF Ledger
<1>12. Own(o)'
  <2>1. IsInjective(t) /\ IsInjective(drain'[o].batch)
    BY <1>1, <1>4, <1>5, <1>6, <1>7, NothingIs DEF Own, Mine, Items
  <2>2. ASSUME NEW i \in DOMAIN t, t[i] \in Batch(o)' PROVE i <= drain'[o].takes
    <3>1. drain'[o] = drain[o] /\ t[i] \in Batch(o) /\ drain[o].takes \in Nat
      BY <1>5, <2>2, NothingIs, QueueTypes DEF Batch
    <3>2. t[i] # m
      BY <1>7, <3>1 DEF Mine
    <3>3. Len(s) \in Nat /\ DOMAIN t = 1..Len(t) /\ Len(t) \in Nat
      BY <1>2, ElementsOf
    <3>4. i \in 1..Len(s) - k /\ i \in Nat /\ k \in Nat
      BY <1>4, <3>2, <3>3
    <3>5. i + k \in DOMAIN s /\ s[i + k] \in Batch(o)
      BY <1>4, <3>1, <3>4
    <3>6. i + k <= drain[o].takes
      BY <1>1, <1>6, <3>5 DEF Own
    <3> QED
      BY <3>1, <3>4, <3>6
  <2>3. drain'[o].at # "running" => drain'[o].batch = <<>>
    BY <1>5, <1>6 DEF Own
  <2> QED
    BY <1>1, <2>1, <2>2, <2>3 DEF Own
<1>13. ASSUME NEW p \in Objects \ {o} PROVE Own(p)'
  <2>1. Own(p)
    BY <1>6
  <2>2. CASE drain'[p] = drain[p]
    BY <1>5, <2>1, <2>2 DEF Own, Batch
  <2>3. CASE drain'[p].batch = <<>> /\ drain'[p].at # "running"
    BY <1>5, <2>1, <2>3, NothingIs DEF Own, Batch
  <2> QED
    BY <1>5, <2>2, <2>3
<1> QED
  BY <1>11, <1>12, <1>13 DEF Books

LEMMA FollowupBooks == Spec => [](TypeOK /\ Books)
<1>1. Init => TypeOK /\ Books
  BY FollowupInit, BooksInit
<1>2. TypeOK /\ Books /\ [Next]_vars => (TypeOK /\ Books)'
  BY FollowupTypes, FollowupSteps, CalmBooks, BeginsBooks, CompletesBooks, AdmitsBooks
<1> QED
  BY <1>1, <1>2, PTL DEF Spec

(* However turns fail and are retried, and whatever is dropped, cleared or *)
(* enqueued under a turn: no prompt that a completed turn has answered is  *)
(* ever part of a turn that completes again.                               *)
THEOREM FollowupAnswersOnce == Spec => []AnsweredOnce
<1>1. Books => AnsweredOnce
  BY DEF Books, Ledger, AnsweredOnce
<1> QED
  BY <1>1, FollowupBooks, PTL

-----------------------------------------------------------------------------
(* One target to a turn. *)

SameTarget(S) == \A k, m \in S : TargetOf[k] = TargetOf[m]

(* From the look at the targets to the turn, what comes is marked late. *)
Early(o) == Items(o) \ drain[o].late
Prompt(o) == Batch(o) \ drain[o].late
TargetInv ==
    \A o \in Objects :
      /\ SameTarget(Prompt(o))
      /\ drain[o].at = "collecting" => SameTarget(Early(o))

LEMMA TargetInit == Init => TargetInv
BY NothingIs DEF Init, NoDrain, TargetInv, SameTarget, Batch, Prompt

LEMMA TargetStep ==
    ASSUME TypeOK, Books, TargetInv, [Next]_vars
    PROVE  TargetInv'
<1>1. CASE Calm
  <2> SUFFICES ASSUME NEW p \in Objects
               PROVE  /\ SameTarget(Prompt(p)')
                      /\ drain'[p].at = "collecting" => SameTarget(Early(p)')
    BY DEF TargetInv, SameTarget, Early, Prompt, Items, Batch
  <2>1. SameTarget(Prompt(p)')
    BY <1>1, NothingIs DEF Calm, Batch, Prompt, SameTarget, TargetInv
  <2>2. CASE queue'[p].items = <<>>
    BY <2>1, <2>2, NothingIs DEF Early, Items, SameTarget
  <2>3. CASE queue'[p].items = queue[p].items /\ drain'[p] = drain[p]
    BY <2>1, <2>3 DEF TargetInv, Early, Items, SameTarget
  <2>4. CASE drain'[p].at = "collecting" => ~CrossChannel(queue'[p].items)
    BY <2>1, <2>4 DEF CrossChannel, SameTarget, Early, Items
  <2> QED
    BY <1>1, <2>2, <2>3, <2>4 DEF Calm
<1>2. ASSUME NEW o \in Objects, Still, Begins(o) PROVE TargetInv'
  <2>1. /\ \A p \in Objects \ {o} : drain'[p] = drain[p]
        /\ queue' = queue /\ drain'[o].at = "running" /\ drain'[o].late = drain[o].late
        /\ drain[o].at = "collecting" \/ drain'[o].takes = 1
    BY <1>2 DEF Begins, Others, Still
  <2>2. SameTarget(Prompt(o)')
    <3>1. CASE drain[o].at = "collecting"
      <4>1. SameTarget(Early(o))
        BY <3>1 DEF TargetInv
      <4>2. Batch(o)' \subseteq Items(o)
        BY <1>2, TurnTakes DEF Batch, Items
      <4>3. Prompt(o)' \subseteq Early(o)
        BY <2>1, <4>2 DEF Prompt, Early
      <4> QED
        BY <4>1, <4>3 DEF SameTarget
    <3>2. CASE drain'[o].takes = 1
      <4>1. PICK b : b = drain'[o].batch
        OBVIOUS
      <4>2. b \in Seq(Messages) /\ \A i \in DOMAIN b : i <= 1
        BY <1>2, <3>2, <4>1, TurnTakes
      <4>3. \A i, j \in DOMAIN b : i = j
        BY <4>2, ElementsOf
      <4>4. \A k, m \in ToSet(b) : k = m
        BY <4>3 DEF ToSet
      <4> QED
        BY <4>1, <4>4 DEF SameTarget, Prompt, Batch
    <3> QED
      BY <2>1, <3>1, <3>2
  <2> QED
    BY <2>1, <2>2 DEF TargetInv, SameTarget, Early, Prompt, Items, Batch
<1>3. ASSUME NEW o \in Objects, Completes(o) PROVE TargetInv'
  <2>1. PICK s, t : s = queue[o].items /\ t = queue'[o].items
    OBVIOUS
  <2>2. /\ \A p \in Objects \ {o} : queue'[p] = queue[p]
        /\ drain'[o].batch = <<>>
        /\ \A p \in Objects \ {o} : drain'[p] = drain[p] \/ Parked(drain'[p])
    BY <1>3, <2>1, TurnLeaves
  <2>3. drain'[o].at # "collecting"
    BY <1>3 DEF Completes, Parks, Parked
  <2> QED
    BY <2>2, <2>3, NothingIs DEF TargetInv, SameTarget, Early, Prompt, Items, Batch, Parked
<1>4. ASSUME NEW m \in Messages, NEW o \in Objects, Enqueues(m, o), Admits(m, o) PROVE TargetInv'
  <2>1. /\ \A p \in Objects \ {o} : queue'[p] = queue[p] /\ drain'[p] = drain[p]
        /\ \/ drain'[o] = drain[o] /\ drain[o].at # "collecting"
           \/ Parked(drain'[o])
           \/ Marked(m, o)
    BY <1>4 DEF Enqueues, Admits, Others, TypeOK
  <2>2. CASE drain'[o] = drain[o] /\ drain[o].at # "collecting"
    BY <2>1, <2>2 DEF TargetInv, SameTarget, Early, Prompt, Items, Batch
  <2>3. CASE Parked(drain'[o])
    BY <2>1, <2>3, NothingIs DEF TargetInv, SameTarget, Early, Prompt, Items, Batch, Parked
  <2>4. CASE Marked(m, o)
    <3>1. PICK s, t : s = queue[o].items /\ t = queue'[o].items
      OBVIOUS
    <3>2. PICK k \in 0..Len(s) : MakesRoom(s, m, k, t)
      BY <1>4, <3>1, AdmitsItems
    <3>3. ToSet(t) \subseteq ToSet(s) \union {m}
      BY <3>2 DEF MakesRoom
    <3>4. Early(o)' \subseteq Early(o) /\ Prompt(o)' \subseteq Prompt(o)
      BY <2>4, <3>1, <3>3 DEF Marked, Early, Prompt, Items, Batch
    <3>5. SameTarget(Early(o)') /\ SameTarget(Prompt(o)')
      BY <2>4, <3>4 DEF TargetInv, SameTarget, Marked
    <3> QED
      BY <2>1, <3>5 DEF TargetInv, SameTarget, Early, Prompt, Items, Batch
  <2> QED
    BY <2>1, <2>2, <2>3, <2>4
<1> QED
  BY <1>1, <1>2, <1>3, <1>4, FollowupSteps

(* No followup turn mixes conversations, whatever is enqueued, dropped or  *)
(* cleared meanwhile: an answer goes to the conversation that asked, but   *)
(* for a prompt queued between the look at the targets and the batch.      *)
THEOREM FollowupTurnsShareTarget == Spec => []TurnsShareTarget
<1>1. TypeOK /\ Books /\ TargetInv /\ [Next]_vars => TargetInv'
  BY TargetStep
<1>2. TargetInv => TurnsShareTarget
  BY DEF TargetInv, SameTarget, Prompt, Batch, TurnsShareTarget
<1> QED
  BY <1>1, <1>2, TargetInit, FollowupBooks, PTL DEF Spec

-----------------------------------------------------------------------------
(* One drain. *)

(* Until the session is cleared, only the object in the map is in use. *)
InMap == ~cleared => \A o \in Objects : Draining(o) \/ HasWork(queue[o]) => o = current

LEMMA InMapInit == Init => InMap
BY DEF Init, InMap, Draining, HasWork, NewQueue, NoDrain

LEMMA ParksInMap ==
    ASSUME TypeOK, InMap, ~cleared, NEW o \in Objects, Draining(o), Parks(o),
           \A p \in Objects \ {o} : queue'[p] = queue[p]
    PROVE  \A p \in Objects : Draining(p)' \/ HasWork(queue'[p]) => p = current'
<1>1. o = current /\ o # NoQueue
  BY NoQueueAssumption DEF InMap
<1>2. \A p \in Objects \ {o} : ~Draining(p) /\ ~HasWork(queue[p])
  BY <1>1 DEF InMap
<1>3. \A p \in Objects \ {o} : drain'[p] = drain[p]
  BY <1>1 DEF Parks
<1>4. \A p \in Objects \ {o} : ~Draining(p)' /\ ~HasWork(queue'[p])
  BY <1>2, <1>3 DEF Draining
<1> QED
  BY <1>1, <1>4 DEF Parks, Draining

LEMMA StaysInMap ==
    ASSUME InMap, ~cleared, NEW o \in Objects, Draining(o), Others(o),
           current' = current, \A p \in Objects \ {o} : queue'[p] = queue[p]
    PROVE  \A p \in Objects : Draining(p)' \/ HasWork(queue'[p]) => p = current'
BY DEF InMap, Draining, Others

LEMMA ClearedStays == ASSUME TypeOK, cleared, [Next]_vars PROVE cleared'
<1>1. ASSUME NEW o \in Objects, Drain(o) PROVE cleared' = cleared
  BY <1>1, DrainSteps DEF Still, Completes
<1>2. ASSUME NEW m \in Messages, Arrive(m) \/ FinishRun(m) PROVE cleared' = cleared
  BY <1>2 DEF Arrive, FinishRun
<1> QED
  BY <1>1, <1>2, NextSteps DEF Enqueues, Clears, vars

LEMMA InMapStep == ASSUME TypeOK, InMap, [Next]_vars PROVE InMap'
<1> SUFFICES ASSUME ~cleared, ~cleared'
             PROVE  \A p \in Objects : Draining(p)' \/ HasWork(queue'[p]) => p = current'
  BY ClearedStays DEF InMap, Draining
<1>1. ASSUME NEW o \in Objects, Drain(o)
      PROVE  \A p \in Objects : Draining(p)' \/ HasWork(queue'[p]) => p = current'
  <2>1. Draining(o) /\ ((Still /\ (Parks(o) \/ Collects(o) \/ Begins(o))) \/ Completes(o))
    BY <1>1, DrainSteps
  <2>2. \A p \in Objects \ {o} : queue'[p] = queue[p]
    BY <2>1 DEF Still, Completes, TypeOK
  <2>3. Parks(o) \/ (Others(o) /\ current' = current)
    BY <2>1 DEF Collects, Begins, Completes
  <2> QED
    BY <2>1, <2>2, <2>3, ParksInMap, StaysInMap
<1>2. ASSUME NEW m \in Messages, Arrive(m) PROVE \A p \in Objects : Draining(p)' \/ HasWork(queue'[p]) => p = current'
  BY <1>2 DEF Arrive, InMap, Draining
<1>3. ASSUME NEW m \in Messages, FinishRun(m) PROVE \A p \in Objects : Draining(p)' \/ HasWork(queue'[p]) => p = current'
  <2>1. /\ \A p \in Objects : drain'[p] = drain[p] \/ p = current
        /\ current' = current /\ queue' = queue
    BY <1>3, Schedules DEF FinishRun, TypeOK
  <2> QED
    BY <2>1 DEF InMap, Draining
<1>4. ASSUME NEW m \in Messages, NEW o \in Objects, Enqueues(m, o)
      PROVE  \A p \in Objects : Draining(p)' \/ HasWork(queue'[p]) => p = current'
  <2>1. /\ IsQueueFor(o) /\ current' = o
        /\ \A p \in Objects \ {o} : queue'[p] = queue[p]
    BY <1>4 DEF Enqueues, TypeOK
  <2>2. \A p \in Objects \ {o} : drain'[p] = drain[p]
    BY <1>4 DEF Enqueues, Rejects, Admits, Others
  <2>3. \A p \in Objects \ {o} : ~Draining(p) /\ ~HasWork(queue[p])
    BY <2>1, NoQueueAssumption DEF InMap, IsQueueFor
  <2> QED
    BY <2>1, <2>2, <2>3 DEF Draining
<1>5. ASSUME Clears PROVE FALSE
  BY <1>5 DEF Clears
<1>6. ASSUME UNCHANGED vars PROVE \A p \in Objects : Draining(p)' \/ HasWork(queue'[p]) => p = current'
  BY <1>6 DEF vars, InMap, Draining
<1> QED
  BY <1>1, <1>2, <1>3, <1>4, <1>5, <1>6, NextSteps

LEMMA FollowupInMap == Spec => []InMap
BY InMapInit, InMapStep, FollowupTyped, PTL DEF Spec

LEMMA NeverCleared == ASSUME ~MayClear PROVE Spec => []~cleared
<1>1. Init => ~cleared
  BY DEF Init
<1>2. TypeOK /\ ~cleared /\ [Next]_vars => ~cleared'
  <2> SUFFICES ASSUME TypeOK, ~cleared, [Next]_vars PROVE ~cleared'
    OBVIOUS
  <2>1. ASSUME NEW o \in Objects, Drain(o) PROVE cleared' = cleared
    BY <2>1, DrainSteps DEF Still, Completes
  <2>2. ASSUME NEW m \in Messages, Arrive(m) \/ FinishRun(m) PROVE cleared' = cleared
    BY <2>2 DEF Arrive, FinishRun
  <2> QED
    BY <2>1, <2>2, NextSteps DEF Enqueues, Clears, vars
<1> QED
  BY <1>1, <1>2, FollowupTyped, PTL DEF Spec

(* Turns of one session do not compete: whatever ends, fails or enqueues,  *)
(* at most one object has a drain, until the session is cleared.           *)
THEOREM FollowupOneDrainUntilCleared == Spec => [](~cleared => OneDrain)
<1>1. InMap => (~cleared => OneDrain)
  BY DEF InMap, OneDrain
<1> QED
  BY <1>1, FollowupInMap, PTL

(* A session that is never cleared has one drain for ever. *)
THEOREM FollowupOneDrain == ASSUME ~MayClear PROVE Spec => []OneDrain
BY FollowupOneDrainUntilCleared, NeverCleared, PTL

-----------------------------------------------------------------------------
(* The order of answers. *)

(* a was accepted before b. *)
Before(a, b) == \E p, q \in DOMAIN accepted : p < q /\ accepted[p] = a /\ accepted[q] = b
Sorted(s) == \A i, j \in DOMAIN s : i < j => Before(s[i], s[j])

(* Everything runs in the order of acceptance: what is answered before     *)
(* what is not, and a turn before what waits behind it.                    *)
Ordered ==
    /\ Sorted(answered)
    /\ \A o \in Objects :
         /\ Sorted(queue[o].items) /\ Sorted(drain[o].batch)
         /\ \A a \in ToSet(answered), b \in Mine(o) : Before(a, b)
         /\ \A a \in Batch(o), b \in Items(o) \ Batch(o) : Before(a, b)
OrderInv == ~cleared => Ordered

LEMMA OrderInit == Init => OrderInv
<1> SUFFICES ASSUME Init PROVE Ordered
  BY DEF OrderInv
<1>1. \A o \in Objects : queue[o].items = <<>> /\ drain[o].batch = <<>>
  BY DEF Init, NewQueue, NoDrain
<1>2. answered = <<>>
  BY DEF Init
<1> QED
  BY <1>1, <1>2, NothingIs DEF Ordered, Sorted, Items, Batch

LEMMA CalmOrder == ASSUME Calm, Ordered PROVE Ordered'
<1>1. accepted' = accepted /\ answered' = answered
  BY DEF Calm
<1>2. \A a, b : Before(a, b)' <=> Before(a, b)
  BY <1>1 DEF Before
<1>3. Sorted(answered)'
  BY <1>1, <1>2 DEF Ordered, Sorted
<1>4. ASSUME NEW o \in Objects
      PROVE  /\ Sorted(queue[o].items)' /\ Sorted(drain[o].batch)'
             /\ \A a \in ToSet(answered)', b \in Mine(o)' : Before(a, b)'
             /\ \A a \in Batch(o)', b \in Items(o)' \ Batch(o)' : Before(a, b)'
  <2>1. queue'[o].items = queue[o].items \/ queue'[o].items = <<>>
    BY DEF Calm
  <2>2. drain'[o].batch = drain[o].batch \/ drain'[o].batch = <<>>
    BY DEF Calm
  <2>3. Sorted(queue[o].items)'
    BY <1>2, <2>1, NothingIs DEF Ordered, Sorted
  <2>4. Sorted(drain[o].batch)'
    BY <1>2, <2>2, NothingIs DEF Ordered, Sorted
  <2>5. /\ Items(o)' = Items(o) \/ Items(o)' = {}
        /\ Batch(o)' = Batch(o) \/ Batch(o)' = {}
    BY <2>1, <2>2, NothingIs DEF Items, Batch
  <2>6. \A a \in ToSet(answered)', b \in Mine(o)' : Before(a, b)'
    BY <1>1, <1>2, <2>5 DEF Ordered, Mine
  <2>7. \A a \in Batch(o)', b \in Items(o)' \ Batch(o)' : Before(a, b)'
    BY <1>2, <2>5 DEF Ordered
  <2> QED
    BY <2>3, <2>4, <2>6, <2>7
<1> QED
  BY <1>3, <1>4 DEF Ordered

LEMMA BeginsOrder ==
    ASSUME TypeOK, NEW o \in Objects, Still, Begins(o), Ordered
    PROVE  Ordered'
<1>1. accepted' = accepted /\ answered' = answered /\ queue' = queue
      /\ \A p \in Objects \ {o} : drain'[p] = drain[p]
  BY DEF Still, Begins, Others
<1>2. \A a, b : Before(a, b)' <=> Before(a, b)
  BY <1>1 DEF Before
<1>3. Sorted(answered)' /\ \A p \in Objects : Sorted(queue[p].items)'
  BY <1>1, <1>2 DEF Ordered, Sorted
<1>4. PICK s, b : s = queue[o].items /\ b = drain'[o].batch
  OBVIOUS
<1>5. /\ b \in Seq(Messages) /\ s \in Seq(Messages)
      /\ b = <<>> \/ Len(b) = drain'[o].takes
      /\ \A i \in DOMAIN b : i \in DOMAIN s /\ i <= drain'[o].takes /\ b[i] = s[i]
      /\ ToSet(b) \subseteq ToSet(s)
  BY <1>4, TurnTakes, QueueTypes DEF Items
<1>6. Sorted(drain[o].batch)'
  BY <1>2, <1>4, <1>5 DEF Ordered, Sorted
<1>7. \A a \in ToSet(answered)', c \in Mine(o)' : Before(a, c)'
  BY <1>1, <1>2, <1>4, <1>5 DEF Ordered, Mine, Items, Batch
<1>8. ASSUME NEW a \in Batch(o)', NEW c \in Items(o)' \ Batch(o)' PROVE Before(a, c)
  <2>1. a \in ToSet(b) /\ c \in ToSet(s) /\ c \notin ToSet(b)
    BY <1>1, <1>4, <1>8 DEF Batch, Items
  <2>2. PICK i \in DOMAIN b, j \in DOMAIN s : b[i] = a /\ s[j] = c
    BY <1>5, <2>1, ElementsOf
  <2>3. j \notin DOMAIN b
    BY <1>5, <2>1, <2>2 DEF ToSet
  <2>4. /\ DOMAIN b = 1..Len(b) /\ Len(b) \in Nat /\ DOMAIN s = 1..Len(s) /\ Len(s) \in Nat
    BY <1>5, ElementsOf
  <2>5. i < j /\ i \in DOMAIN s /\ s[i] = a
    BY <1>5, <2>2, <2>3, <2>4
  <2> QED
    BY <1>4, <2>2, <2>5 DEF Ordered, Sorted
<1>9. ASSUME NEW p \in Objects \ {o}
      PROVE  /\ Sorted(drain[p].batch)'
             /\ \A a \in ToSet(answered)', c \in Mine(p)' : Before(a, c)'
             /\ \A a \in Batch(p)', c \in Items(p)' \ Batch(p)' : Before(a, c)'
  BY <1>1, <1>2 DEF Ordered, Sorted, Mine, Items, Batch
<1> QED
  BY <1>2, <1>3, <1>6, <1>7, <1>8, <1>9 DEF Ordered

LEMMA CompletesOrder ==
    ASSUME TypeOK, Books, InMap, ~cleared, Ordered, NEW o \in Objects, Completes(o)
    PROVE  Ordered'
<1>1. PICK s, t : s = queue[o].items /\ t = queue'[o].items
  OBVIOUS
<1>2. /\ s \in Seq(Messages) /\ t \in Seq(Messages)
      /\ \A p \in Objects \ {o} : queue'[p] = queue[p]
      /\ drain'[o].batch = <<>>
      /\ \A p \in Objects \ {o} : drain'[p].batch = drain[p].batch \/ drain'[p].batch = <<>>
  BY <1>1, TurnLeaves DEF Parked
<1>3. PICK k \in Nat : Drops(s, t, k) /\ \A i \in DOMAIN t : i + k > drain[o].takes
  BY <1>1, TurnLeaves
<1>4. /\ \A i \in DOMAIN t : i + k \in DOMAIN s /\ t[i] = s[i + k]
      /\ ToSet(t) \subseteq ToSet(s) /\ \A i \in DOMAIN t : i \in Nat
  BY <1>2, <1>3, DropsKeeps, ElementsOf
<1>5. accepted' = accepted /\ answered' = answered \o drain[o].batch
  BY DEF Completes
<1>6. \A a, b : Before(a, b)' <=> Before(a, b)
  BY <1>5 DEF Before
<1>7. PICK u, v, w : u = answered /\ v = drain[o].batch /\ w = answered'
  OBVIOUS
<1>8. u \in Seq(Messages) /\ v \in Seq(Messages) /\ w = u \o v
  BY <1>5, <1>7, QueueTypes DEF TypeOK
<1>9. /\ w \in Seq(Messages) /\ Len(w) = Len(u) + Len(v)
      /\ \A i \in 1..Len(u) : w[i] = u[i]
      /\ \A i \in 1..Len(v) : w[Len(u) + i] = v[i]
      /\ \A i \in 1..Len(w) : i <= Len(u) \/ i - Len(u) \in 1..Len(v)
  BY <1>8, ConcatIs
<1>10. ToSet(w) = ToSet(u) \union ToSet(v)
  BY <1>8, ConcatIs
<1>11. /\ Len(u) \in Nat /\ DOMAIN u = 1..Len(u) /\ DOMAIN v = 1..Len(v) /\ Len(v) \in Nat
       /\ DOMAIN w = 1..Len(w)
  BY <1>8, <1>9, ElementsOf
<1>12. Sorted(u) /\ Sorted(v) /\ \A a \in ToSet(u), b \in ToSet(v) : Before(a, b)
  BY <1>7 DEF Ordered, Mine, Batch
<1>13. Sorted(answered)'
  <2> SUFFICES ASSUME NEW i \in DOMAIN w, NEW j \in DOMAIN w, i < j PROVE Before(w[i], w[j])
    BY <1>6, <1>7 DEF Sorted
  <2>1. i \in Nat /\ j \in Nat /\ i \in 1..Len(w) /\ j \in 1..Len(w)
    BY <1>11
  <2>2. CASE j <= Len(u)
    <3>1. i \in DOMAIN u /\ j \in DOMAIN u /\ w[i] = u[i] /\ w[j] = u[j]
      BY <1>9, <1>11, <2>1, <2>2
    <3> QED
      BY <1>12, <3>1 DEF Sorted
  <2>3. CASE i > Len(u)
    <3>1. /\ i - Len(u) \in DOMAIN v /\ j - Len(u) \in DOMAIN v
          /\ Len(u) + (i - Len(u)) = i /\ Len(u) + (j - Len(u)) = j /\ i - Len(u) < j - Len(u)
      BY <1>9, <1>11, <2>1, <2>3
    <3>2. w[i] = v[i - Len(u)] /\ w[j] = v[j - Len(u)]
      BY <1>9, <1>11, <3>1
    <3> QED
      BY <1>12, <3>1, <3>2 DEF Sorted
  <2>4. CASE i <= Len(u) /\ j > Len(u)
    <3>1. /\ i \in DOMAIN u /\ w[i] = u[i]
          /\ j - Len(u) \in DOMAIN v /\ Len(u) + (j - Len(u)) = j
      BY <1>9, <1>11, <2>1, <2>4
    <3>2. w[j] = v[j - Len(u)]
      BY <1>9, <1>11, <3>1
    <3> QED
      BY <1>12, <3>1, <3>2 DEF ToSet
  <2> QED
    BY <1>11, <2>1, <2>2, <2>3, <2>4
<1>14. \A p \in Objects : Sorted(drain[p].batch)'
  <2>1. \A p \in Objects : drain'[p].batch = drain[p].batch \/ drain'[p].batch = <<>>
    BY <1>2
  <2> QED
    BY <1>6, <2>1, NothingIs DEF Ordered, Sorted
<1>15. \A p \in Objects \ {o} : Sorted(queue[p].items)'
  BY <1>2, <1>6 DEF Ordered, Sorted
<1>16. Sorted(queue[o].items)'
  <2> SUFFICES ASSUME NEW i \in DOMAIN t, NEW j \in DOMAIN t, i < j PROVE Before(t[i], t[j])
    BY <1>1, <1>6 DEF Sorted
  <2>1. i + k < j + k
    BY <1>4
  <2> QED
    BY <1>1, <1>4, <2>1 DEF Ordered, Sorted
<1>17. Items(o)' \subseteq Items(o) \ Batch(o)
  <2>1. ASSUME NEW m \in ToSet(t) PROVE m \in Items(o) /\ m \notin Batch(o)
    <3>1. PICK i \in DOMAIN t : t[i] = m
      BY <1>2, <2>1, ElementsOf
    <3>2. i + k \in DOMAIN s /\ s[i + k] = m /\ i + k > drain[o].takes
      BY <1>3, <1>4, <3>1
    <3>3. i + k \in Nat /\ drain[o].takes \in Nat
      BY <1>4, <3>1, QueueTypes
    <3>4. m \notin Batch(o)
      BY <1>1, <3>2, <3>3 DEF Books, Own
    <3> QED
      BY <1>1, <1>4, <2>1, <3>4 DEF Items
  <2> QED
    BY <1>1, <2>1 DEF Items
<1>18. Batch(o)' = {} /\ Mine(o)' = Items(o)'
  BY <1>2, NothingIs DEF Batch, Mine
<1>19. \A p \in Objects \ {o} :
         /\ Items(p)' = Items(p) /\ (Batch(p)' = Batch(p) \/ Batch(p)' = {})
         /\ Mine(p)' \subseteq Mine(p)
  BY <1>2, NothingIs DEF Items, Batch, Mine
<1>20. ASSUME NEW p \in Objects \ {o}, Batch(o) # {} PROVE Mine(p) = {}
  <2>1. drain[o].batch # <<>>
    BY <1>20, NothingIs DEF Batch
  <2>2. Draining(o)
    BY <2>1 DEF Books, Own, Draining
  <2>3. ~Draining(p) /\ ~HasWork(queue[p])
    BY <2>2 DEF InMap
  <2>4. queue[p].items = <<>> /\ drain[p].batch = <<>>
    BY <2>3 DEF HasWork, Draining, Books, Own
  <2> QED
    BY <2>4, NothingIs DEF Mine, Items, Batch
<1>21. ASSUME NEW p \in Objects, NEW a \in ToSet(answered)', NEW b \in Mine(p)'
       PROVE  Before(a, b)
  <2>1. b \in Mine(p) /\ (p = o => b \in Items(o) \ Batch(o))
    BY <1>17, <1>18, <1>19, <1>21 DEF Mine
  <2>2. CASE a \in ToSet(answered)
    BY <2>1, <2>2 DEF Ordered
  <2>3. CASE a \in Batch(o)
    <3>1. p = o
      BY <1>20, <2>1, <2>3
    <3> QED
      BY <2>1, <2>3, <3>1 DEF Ordered
  <2> QED
    BY <1>7, <1>10, <1>21, <2>2, <2>3 DEF Batch
<1>22. ASSUME NEW p \in Objects, NEW a \in Batch(p)', NEW b \in Items(p)' \ Batch(p)'
       PROVE  Before(a, b)
  BY <1>18, <1>19, <1>22 DEF Ordered
<1> QED
  BY <1>6, <1>13, <1>14, <1>15, <1>16, <1>21, <1>22 DEF Ordered

LEMMA AdmitsOrder ==
    ASSUME TypeOK, Books, Ordered, NEW m \in Messages, NEW o \in Objects,
           Enqueues(m, o), Admits(m, o)
    PROVE  Ordered'
<1>1. PICK s, t : s = queue[o].items /\ t = queue'[o].items
  OBVIOUS
<1>2. /\ s \in Seq(Messages) /\ t \in Seq(Messages)
      /\ \E k \in 0..Len(s) : MakesRoom(s, m, k, t)
  BY <1>1, AdmitsItems
<1>3. PICK k \in 0..Len(s) : MakesRoom(s, m, k, t)
  BY <1>2
<1>4. /\ Len(t) = Len(s) - k + 1
      /\ \A i \in 1..Len(s) - k : i + k \in DOMAIN s /\ t[i] = s[i + k]
      /\ t[Len(t)] = m
      /\ ToSet(t) \subseteq ToSet(s) \union {m}
  BY <1>3 DEF MakesRoom
<1>5. /\ accepted' = Append(accepted, m) /\ answered' = answered
      /\ \A p \in Objects \ {o} : queue'[p] = queue[p]
      /\ \A p \in Objects : drain'[p].batch = drain[p].batch \/ drain'[p].batch = <<>>
  BY DEF Enqueues, Admits, Others, Marked, Parked, TypeOK
<1>6. PICK u, v : u = accepted /\ v = accepted'
  OBVIOUS
<1>7. u \in Seq(Messages) /\ v = Append(u, m)
  BY <1>5, <1>6 DEF TypeOK
<1>8. /\ v \in Seq(Messages) /\ Len(v) = Len(u) + 1
      /\ \A i \in 1..Len(u) : v[i] = u[i]
      /\ v[Len(u) + 1] = m
  BY <1>7, AppendIs
<1>9. DOMAIN u = 1..Len(u) /\ Len(u) \in Nat /\ DOMAIN v = 1..Len(u) + 1
  BY <1>7, <1>8, ElementsOf
<1>10. ASSUME NEW a, NEW b, Before(a, b) PROVE Before(a, b)'
  <2>1. PICK p, q \in DOMAIN u : p < q /\ u[p] = a /\ u[q] = b
    BY <1>6, <1>10 DEF Before
  <2>2. p \in DOMAIN v /\ q \in DOMAIN v /\ v[p] = a /\ v[q] = b
    BY <1>8, <1>9, <2>1
  <2> QED
    BY <1>6, <2>1, <2>2 DEF Before
<1>11. ASSUME NEW a \in ToSet(accepted) PROVE Before(a, m)'
  <2>1. PICK p \in DOMAIN u : u[p] = a
    BY <1>6, <1>7, <1>11, ElementsOf
  <2>2. p \in DOMAIN v /\ v[p] = a /\ Len(u) + 1 \in DOMAIN v /\ p < Len(u) + 1
    BY <1>8, <1>9, <2>1
  <2> QED
    BY <1>6, <1>8, <2>2 DEF Before
<1>12. /\ ToSet(answered) \subseteq ToSet(accepted)
       /\ \A p \in Objects : Mine(p) \subseteq ToSet(accepted)
  BY DEF Books, Ledger
<1>13. Sorted(answered)'
  BY <1>5, <1>10 DEF Ordered, Sorted
<1>14. \A p \in Objects : Sorted(drain[p].batch)'
  BY <1>5, <1>10, NothingIs DEF Ordered, Sorted
<1>15. \A p \in Objects \ {o} : Sorted(queue[p].items)'
  BY <1>5, <1>10 DEF Ordered, Sorted
<1>16. Sorted(queue[o].items)'
  <2> SUFFICES ASSUME NEW i \in DOMAIN t, NEW j \in DOMAIN t, i < j PROVE Before(t[i], t[j])'
    BY <1>1 DEF Sorted
  <2>1. /\ Len(s) \in Nat /\ k \in Nat /\ DOMAIN t = 1..Len(t) /\ Len(t) \in Nat
        /\ i \in Nat /\ j \in Nat
    BY <1>2, ElementsOf
  <2>2. i \in 1..Len(s) - k
    BY <1>4, <2>1
  <2>3. i + k \in DOMAIN s /\ t[i] = s[i + k]
    BY <1>4, <2>2
  <2>4. CASE j = Len(t)
    <3>1. t[j] = m /\ t[i] \in ToSet(s)
      BY <1>2, <1>4, <2>3, <2>4, ElementsOf
    <3>2. t[i] \in ToSet(accepted)
      BY <1>1, <1>12, <3>1 DEF Mine, Items
    <3> QED
      BY <1>11, <3>1, <3>2
  <2>5. CASE j # Len(t)
    <3>5. j >= 1 /\ j <= Len(t)
      BY <2>1
    <3>6. Len(t) = Len(s) - k + 1
      BY <1>4
    <3>4. j >= 1 /\ j <= Len(t) - 1 /\ Len(t) - 1 = Len(s) - k
      BY <2>1, <2>5, <3>5, <3>6
    <3>1. j \in 1..Len(s) - k
      BY <2>1, <3>4
    <3>2. j + k \in DOMAIN s /\ t[j] = s[j + k] /\ i + k < j + k
      BY <1>4, <2>1, <3>1
    <3>3. Before(s[i + k], s[j + k])
      BY <1>1, <2>3, <3>2 DEF Ordered, Sorted
    <3> QED
      BY <1>10, <2>3, <3>2, <3>3
  <2> QED
    BY <2>4, <2>5
<1>17. /\ Items(o)' \subseteq Items(o) \union {m}
       /\ \A p \in Objects \ {o} : Items(p)' = Items(p)
       /\ \A p \in Objects : Batch(p)' = Batch(p) \/ Batch(p)' = {}
  BY <1>1, <1>4, <1>5, NothingIs DEF Items, Batch
<1>18. ASSUME NEW p \in Objects, NEW a \in ToSet(answered)', NEW b \in Mine(p)'
       PROVE  Before(a, b)'
  <2>1. a \in ToSet(answered) /\ (b \in Mine(p) \/ b = m)
    BY <1>5, <1>17, <1>18 DEF Mine
  <2>2. CASE b \in Mine(p)
    BY <1>10, <2>1, <2>2 DEF Ordered
  <2> QED
    BY <1>11, <1>12, <2>1, <2>2
<1>19. ASSUME NEW p \in Objects, NEW a \in Batch(p)', NEW b \in Items(p)' \ Batch(p)'
       PROVE  Before(a, b)'
  <2>1. a \in Batch(p) /\ b \notin Batch(p) /\ (b \in Items(p) \/ b = m)
    BY <1>17, <1>19
  <2>2. CASE b \in Items(p)
    BY <1>10, <2>1, <2>2 DEF Ordered
  <2>3. a \in ToSet(accepted)
    BY <1>12, <2>1 DEF Mine
  <2> QED
    BY <1>11, <2>1, <2>2, <2>3
<1> QED
  BY <1>13, <1>14, <1>15, <1>16, <1>18, <1>19 DEF Ordered

LEMMA OrderStep == ASSUME TypeOK, Books, InMap, OrderInv, [Next]_vars PROVE OrderInv'
<1> SUFFICES ASSUME ~cleared' PROVE Ordered'
  BY DEF OrderInv
<1>1. CASE Calm
  BY <1>1, CalmOrder DEF OrderInv, Calm
<1>2. ASSUME NEW o \in Objects, Still, Begins(o) PROVE Ordered'
  BY <1>2, BeginsOrder DEF OrderInv, Still
<1>3. ASSUME NEW o \in Objects, Completes(o) PROVE Ordered'
  BY <1>3, CompletesOrder DEF OrderInv, Completes
<1>4. ASSUME NEW m \in Messages, NEW o \in Objects, Enqueues(m, o), Admits(m, o) PROVE Ordered'
  BY <1>4, AdmitsOrder DEF OrderInv, Enqueues
<1> QED
  BY <1>1, <1>2, <1>3, <1>4, FollowupSteps

(* Followup turns answer in the order in which the messages were queued,   *)
(* through failures, batches, overflow and drops, until the session is     *)
(* cleared.                                                                *)
THEOREM FollowupAnswersInOrder == Spec => []AnsweredInOrder
<1>1. TypeOK /\ Books /\ InMap /\ OrderInv /\ [Next]_vars => OrderInv'
  BY OrderStep
<1>2. TypeOK /\ Books /\ OrderInv => AnsweredInOrder
  <2> SUFFICES ASSUME TypeOK, Books, ~cleared, Ordered,
                      NEW i \in DOMAIN answered, NEW j \in DOMAIN answered,
                      NEW p \in DOMAIN accepted, NEW q \in DOMAIN accepted,
                      i < j, answered[i] = accepted[p], answered[j] = accepted[q]
               PROVE  p < q
    BY DEF AnsweredInOrder, OrderInv, Books, Ledger
  <2>1. PICK a, b \in DOMAIN accepted : a < b /\ accepted[a] = accepted[p] /\ accepted[b] = accepted[q]
    BY DEF Ordered, Sorted, Before
  <2>2. a = p /\ b = q
    BY <2>1 DEF Books, Ledger, IsInjective
  <2> QED
    BY <2>1, <2>2
<1> QED
  BY <1>1, <1>2, OrderInit, FollowupBooks, FollowupInMap, PTL DEF Spec

-----------------------------------------------------------------------------
(* What waits is taken up, and nothing is lost. *)

(* A message is let through under a run, whose end starts a drain for what *)
(* is queued by then.                                                      *)
Attended ==
    /\ \A m \in Messages : stage[m] = "held" => RunInFlight
    /\ \A o \in Objects :
         HasWork(queue[o]) => Draining(o) \/ \E m \in Messages : stage[m] = "running"

LEMMA AttendedInit == Init => Attended
BY DEF Init, Attended, HasWork, NewQueue

LEMMA ParksAttended ==
    ASSUME TypeOK, InMap, ~cleared, Attended, NEW o \in Objects, Draining(o), Parks(o),
           drain[o].at = "running" => \A m \in Messages : stage[m] # "held",
           stage' = stage, \A p \in Objects \ {o} : queue'[p] = queue[p]
    PROVE  Attended'
<1>1. o = current /\ o # NoQueue
  BY NoQueueAssumption DEF InMap
<1>2. \A p \in Objects \ {o} : ~HasWork(queue[p])
  BY <1>1 DEF InMap
<1>3. \A p \in Objects \ {o} : drain'[p] = drain[p]
  BY <1>1 DEF Parks
<1>4. HasWork(queue'[o]) => drain'[o].at # "idle"
  BY <1>1 DEF Parks
<1>5. ASSUME NEW m \in Messages, stage[m] = "held" PROVE RunInFlight'
  <2>1. drain[o].at # "running" /\ RunInFlight
    BY <1>5 DEF Attended
  <2> QED
    BY <1>3, <2>1 DEF RunInFlight
<1> QED
  BY <1>2, <1>4, <1>5 DEF Attended, Draining

LEMMA AttendedStep ==
    ASSUME ~StaleChecks, TypeOK, InMap, ~cleared, ~cleared', Attended, [Next]_vars
    PROVE  Attended'
<1>1. ASSUME NEW o \in Objects, Drain(o) PROVE Attended'
  <2>1. /\ Draining(o)
        /\ drain[o].at = "running" => \A m \in Messages : stage[m] # "held"
        /\ (Still /\ (Parks(o) \/ Collects(o) \/ Begins(o))) \/ Completes(o)
    BY <1>1, DrainSteps DEF MayEndRun
  <2>2. stage' = stage /\ \A p \in Objects \ {o} : queue'[p] = queue[p]
    BY <2>1 DEF Still, Completes, TypeOK
  <2>3. CASE Parks(o)
    BY <2>1, <2>2, <2>3, ParksAttended
  <2>4. CASE Still /\ (Collects(o) \/ Begins(o))
    <3>1. /\ \A p \in Objects \ {o} : drain'[p] = drain[p]
          /\ drain'[o].at # "idle"
          /\ drain[o].at = "running" => drain'[o].at = "running" \/ \A m \in Messages : stage[m] # "held"
      BY <2>1, <2>4 DEF Collects, Begins, Others
    <3>2. ASSUME NEW m \in Messages, stage[m] = "held" PROVE RunInFlight'
      BY <2>2, <3>1, <3>2 DEF Attended, RunInFlight
    <3> QED
      BY <2>2, <2>4, <3>1, <3>2 DEF Attended, Draining, Still
  <2>5. CASE Completes(o) /\ ~Parks(o)
    <3>1. /\ \A p \in Objects \ {o} : drain'[p] = drain[p]
          /\ drain'[o].at = "debounce"
      BY <2>5 DEF Completes, Others
    <3>2. ASSUME NEW m \in Messages, stage[m] = "held" PROVE RunInFlight'
      BY <2>1, <2>2, <3>1, <3>2 DEF Attended, RunInFlight
    <3> QED
      BY <2>2, <3>1, <3>2 DEF Attended, Draining
  <2> QED
    BY <2>1, <2>3, <2>4, <2>5
<1>2. ASSUME NEW m \in Messages, Arrive(m) PROVE Attended'
  <2>1. /\ \A n \in Messages : stage[n] = "running" => stage'[n] = "running"
        /\ \A n \in Messages : stage'[n] = "held" => stage[n] = "held" \/ RunInFlight
        /\ drain' = drain /\ queue' = queue
    BY <1>2 DEF Arrive, TypeOK
  <2> QED
    BY <2>1 DEF Attended, RunInFlight, Draining
<1>3. ASSUME NEW m \in Messages, FinishRun(m) PROVE Attended'
  <2>1. /\ \A n \in Messages : stage[n] # "held"
        /\ stage' = [stage EXCEPT ![m] = "finished"] /\ queue' = queue
    BY <1>3 DEF FinishRun, MayEndRun
  <2>2. current # NoQueue => drain'[current].at # "idle"
    BY <1>3, Schedules DEF FinishRun, TypeOK
  <2>3. \A n \in Messages : stage'[n] # "held"
    BY <2>1 DEF TypeOK
  <2>4. \A o \in Objects : HasWork(queue'[o]) => Draining(o)'
    BY <2>1, <2>2, NoQueueAssumption DEF InMap, Draining
  <2> QED
    BY <2>3, <2>4 DEF Attended
<1>4. ASSUME NEW m \in Messages, NEW o \in Objects, Enqueues(m, o) PROVE Attended'
  <2>1. /\ stage[m] = "held" /\ IsQueueFor(o)
        /\ \A p \in Objects \ {o} : queue'[p] = queue[p]
    BY <1>4 DEF Enqueues, TypeOK
  <2>2. /\ \A n \in Messages : stage[n] = "running" => stage'[n] = "running"
        /\ \A n \in Messages : stage'[n] = "held" => stage[n] = "held"
    BY <1>4, <2>1 DEF Enqueues, Rejects, Admits, TypeOK
  <2>3. \A p \in Objects : drain[p].at # "idle" => drain'[p].at = drain[p].at
    BY <1>4 DEF Enqueues, Rejects, Admits, Others, Marked
  <2>4. RunInFlight
    BY <2>1 DEF Attended
  <2>5. RunInFlight'
    BY <2>2, <2>3, <2>4 DEF RunInFlight
  <2>6. ASSUME \A n \in Messages : stage[n] # "running" PROVE Draining(o)
    <3>1. PICK p \in Objects : Draining(p)
      BY <2>4, <2>6 DEF RunInFlight, Draining
    <3>2. p = current
      BY <3>1 DEF InMap
    <3> QED
      BY <2>1, <3>1, <3>2, NoQueueAssumption DEF IsQueueFor
  <2>7. \A p \in Objects \ {o} : HasWork(queue'[p]) => Draining(p)' \/ \E n \in Messages : stage'[n] = "running"
    BY <2>1, <2>2, <2>3 DEF Attended, Draining
  <2>8. Draining(o)' \/ \E n \in Messages : stage'[n] = "running"
    BY <2>2, <2>3, <2>6 DEF Draining
  <2> QED
    BY <2>5, <2>7, <2>8 DEF Attended
<1>5. ASSUME Clears PROVE FALSE
  BY <1>5 DEF Clears
<1>6. ASSUME UNCHANGED vars PROVE Attended'
  BY <1>6 DEF vars, Attended, RunInFlight, Draining
<1> QED
  BY <1>1, <1>2, <1>3, <1>4, <1>5, <1>6, NextSteps

(* When the session is idle its queue is empty, until it is cleared: a     *)
(* message that comes while the last run ends is found by that run's       *)
(* drain, or finds it in progress or its callback in place.  A run that    *)
(* ends while a message that saw it active is not queued yet breaks this.  *)
THEOREM FollowupIdleUntilCleared ==
    ASSUME ~StaleChecks PROVE Spec => [](~cleared => IdleMeansEmpty)
<1>1. TypeOK /\ InMap /\ (~cleared => Attended) /\ [Next]_vars => (~cleared => Attended)'
  BY AttendedStep, ClearedStays
<1>2. (~cleared => Attended) => (~cleared => IdleMeansEmpty)
  BY DEF Attended, IdleMeansEmpty, RunInFlight
<1> QED
  BY <1>1, <1>2, AttendedInit, FollowupTyped, FollowupInMap, PTL DEF Spec

(* The same for a session that is never cleared. *)
THEOREM FollowupIdleMeansEmpty ==
    ASSUME ~MayClear, ~StaleChecks PROVE Spec => []IdleMeansEmpty
BY FollowupIdleUntilCleared, NeverCleared, PTL

(* Nothing is dropped, so a turn's prompts are the first of the queue until *)
(* it completes.                                                           *)
Kept ==
    /\ \A o \in Objects :
         /\ queue[o].dropped = {}
         /\ drain[o].at = "running" =>
              /\ drain[o].takes <= Len(queue[o].items)
              /\ Len(drain[o].batch) = drain[o].takes
              /\ \A i \in 1..drain[o].takes : drain[o].batch[i] = queue[o].items[i]
    /\ \A m \in ToSet(accepted) \ ToSet(answered) : \E o \in Objects : m \in Items(o)

LEMMA KeptInit == Init => Kept
BY NothingIs DEF Init, Kept, NewQueue, NoDrain

LEMMA KeptStep ==
    ASSUME DropPolicies \subseteq {"new"}, TypeOK, ~cleared', Kept, [Next]_vars
    PROVE  Kept'
<1>1. ASSUME NEW o \in Objects, Still, Parks(o) \/ Collects(o) PROVE Kept'
  <2>1. \A p \in Objects : drain'[p] = drain[p] \/ drain'[p].at # "running"
    BY <1>1 DEF Parks, Parked, Collects, Others
  <2>2. UNCHANGED <<queue, accepted, answered>>
    BY <1>1 DEF Still
  <2> QED
    BY <2>1, <2>2 DEF Kept, Items
<1>2. ASSUME NEW o \in Objects, Still, Begins(o) PROVE Kept'
  <2>1. \A p \in Objects \ {o} : drain'[p] = drain[p]
    BY <1>2 DEF Begins, Others
  <2>2. UNCHANGED <<queue, accepted, answered>>
    BY <1>2 DEF Still
  <2>3. queue[o].dropped = {}
    BY DEF Kept
  <2>4. /\ drain'[o].takes <= Len(queue[o].items) /\ drain'[o].batch \in Seq(Messages)
        /\ Len(drain'[o].batch) = drain'[o].takes
        /\ \A i \in DOMAIN drain'[o].batch : drain'[o].batch[i] = queue[o].items[i]
    BY <1>2, <2>3, TurnTakes
  <2>5. DOMAIN drain'[o].batch = 1..drain'[o].takes
    BY <2>4, ElementsOf
  <2> QED
    BY <2>1, <2>2, <2>4, <2>5 DEF Kept, Items
<1>3. ASSUME NEW o \in Objects, Completes(o) PROVE Kept'
  <2>1. PICK s, t : s = queue[o].items /\ t = queue'[o].items
    OBVIOUS
  <2>2. /\ s \in Seq(Messages) /\ t \in Seq(Messages)
        /\ \A p \in Objects \ {o} : queue'[p] = queue[p]
        /\ drain'[o].at # "running"
        /\ \A p \in Objects \ {o} : drain'[p] = drain[p] \/ drain'[p].at # "running"
    BY <1>3, <2>1, TurnLeaves DEF Parked
  <2>3. PICK takes, b : takes \in Nat /\ takes = drain[o].takes /\ b = drain[o].batch
    BY QueueTypes
  <2>4. /\ takes <= Len(s) /\ Len(b) = takes
        /\ \A i \in 1..takes : b[i] = s[i]
    BY <1>3, <2>1, <2>3 DEF Kept, Completes
  <2>5. Drops(s, t, takes)
    BY <1>3, <2>1, <2>3, <2>4, TurnLeaves
  <2>6. \A i \in DOMAIN s : i > takes => s[i] \in ToSet(t)
    BY <2>2, <2>5, DropsKeeps
  <2>7. /\ answered \in Seq(Messages) /\ b \in Seq(Messages) /\ answered' = answered \o b
        /\ accepted' = accepted /\ \A p \in Objects : queue'[p].dropped \subseteq queue[p].dropped
    BY <1>3, <2>2, <2>3, QueueTypes DEF Completes, TypeOK
  <2>8. ToSet(answered') = ToSet(answered) \union ToSet(b)
    BY <2>7, ConcatIs
  <2>9. ASSUME NEW m \in ToSet(s) PROVE m \in ToSet(b) \/ m \in ToSet(t)
    <3>1. PICK i \in DOMAIN s : s[i] = m
      BY <2>2, <2>9, ElementsOf
    <3>2. DOMAIN b = 1..takes /\ i \in Nat /\ i >= 1
      BY <2>2, <2>4, <2>7, <3>1, ElementsOf
    <3>3. CASE i <= takes
      BY <2>4, <3>1, <3>2, <3>3 DEF ToSet
    <3>4. CASE i > takes
      BY <2>6, <3>1, <3>4
    <3> QED
      BY <2>3, <3>2, <3>3, <3>4
  <2>10. ASSUME NEW m \in ToSet(accepted') \ ToSet(answered')
         PROVE  \E p \in Objects : m \in Items(p)'
    <3>1. PICK p \in Objects : m \in Items(p)
      BY <2>7, <2>8, <2>10 DEF Kept
    <3>2. CASE p = o
      BY <2>1, <2>8, <2>9, <2>10, <3>1, <3>2 DEF Items
    <3>3. CASE p # o
      BY <2>2, <3>1, <3>3 DEF Items
    <3> QED
      BY <3>2, <3>3
  <2>11. ASSUME NEW p \in Objects
         PROVE  /\ queue'[p].dropped = {}
                /\ drain'[p].at = "running" =>
                     /\ drain'[p].takes <= Len(queue'[p].items)
                     /\ Len(drain'[p].batch) = drain'[p].takes
                     /\ \A i \in 1..drain'[p].takes : drain'[p].batch[i] = queue'[p].items[i]
    <3>1. queue[p].dropped = {} /\ queue'[p].dropped \subseteq queue[p].dropped
      BY <2>7 DEF Kept
    <3>2. drain'[p].at = "running" => p # o /\ drain'[p] = drain[p] /\ queue'[p] = queue[p]
      BY <2>2
    <3>3. CASE drain'[p].at = "running"
      BY <3>1, <3>2, <3>3 DEF Kept
    <3> QED
      BY <3>1, <3>3
  <2> QED
    BY <2>10, <2>11 DEF Kept
<1>4. ASSUME NEW o \in Objects, Drain(o) PROVE Kept'
  BY <1>1, <1>2, <1>3, <1>4, DrainSteps
<1>5. ASSUME NEW m \in Messages, Arrive(m) PROVE Kept'
  BY <1>5 DEF Arrive, Kept, Items
<1>6. ASSUME NEW m \in Messages, FinishRun(m) PROVE Kept'
  <2>1. \A p \in Objects : drain'[p] = drain[p] \/ Parked(drain'[p])
    BY <1>6, Schedules DEF FinishRun, TypeOK
  <2>2. \A p \in Objects : drain'[p] = drain[p] \/ drain'[p].at # "running"
    BY <2>1 DEF Parked
  <2> QED
    BY <1>6, <2>2 DEF FinishRun, Kept, Items
<1>7. ASSUME NEW m \in Messages, NEW o \in Objects, Enqueues(m, o), Rejects(m, o) PROVE Kept'
  <2>1. /\ \A p \in Objects : queue'[p].items = queue[p].items /\ queue'[p].dropped = queue[p].dropped
        /\ UNCHANGED <<drain, accepted, answered>>
    BY <1>7 DEF Enqueues, Rejects, TypeOK
  <2> QED
    BY <2>1 DEF Kept, Items
<1>8. ASSUME NEW m \in Messages, NEW o \in Objects, Enqueues(m, o), Admits(m, o) PROVE Kept'
  <2>1. PICK s, t : s = queue[o].items /\ t = queue'[o].items
    OBVIOUS
  <2>2. /\ s \in Seq(Messages) /\ t \in Seq(Messages) /\ MakesRoom(s, m, 0, t)
    BY <1>8, <2>1, AdmitsItems
  <2>3. Len(s) \in Nat /\ DOMAIN s = 1..Len(s) /\ DOMAIN t = 1..Len(t)
    BY <2>2, ElementsOf
  <2>4. /\ Len(t) = Len(s) + 1 /\ t[Len(t)] = m /\ Len(t) \in DOMAIN t
        /\ \A i \in 1..Len(s) : t[i] = s[i]
    <3>1. /\ Len(t) = Len(s) - 0 + 1 /\ t[Len(t)] = m /\ Len(t) \in DOMAIN t
          /\ \A i \in 1..Len(s) - 0 : t[i] = s[i + 0]
      BY <2>2 DEF MakesRoom
    <3> QED
      BY <2>3, <3>1
  <2>5. ToSet(s) \subseteq ToSet(t) /\ m \in ToSet(t)
    BY <2>3, <2>4 DEF ToSet
  <2>6. /\ accepted' = Append(accepted, m) /\ answered' = answered
        /\ \A p \in Objects \ {o} : queue'[p] = queue[p]
        /\ queue'[o].dropped = queue[o].dropped
        /\ \A p \in Objects : drain'[p] = drain[p] \/ drain'[p].at # "running"
    BY <1>8 DEF Enqueues, Admits, Others, Marked, Parked, TypeOK
  <2>7. ToSet(accepted') = ToSet(accepted) \union {m}
    <3>1. PICK a, b : a = accepted /\ b = accepted'
      OBVIOUS
    <3>2. a \in Seq(Messages) /\ b = Append(a, m)
      BY <2>6, <3>1 DEF TypeOK
    <3>3. ToSet(b) = ToSet(a) \union {m}
      BY <3>2, AppendIs
    <3> QED
      BY <3>1, <3>3
  <2>8. ASSUME NEW n \in ToSet(accepted') \ ToSet(answered')
        PROVE  \E p \in Objects : n \in Items(p)'
    <3>1. CASE n = m
      BY <2>1, <2>5, <3>1 DEF Items
    <3>2. CASE n # m
      <4>1. PICK p \in Objects : n \in Items(p)
        BY <2>6, <2>7, <2>8, <3>2 DEF Kept
      <4> QED
        BY <2>1, <2>5, <2>6, <4>1 DEF Items
    <3> QED
      BY <3>1, <3>2
  <2>9. ASSUME NEW p \in Objects, drain'[p].at = "running"
        PROVE  /\ drain'[p].takes <= Len(queue'[p].items)
               /\ Len(drain'[p].batch) = drain'[p].takes
               /\ \A i \in 1..drain'[p].takes : drain'[p].batch[i] = queue'[p].items[i]
    <3>1. drain'[p] = drain[p]
      BY <2>6, <2>9 DEF Parked
    <3>2. PICK takes, b : takes \in Nat /\ takes = drain[p].takes /\ b = drain[p].batch
      BY QueueTypes
    <3>3. /\ takes <= Len(queue[p].items) /\ Len(b) = takes
          /\ \A i \in 1..takes : b[i] = queue[p].items[i]
      BY <2>9, <3>1, <3>2 DEF Kept
    <3>4. CASE p = o
      <4>1. takes <= Len(s) /\ \A i \in 1..takes : b[i] = s[i] /\ i \in 1..Len(s)
        BY <2>1, <2>3, <3>2, <3>3, <3>4
      <4>2. takes <= Len(t) /\ \A i \in 1..takes : b[i] = t[i]
        BY <2>3, <2>4, <3>2, <4>1
      <4> QED
        BY <2>1, <3>1, <3>2, <3>3, <3>4, <4>2
    <3>5. CASE p # o
      BY <2>6, <3>1, <3>2, <3>3, <3>5
    <3> QED
      BY <3>4, <3>5
  <2>10. \A p \in Objects : queue'[p].dropped = {}
    BY <2>6 DEF Kept
  <2> QED
    BY <2>8, <2>9, <2>10 DEF Kept
<1>9. ASSUME Clears PROVE FALSE
  BY <1>9 DEF Clears
<1>10. ASSUME UNCHANGED vars PROVE Kept'
  BY <1>10 DEF vars, Kept, Items
<1> QED
  BY <1>4, <1>5, <1>6, <1>7, <1>8, <1>9, <1>10, NextSteps DEF Enqueues

(* With the policy that refuses new messages at a full queue, no message   *)
(* that entered the queue disappears until the session is cleared.  The    *)
(* other policies drop messages that a turn in flight has taken, and the   *)
(* turn then takes others with it: the run overflow_in_flight shows that.  *)
THEOREM FollowupKeptUntilCleared ==
    ASSUME DropPolicies \subseteq {"new"} PROVE Spec => [](~cleared => NothingLost)
<1>1. TypeOK /\ (~cleared => Kept) /\ [Next]_vars => (~cleared => Kept)'
  BY KeptStep, ClearedStays
<1>2. TypeOK /\ (~cleared => Kept) /\ InMap => (~cleared => NothingLost)
  <2> SUFFICES ASSUME TypeOK, Kept, InMap, ~cleared,
                      NEW m \in ToSet(accepted), m \notin ToSet(answered)
               PROVE  \E o \in Objects : o = current /\ m \in ToSet(queue[o].items)
    BY DEF NothingLost
  <2>1. PICK o \in Objects : m \in Items(o)
    BY DEF Kept
  <2>2. queue[o].items # <<>>
    BY <2>1, NothingIs DEF Items
  <2>3. o = current
    BY <2>2 DEF InMap, HasWork
  <2> QED
    BY <2>1, <2>3 DEF Items
<1> QED
  BY <1>1, <1>2, KeptInit, FollowupTyped, FollowupInMap, PTL DEF Spec

(* The same for a session that is never cleared. *)
THEOREM FollowupNothingLost ==
    ASSUME ~MayClear, DropPolicies \subseteq {"new"} PROVE Spec => []NothingLost
BY FollowupKeptUntilCleared, NeverCleared, PTL
=============================================================================
