-------------------------- MODULE CommandQueueProofs --------------------------
(***************************************************************************)
(* Proofs about CommandQueue, for every set of entries and lanes and every *)
(* bound: the type invariant, and the inductive invariant behind           *)
(* SlotsMatchRunning, PendingIsHeld and WorkConserving.                    *)
(***************************************************************************)
EXTENDS CommandQueue, TLAPS, SequenceTheorems, FiniteSetTheorems

-----------------------------------------------------------------------------
(* Sequences *)

(* What Append does to the length and the elements of a sequence. *)
LEMMA AppendFacts ==
    ASSUME NEW S, NEW s \in Seq(S), NEW x \in S
    PROVE  /\ Append(s, x) \in Seq(S)
           /\ Len(Append(s, x)) = Len(s) + 1
           /\ \A i \in 1..Len(s) : Append(s, x)[i] = s[i]
           /\ Append(s, x)[Len(s) + 1] = x
  OBVIOUS

(* What Head and Tail do to a sequence that is not empty. *)
LEMMA TailFacts ==
    ASSUME NEW S, NEW s \in Seq(S), s # <<>>
    PROVE  /\ Len(s) \in Nat /\ Len(s) >= 1
           /\ Head(s) = s[1] /\ Head(s) \in S
           /\ Tail(s) \in Seq(S)
           /\ Len(Tail(s)) = Len(s) - 1
           /\ \A i \in 1..(Len(s) - 1) : Tail(s)[i] = s[i + 1]
  OBVIOUS

(* Dropping the last element of a sequence that is not empty. *)
LEMMA FrontFacts ==
    ASSUME NEW S, NEW s \in Seq(S), s # <<>>
    PROVE  /\ Len(s) \in Nat /\ Len(s) >= 1
           /\ SubSeq(s, 1, Len(s) - 1) \in Seq(S)
           /\ Len(SubSeq(s, 1, Len(s) - 1)) = Len(s) - 1
           /\ \A i \in 1..(Len(s) - 1) : SubSeq(s, 1, Len(s) - 1)[i] = s[i]
<1> DEFINE n == Len(s) - 1
<1>1. /\ Len(s) \in Nat /\ Len(s) >= 1
      /\ n \in Int /\ n - 1 + 1 = n /\ (1 <= n \/ n = 0)
  OBVIOUS
<1>2. \A i \in 1..n : s[i] \in S
  BY <1>1
<1> HIDE DEF n
<1>3. /\ SubSeq(s, 1, n) \in Seq(S)
      /\ Len(SubSeq(s, 1, n)) = IF 1 <= n THEN n - 1 + 1 ELSE 0
      /\ \A i \in 1..(n - 1 + 1) : SubSeq(s, 1, n)[i] = s[1 + i - 1]
  BY <1>1, <1>2, SubSeqProperties
<1>4. Len(SubSeq(s, 1, n)) = n
  BY <1>1, <1>3
<1>5. \A i \in 1..n : SubSeq(s, 1, n)[i] = s[i]
  <2> TAKE i \in 1..n
  <2>1. 1 + i - 1 = i
    BY <1>1
  <2> QED BY <1>1, <1>3, <2>1
<1> QED
  BY <1>1, <1>3, <1>4, <1>5 DEF n

(* Replacing the last element of a sequence that is not empty. *)
LEMMA ReplaceFacts ==
    ASSUME NEW S, NEW s \in Seq(S), s # <<>>, NEW x \in S
    PROVE  /\ Len(s) \in Nat /\ Len(s) >= 1
           /\ [s EXCEPT ![Len(s)] = x] \in Seq(S)
           /\ Len([s EXCEPT ![Len(s)] = x]) = Len(s)
           /\ \A i \in 1..(Len(s) - 1) : [s EXCEPT ![Len(s)] = x][i] = s[i]
           /\ [s EXCEPT ![Len(s)] = x][Len(s)] = x
  OBVIOUS

Distinct(s) == \A i, j \in 1..Len(s) : s[i] = s[j] => i = j

Occurs(s, x) == \E i \in 1..Len(s) : s[i] = x

(* Tail takes the head, and nothing else, out of a sequence of distinct    *)
(* elements.                                                               *)
LEMMA TailDistinct ==
    ASSUME NEW S, NEW s \in Seq(S), s # <<>>, Distinct(s)
    PROVE  /\ Distinct(Tail(s))
           /\ \A x : Occurs(Tail(s), x) <=> Occurs(s, x) /\ x # Head(s)
           /\ Occurs(s, Head(s))
<1> DEFINE n == Len(s)
           t == Tail(s)
<1>1. /\ n \in Nat /\ n >= 1 /\ Head(s) = s[1] /\ Len(t) = n - 1
      /\ \A i \in 1..(n - 1) : t[i] = s[i + 1]
  BY TailFacts
<1> HIDE DEF n, t
<1>2. \A i \in 1..(n - 1) : i + 1 \in 1..n /\ i + 1 # 1
  BY <1>1
<1>3. Distinct(t)
  BY <1>1, <1>2 DEF Distinct, n
<1>4. ASSUME NEW x, Occurs(t, x) PROVE Occurs(s, x) /\ x # Head(s)
  <2>1. PICK i \in 1..(n - 1) : t[i] = x
    BY <1>1, <1>4 DEF Occurs
  <2>2. s[i + 1] = x /\ i + 1 \in 1..n /\ i + 1 # 1 /\ 1 \in 1..n
    BY <1>1, <1>2, <2>1
  <2> QED
    BY <1>1, <2>2 DEF Occurs, Distinct, n
<1>5. ASSUME NEW x, Occurs(s, x), x # Head(s) PROVE Occurs(t, x)
  <2>1. PICK i \in 1..n : s[i] = x
    BY <1>5 DEF Occurs, n
  <2>2. i - 1 \in 1..(n - 1) /\ (i - 1) + 1 = i
    BY <1>1, <1>5, <2>1
  <2>3. t[i - 1] = x
    BY <1>1, <2>1, <2>2
  <2> QED
    BY <1>1, <2>2, <2>3 DEF Occurs
<1>6. Occurs(s, Head(s))
  BY <1>1 DEF Occurs, n
<1> QED
  BY <1>3, <1>4, <1>5, <1>6 DEF t

(* Append adds one element, once. *)
LEMMA AppendDistinct ==
    ASSUME NEW S, NEW s \in Seq(S), NEW x \in S, Distinct(s), ~Occurs(s, x)
    PROVE  /\ Distinct(Append(s, x))
           /\ \A y : Occurs(Append(s, x), y) <=> Occurs(s, y) \/ y = x
<1> DEFINE n == Len(s)
           t == Append(s, x)
<1>1. /\ n \in Nat /\ Len(t) = n + 1
      /\ \A i \in 1..n : t[i] = s[i]
      /\ t[n + 1] = x
  BY AppendFacts
<1> HIDE DEF n, t
<1>2. /\ \A i \in 1..(n + 1) : i \in 1..n \/ i = n + 1
      /\ \A i \in 1..n : i \in 1..(n + 1)
      /\ n + 1 \in 1..(n + 1)
  BY <1>1
<1>3. \A i \in 1..n : s[i] # x
  BY DEF Occurs, n
<1>4. Distinct(t)
  BY <1>1, <1>2, <1>3 DEF Distinct, n
<1>5. ASSUME NEW y PROVE Occurs(t, y) <=> Occurs(s, y) \/ y = x
  BY <1>1, <1>2 DEF Occurs, n
<1> QED
  BY <1>4, <1>5 DEF t

-----------------------------------------------------------------------------
(* The call stack *)

(* The last frame of a stack that is not empty. *)
LEMMA TopFacts ==
    ASSUME TypeOK, stack # <<>>
    PROVE  /\ stack \in Seq(Frames)
           /\ Len(stack) \in Nat /\ Len(stack) >= 1
           /\ Top \in Frames /\ Top = stack[Len(stack)]
           /\ Top.lane \in Lanes /\ Top.entry \in Entries \union {NoEntry}
<1>1. stack \in Seq(Frames)
  BY DEF TypeOK
<1>2. Len(stack) \in Nat /\ Len(stack) >= 1
  BY <1>1
<1>3. Top \in Frames
  BY <1>1, <1>2 DEF Top
<1> QED
  BY <1>1, <1>2, <1>3 DEF Top, Frames

(* A call pushes one frame. *)
LEMMA CallFacts ==
    ASSUME TypeOK, NEW l \in Lanes, NEW at \in {"call", "pump", "body"}, Call(l, at)
    PROVE  /\ stack' \in Seq(Frames)
           /\ Len(stack) \in Nat
           /\ Len(stack') = Len(stack) + 1
           /\ \A i \in 1..Len(stack) : stack'[i] = stack[i]
           /\ stack'[Len(stack) + 1] = Frame(l, at, NoEntry)
<1>1. stack \in Seq(Frames) /\ Frame(l, at, NoEntry) \in Frames
  BY DEF TypeOK, Frames, Frame
<1> QED
  BY <1>1, AppendFacts DEF Call

(* A return pops the last frame. *)
LEMMA ReturnFacts ==
    ASSUME TypeOK, stack # <<>>, Return
    PROVE  /\ stack' \in Seq(Frames)
           /\ Len(stack) \in Nat /\ Len(stack) >= 1
           /\ Len(stack') = Len(stack) - 1
           /\ \A i \in 1..(Len(stack) - 1) : stack'[i] = stack[i]
           /\ Top \in Frames /\ Top.lane \in Lanes
  BY TopFacts, FrontFacts DEF Return

(* A move within a frame leaves the others alone. *)
LEMMA MoveFacts ==
    ASSUME TypeOK, stack # <<>>, NEW at \in {"call", "pump", "body"},
           NEW e \in Entries \union {NoEntry}, MoveTo(at, e)
    PROVE  /\ stack' \in Seq(Frames)
           /\ Len(stack) \in Nat /\ Len(stack) >= 1
           /\ Len(stack') = Len(stack)
           /\ \A i \in 1..(Len(stack) - 1) : stack'[i] = stack[i]
           /\ stack'[Len(stack)] = Frame(Top.lane, at, e)
           /\ Top \in Frames /\ Top.lane \in Lanes
<1>1. Frame(Top.lane, at, e) \in Frames
  BY TopFacts DEF Frames, Frame
<1> QED
  BY <1>1, TopFacts, ReplaceFacts DEF MoveTo

-----------------------------------------------------------------------------
(* Type correctness *)

(* The initial state has the declared types. *)
LEMMA InitType == Init => TypeOK
<1> SUFFICES ASSUME Init PROVE TypeOK
  OBVIOUS
<1>1. /\ \A l \in Lanes : queue[l] \in Seq(Entries)
      /\ queue = [l \in Lanes |-> queue[l]]
  BY DEF Init
<1>2. queue \in [Lanes -> Seq(Entries)]
  BY <1>1
<1>3. stack \in Seq(Frames)
  BY DEF Init
<1>4. /\ activeTaskIds \in [Lanes -> SUBSET Entries]
      /\ maxConcurrent \in [Lanes -> Nat \ {0}]
      /\ draining \in [Lanes -> BOOLEAN]
      /\ generation \in [Lanes -> Nat]
  BY DEF Init
<1>5. /\ taskGeneration \in [Entries -> Nat]
      /\ promise \in [Entries -> Promises]
      /\ enqueuedAt \in [Entries -> Nat]
  BY DEF Init, Promises
<1>6. /\ gatewayDraining \in BOOLEAN
      /\ running \in SUBSET Entries
      /\ lanesToDrain \in SUBSET Lanes
  BY DEF Init
<1> QED
  BY <1>2, <1>3, <1>4, <1>5, <1>6 DEF TypeOK

(* The steps of drainLane and pump, and the calls of resetAllLanes. *)
LEMMA SynchronousType == TypeOK /\ Synchronous => TypeOK'
<1> SUFFICES ASSUME TypeOK, Synchronous PROVE TypeOK'
  OBVIOUS
<1>1. CASE DrainLaneReturns
  BY <1>1, ReturnFacts DEF DrainLaneReturns, TopAt, TypeOK, laneVars, entryVars
<1>2. CASE DrainLaneEnters
  BY <1>2, MoveFacts DEF DrainLaneEnters, TopAt, TypeOK, entryVars
<1>3. CASE PumpStarts
  <2> DEFINE l == Top.lane
             e == Head(queue[l])
  <2>1. stack # <<>> /\ l \in Lanes
    BY <1>3, TopFacts DEF PumpStarts, TopAt
  <2>2. queue[l] \in Seq(Entries) /\ queue[l] # <<>>
    BY <1>3, <2>1 DEF PumpStarts, Startable, TypeOK
  <2>3. e \in Entries /\ Tail(queue[l]) \in Seq(Entries)
    BY <2>2, TailFacts
  <2>4. stack' \in Seq(Frames)
    BY <1>3, <2>1, <2>3, MoveFacts DEF PumpStarts
  <2>5. /\ queue' = [queue EXCEPT ![l] = Tail(@)]
        /\ activeTaskIds' = [activeTaskIds EXCEPT ![l] = @ \union {e}]
        /\ taskGeneration' = [taskGeneration EXCEPT ![e] = generation[l]]
        /\ running' = running \union {e}
        /\ UNCHANGED <<gatewayDraining, maxConcurrent, draining, generation, promise,
                       enqueuedAt, lanesToDrain>>
    BY <1>3 DEF PumpStarts
  <2> HIDE DEF l, e
  <2> QED
    BY <2>1, <2>3, <2>4, <2>5 DEF TypeOK
<1>4. CASE BodyAwaits
  BY <1>4, MoveFacts DEF BodyAwaits, TopAt, TypeOK, laneVars, entryVars
<1>5. CASE BodyThrows
  <2>1. stack \in Seq(Frames) /\ stack # <<>> /\ Top.lane \in Lanes
    BY <1>5, TopFacts DEF BodyThrows, TopAt
  <2>2. Frame(Top.lane, "pump", NoEntry) \in Frames
    BY <2>1 DEF Frame, Frames
  <2>3. stack' \in Seq(Frames)
    BY <1>5, <2>1, <2>2, ReplaceFacts, AppendFacts DEF BodyThrows
  <2> QED
    BY <1>5, <2>1, <2>3 DEF BodyThrows, TypeOK, Promises
<1>6. CASE PumpReturns
  BY <1>6, ReturnFacts DEF PumpReturns, TopAt, TypeOK, entryVars
<1>7. ASSUME NEW l \in Lanes, ResetDrains(l) PROVE TypeOK'
  BY <1>7, CallFacts DEF ResetDrains, TypeOK, laneVars, entryVars
<1> QED
  BY <1>1, <1>2, <1>3, <1>4, <1>5, <1>6, <1>7 DEF Synchronous

(* The exported operations and the completions. *)
LEMMA OperationsType == TypeOK /\ (Clients \/ Restarts) => TypeOK'
<1> SUFFICES ASSUME TypeOK, Clients \/ Restarts PROVE TypeOK'
  OBVIOUS
<1>1. ASSUME NEW e \in Entries, EnqueueCommandInLane(e) PROVE TypeOK'
  <2>1. LaneOf[e] \in Lanes
    BY LaneOfAssumption
  <2>2. CASE gatewayDraining
    BY <1>1, <2>2 DEF EnqueueCommandInLane, TypeOK, Promises
  <2>3. CASE ~gatewayDraining
    <3>1. Call(LaneOf[e], "call")
      BY <1>1, <2>3 DEF EnqueueCommandInLane
    <3>2. stack' \in Seq(Frames)
      BY <2>1, <3>1, CallFacts
    <3>3. Cardinality(Admitted) + 1 \in Nat
      BY EntriesAssumption, FS_Subset, FS_CardinalityType DEF Admitted
    <3>4. queue[LaneOf[e]] \in Seq(Entries)
      BY <2>1 DEF TypeOK
    <3>5. Append(queue[LaneOf[e]], e) \in Seq(Entries)
      BY <3>4, AppendFacts
    <3>6. /\ queue' = [queue EXCEPT ![LaneOf[e]] = Append(@, e)]
          /\ promise' = [promise EXCEPT ![e] = "pending"]
          /\ enqueuedAt' = [enqueuedAt EXCEPT ![e] = Cardinality(Admitted) + 1]
          /\ UNCHANGED <<gatewayDraining, activeTaskIds, maxConcurrent, draining, generation,
                         taskGeneration, running, lanesToDrain>>
      BY <1>1, <2>3 DEF EnqueueCommandInLane
    <3> QED
      BY <2>1, <3>2, <3>3, <3>5, <3>6 DEF TypeOK, Promises
  <2> QED
    BY <2>2, <2>3
<1>2. ASSUME NEW e \in Entries, NEW result \in {"resolved", "rejected"},
             CompleteTask(e, result)
      PROVE  TypeOK'
  <2>1. LaneOf[e] \in Lanes
    BY LaneOfAssumption
  <2>2. stack' \in Seq(Frames)
    BY <1>2, <2>1, CallFacts DEF CompleteTask, TypeOK
  <2>3. promise' \in [Entries -> Promises] /\ running' \in SUBSET Entries
    BY <1>2 DEF CompleteTask, TypeOK, Promises
  <2>4. activeTaskIds' \in [Lanes -> SUBSET Entries]
    <3>1. CASE taskGeneration[e] = generation[LaneOf[e]]
      <4>1. activeTaskIds' = [activeTaskIds EXCEPT ![LaneOf[e]] = @ \ {e}]
        BY <1>2, <3>1 DEF CompleteTask
      <4> QED
        BY <4>1, <2>1 DEF TypeOK
    <3>2. CASE taskGeneration[e] # generation[LaneOf[e]]
      BY <1>2, <3>2 DEF CompleteTask, TypeOK
    <3> QED
      BY <3>1, <3>2
  <2> QED
    BY <1>2, <2>2, <2>3, <2>4 DEF CompleteTask, TypeOK
<1>3. ASSUME NEW l \in ConfiguredLanes, NEW n \in 0..MaxConfigured,
             SetCommandLaneConcurrency(l, n)
      PROVE  TypeOK'
  <2>1. l \in Lanes
    BY ConfiguredLanesAssumption
  <2>2. (IF n = 0 THEN 1 ELSE n) \in Nat \ {0}
    BY MaxConfiguredAssumption
  <2>3. stack' \in Seq(Frames)
    BY <1>3, <2>1, CallFacts DEF SetCommandLaneConcurrency
  <2> QED
    BY <1>3, <2>1, <2>2, <2>3 DEF SetCommandLaneConcurrency, TypeOK, entryVars
<1>4. ASSUME NEW l \in Lanes, ClearCommandLane(l) PROVE TypeOK'
  BY <1>4 DEF ClearCommandLane, TypeOK, Promises, callVars
<1>5. CASE MarkGatewayDraining
  BY <1>5 DEF MarkGatewayDraining, TypeOK, laneVars, entryVars, callVars
<1>6. CASE ResetAllLanes
  <2>1. generation' \in [Lanes -> Nat]
    BY <1>6 DEF ResetAllLanes, TypeOK
  <2>2. /\ activeTaskIds' \in [Lanes -> SUBSET Entries]
        /\ draining' \in [Lanes -> BOOLEAN]
        /\ lanesToDrain' \in SUBSET Lanes
    BY <1>6 DEF ResetAllLanes, TypeOK
  <2> QED
    BY <1>6, <2>1, <2>2 DEF ResetAllLanes, TypeOK, entryVars
<1> QED
  BY <1>1, <1>2, <1>3, <1>4, <1>5, <1>6 DEF Clients, Restarts

(* Every reachable state has the declared types. *)
THEOREM TypeCorrect == Spec => []TypeOK
<1>1. Init => TypeOK
  BY InitType
<1>2. TypeOK /\ [Next]_vars => TypeOK'
  <2>1. TypeOK /\ UNCHANGED vars => TypeOK'
    BY DEF TypeOK, vars, laneVars, entryVars, callVars
  <2> QED
    BY <2>1, SynchronousType, OperationsType DEF Next
<1> QED
  BY <1>1, <1>2, PTL DEF Spec

-----------------------------------------------------------------------------
(* No lane is stranded.  WorkConserving speaks of the states between two   *)
(* turns only; what holds inside a turn is that a lane with work and a     *)
(* free slot has a frame on the stack, or is still to be drained by        *)
(* resetAllLanes.  A call of drainLane that returns because the lane's     *)
(* `draining' flag is up leaves such a frame behind: the flag is up only   *)
(* while a frame past its call is on the stack.                            *)

OnStack(l) == \E i \in 1..Len(stack) : stack[i].lane = l

DrainFrame(l) == \E i \in 1..Len(stack) : stack[i].lane = l /\ stack[i].at # "call"

NothingStranded == \A l \in Lanes : Startable(l) => l \in lanesToDrain \/ OnStack(l)

DrainingOnStack == \A l \in Lanes : draining[l] => DrainFrame(l)

StackInv == NothingStranded /\ DrainingOnStack

(* A call keeps the frames and adds one of its lane. *)
LEMMA CallKeeps ==
    ASSUME TypeOK, NEW l \in Lanes, NEW at \in {"call", "pump", "body"}, Call(l, at)
    PROVE  /\ OnStack(l)'
           /\ \A m \in Lanes : OnStack(m) => OnStack(m)'
           /\ \A m \in Lanes : DrainFrame(m) => DrainFrame(m)'
<1>1. /\ Len(stack) \in Nat /\ Len(stack') = Len(stack) + 1
      /\ \A i \in 1..Len(stack) : i \in 1..Len(stack') /\ stack'[i] = stack[i]
      /\ Len(stack) + 1 \in 1..Len(stack')
      /\ stack'[Len(stack) + 1].lane = l
  <2>1. Frame(l, at, NoEntry).lane = l
    BY DEF Frame
  <2>2. /\ Len(stack) \in Nat /\ Len(stack') = Len(stack) + 1
        /\ \A i \in 1..Len(stack) : stack'[i] = stack[i]
        /\ stack'[Len(stack) + 1] = Frame(l, at, NoEntry)
    BY CallFacts
  <2> HIDE DEF Frame
  <2> QED
    BY <2>1, <2>2
<1>2. OnStack(l)'
  BY <1>1 DEF OnStack
<1>3. ASSUME NEW m \in Lanes PROVE OnStack(m) => OnStack(m)'
  BY <1>1 DEF OnStack
<1>4. ASSUME NEW m \in Lanes PROVE DrainFrame(m) => DrainFrame(m)'
  BY <1>1 DEF DrainFrame
<1> QED
  BY <1>2, <1>3, <1>4

(* A move inside pump keeps the frames, the last one past its call. *)
LEMMA MoveKeeps ==
    ASSUME TypeOK, stack # <<>>, NEW at \in {"pump", "body"},
           NEW e \in Entries \union {NoEntry}, MoveTo(at, e)
    PROVE  /\ \A m \in Lanes : m = Top.lane => DrainFrame(m)'
           /\ \A m \in Lanes : OnStack(m) => OnStack(m)'
           /\ \A m \in Lanes : DrainFrame(m) => DrainFrame(m)'
<1> DEFINE n == Len(stack)
           f == Frame(Top.lane, at, e)
<1>1. f.lane = Top.lane /\ f.at # "call"
  BY DEF Frame
<1>2. /\ n \in Nat /\ n >= 1 /\ Len(stack') = n
      /\ \A i \in 1..(n - 1) : stack'[i] = stack[i]
      /\ stack'[n] = f
      /\ Top = stack[n]
  BY MoveFacts, TopFacts
<1> HIDE DEF n, f
<1>3. \A i \in 1..n : i = n \/ i \in 1..(n - 1)
  BY <1>2
<1>4. /\ n \in 1..n
      /\ \A i \in 1..n : stack'[i].lane = stack[i].lane
      /\ \A i \in 1..n : stack[i].at # "call" => stack'[i].at # "call"
  BY <1>1, <1>2, <1>3
<1>5. ASSUME NEW m \in Lanes, m = Top.lane PROVE DrainFrame(m)'
  BY <1>1, <1>2, <1>4, <1>5 DEF DrainFrame
<1>6. ASSUME NEW m \in Lanes, OnStack(m) PROVE OnStack(m)'
  <2>1. PICK i \in 1..n : stack[i].lane = m
    BY <1>6 DEF OnStack, n
  <2> QED
    BY <1>2, <1>4, <2>1 DEF OnStack
<1>7. ASSUME NEW m \in Lanes, DrainFrame(m) PROVE DrainFrame(m)'
  <2>1. PICK i \in 1..n : stack[i].lane = m /\ stack[i].at # "call"
    BY <1>7 DEF DrainFrame, n
  <2> QED
    BY <1>2, <1>4, <2>1 DEF DrainFrame
<1> QED
  BY <1>5, <1>6, <1>7

(* A return takes away one frame, of the lane on top: if that frame had    *)
(* not entered drainLane, every frame that has is still there.             *)
LEMMA ReturnKeeps ==
    ASSUME TypeOK, stack # <<>>, Return
    PROVE  /\ \A m \in Lanes : m # Top.lane /\ OnStack(m) => OnStack(m)'
           /\ \A m \in Lanes : m # Top.lane /\ DrainFrame(m) => DrainFrame(m)'
           /\ Top.at = "call" => \A m \in Lanes : DrainFrame(m) => DrainFrame(m)'
<1> DEFINE n == Len(stack)
<1>1. /\ n \in Nat /\ n >= 1 /\ Len(stack') = n - 1
      /\ \A i \in 1..(n - 1) : stack'[i] = stack[i]
      /\ Top = stack[n]
  BY ReturnFacts, TopFacts
<1> HIDE DEF n
<1>2. \A i \in 1..n : stack[i] # Top => i \in 1..Len(stack') /\ stack'[i] = stack[i]
  BY <1>1
<1>3. ASSUME NEW m \in Lanes, m # Top.lane, OnStack(m) PROVE OnStack(m)'
  <2>1. PICK i \in 1..n : stack[i].lane = m
    BY <1>3 DEF OnStack, n
  <2> QED
    BY <1>2, <1>3, <2>1 DEF OnStack
<1>4. ASSUME NEW m \in Lanes, DrainFrame(m), m # Top.lane \/ Top.at = "call"
      PROVE  DrainFrame(m)'
  <2>1. PICK i \in 1..n : stack[i].lane = m /\ stack[i].at # "call"
    BY <1>4 DEF DrainFrame, n
  <2> QED
    BY <1>2, <1>4, <2>1 DEF DrainFrame
<1> QED
  BY <1>3, <1>4

(* A frame past its call is a frame. *)
LEMMA DrainFrameOnStack == \A m : DrainFrame(m) => OnStack(m)
  BY DEF DrainFrame, OnStack

(* A task that throws leaves its pump on the stack, and a nested one. *)
LEMMA ThrowKeeps ==
    ASSUME TypeOK, BodyThrows
    PROVE  /\ \A m \in Lanes : m = Top.lane => OnStack(m)'
           /\ \A m \in Lanes : OnStack(m) => OnStack(m)'
           /\ \A m \in Lanes : DrainFrame(m) => DrainFrame(m)'
<1> DEFINE n == Len(stack)
           f == Frame(Top.lane, "pump", NoEntry)
           moved == [stack EXCEPT ![n] = f]
<1>1. stack # <<>> /\ stack' = Append(moved, f)
  BY DEF BodyThrows, TopAt
<1>2. f \in Frames /\ f.lane = Top.lane /\ f.at # "call"
  BY <1>1, TopFacts DEF Frame, Frames
<1>3. /\ n \in Nat /\ n >= 1 /\ Top = stack[n]
      /\ moved \in Seq(Frames) /\ Len(moved) = n
      /\ \A i \in 1..(n - 1) : moved[i] = stack[i]
      /\ moved[n] = f
  <2> HIDE DEF f
  <2> QED
    BY <1>1, <1>2, TopFacts, ReplaceFacts
<1> HIDE DEF n, f, moved
<1>4. /\ Len(stack') = n + 1
      /\ \A i \in 1..n : stack'[i] = moved[i]
  BY <1>1, <1>2, <1>3, AppendFacts
<1>5. \A i \in 1..n : i = n \/ i \in 1..(n - 1)
  BY <1>3
<1>6. /\ n \in 1..Len(stack') /\ stack'[n] = f
      /\ \A i \in 1..n : /\ i \in 1..Len(stack')
                         /\ stack'[i].lane = stack[i].lane
                         /\ stack[i].at # "call" => stack'[i].at # "call"
  BY <1>2, <1>3, <1>4, <1>5
<1>7. ASSUME NEW m \in Lanes, m = Top.lane PROVE OnStack(m)'
  BY <1>2, <1>6, <1>7 DEF OnStack
<1>8. ASSUME NEW m \in Lanes, OnStack(m) PROVE OnStack(m)'
  BY <1>6, <1>8 DEF OnStack, n
<1>9. ASSUME NEW m \in Lanes, DrainFrame(m) PROVE DrainFrame(m)'
  BY <1>6, <1>9 DEF DrainFrame, n
<1> QED
  BY <1>7, <1>8, <1>9

(* A turn under way strands no lane. *)
LEMMA SynchronousStack == TypeOK /\ StackInv /\ Synchronous => StackInv'
<1> SUFFICES ASSUME TypeOK, NothingStranded, DrainingOnStack, Synchronous
             PROVE  NothingStranded' /\ DrainingOnStack'
  BY DEF StackInv
<1>1. CASE DrainLaneReturns
  <2>1. /\ stack # <<>> /\ Top.at = "call" /\ Return /\ draining[Top.lane]
        /\ UNCHANGED <<queue, activeTaskIds, maxConcurrent, draining, lanesToDrain>>
    BY <1>1 DEF DrainLaneReturns, TopAt, laneVars
  <2>2. DrainingOnStack'
    BY <2>1, ReturnKeeps DEF DrainingOnStack
  <2>3. ASSUME NEW m \in Lanes, Startable(m)' PROVE m \in lanesToDrain' \/ OnStack(m)'
    <3>1. Startable(m)
      BY <2>1, <2>3 DEF Startable, HasSlot
    <3>2. CASE m = Top.lane
      BY <2>1, <2>2, <3>2, TypeOK DEF DrainingOnStack, DrainFrame, OnStack
    <3>3. CASE m # Top.lane
      BY <2>1, <3>1, <3>3, ReturnKeeps DEF NothingStranded
    <3> QED
      BY <3>2, <3>3
  <2> QED
    BY <2>2, <2>3 DEF NothingStranded
<1>2. CASE DrainLaneEnters
  <2>1. /\ stack # <<>> /\ MoveTo("pump", NoEntry)
        /\ draining' = [draining EXCEPT ![Top.lane] = TRUE]
        /\ UNCHANGED <<queue, activeTaskIds, maxConcurrent, lanesToDrain>>
    BY <1>2 DEF DrainLaneEnters, TopAt
  <2>2. NothingStranded'
    BY <2>1, MoveKeeps DEF NothingStranded, Startable, HasSlot
  <2>3. \A m \in Lanes : draining'[m] => draining[m] \/ m = Top.lane
    BY <2>1 DEF TypeOK
  <2> QED
    BY <2>1, <2>2, <2>3, MoveKeeps DEF DrainingOnStack
<1>3. CASE PumpStarts
  <2> DEFINE l == Top.lane
             e == Head(queue[l])
  <2>1. /\ stack # <<>> /\ MoveTo("body", e)
        /\ queue' = [queue EXCEPT ![l] = Tail(@)]
        /\ activeTaskIds' = [activeTaskIds EXCEPT ![l] = @ \union {e}]
        /\ Startable(l)
        /\ UNCHANGED <<maxConcurrent, draining, lanesToDrain>>
    BY <1>3 DEF PumpStarts, TopAt
  <2>2. l \in Lanes /\ e \in Entries
    BY <2>1, TopFacts, TailFacts DEF TypeOK, Startable
  <2> HIDE DEF l, e
  <2>3. DrainingOnStack'
    BY <2>1, <2>2, MoveKeeps DEF DrainingOnStack
  <2>4. ASSUME NEW m \in Lanes, Startable(m)' PROVE m \in lanesToDrain' \/ OnStack(m)'
    <3>1. CASE m = l
      BY <2>1, <2>2, <3>1, MoveKeeps DEF l, DrainFrame, OnStack
    <3>2. CASE m # l
      <4>1. Startable(m)
        BY <2>1, <2>2, <2>4, <3>2 DEF Startable, HasSlot, TypeOK
      <4> QED
        BY <2>1, <2>2, <4>1, MoveKeeps DEF NothingStranded
    <3> QED
      BY <3>1, <3>2
  <2> QED
    BY <2>3, <2>4 DEF NothingStranded
<1>4. CASE BodyAwaits
  <2>1. /\ stack # <<>> /\ MoveTo("pump", NoEntry)
        /\ UNCHANGED <<queue, activeTaskIds, maxConcurrent, draining, lanesToDrain>>
    BY <1>4 DEF BodyAwaits, TopAt, laneVars
  <2> QED
    BY <2>1, MoveKeeps DEF NothingStranded, DrainingOnStack, Startable, HasSlot
<1>5. CASE BodyThrows
  <2>1. /\ stack # <<>>
        /\ activeTaskIds' = [activeTaskIds EXCEPT ![Top.lane] = @ \ {Top.entry}]
        /\ UNCHANGED <<queue, maxConcurrent, draining, lanesToDrain>>
    BY <1>5 DEF BodyThrows, TopAt
  <2>2. DrainingOnStack'
    BY <1>5, <2>1, ThrowKeeps DEF DrainingOnStack
  <2>3. ASSUME NEW m \in Lanes, Startable(m)' PROVE m \in lanesToDrain' \/ OnStack(m)'
    <3>1. CASE m = Top.lane
      BY <1>5, <3>1, ThrowKeeps
    <3>2. CASE m # Top.lane
      <4>1. Startable(m)
        BY <2>1, <2>3, <3>2, TopFacts DEF Startable, HasSlot, TypeOK
      <4> QED
        BY <1>5, <2>1, <4>1, ThrowKeeps DEF NothingStranded
    <3> QED
      BY <3>1, <3>2
  <2> QED
    BY <2>2, <2>3 DEF NothingStranded
<1>6. CASE PumpReturns
  <2>1. /\ stack # <<>> /\ Return /\ ~Startable(Top.lane)
        /\ draining' = [draining EXCEPT ![Top.lane] = FALSE]
        /\ UNCHANGED <<queue, activeTaskIds, maxConcurrent, lanesToDrain>>
    BY <1>6 DEF PumpReturns, TopAt
  <2>2. \A m \in Lanes : draining'[m] => draining[m] /\ m # Top.lane
    BY <2>1 DEF TypeOK
  <2>3. DrainingOnStack'
    BY <2>1, <2>2, ReturnKeeps DEF DrainingOnStack
  <2>4. \A m \in Lanes : Startable(m)' => Startable(m) /\ m # Top.lane
    BY <2>1 DEF Startable, HasSlot
  <2> QED
    BY <2>1, <2>3, <2>4, ReturnKeeps DEF NothingStranded
<1>7. ASSUME NEW l \in Lanes, ResetDrains(l)
      PROVE  NothingStranded' /\ DrainingOnStack'
  <2>1. /\ Call(l, "call") /\ lanesToDrain' = lanesToDrain \ {l}
        /\ UNCHANGED <<queue, activeTaskIds, maxConcurrent, draining>>
    BY <1>7 DEF ResetDrains, laneVars
  <2> QED
    BY <2>1, CallKeeps DEF NothingStranded, DrainingOnStack, Startable, HasSlot
<1> QED
  BY <1>1, <1>2, <1>3, <1>4, <1>5, <1>6, <1>7 DEF Synchronous

(* No operation strands a lane: each one that adds work, frees a slot or   *)
(* raises a limit pushes a call for its lane.                              *)
LEMMA OperationsStack == TypeOK /\ StackInv /\ (Clients \/ Restarts) => StackInv'
<1> SUFFICES ASSUME TypeOK, NothingStranded, DrainingOnStack, Clients \/ Restarts
             PROVE  NothingStranded' /\ DrainingOnStack'
  BY DEF StackInv
<1>1. ASSUME NEW e \in Entries, EnqueueCommandInLane(e)
      PROVE  NothingStranded' /\ DrainingOnStack'
  <2> DEFINE l == LaneOf[e]
  <2>1. l \in Lanes
    BY LaneOfAssumption
  <2>2. UNCHANGED <<activeTaskIds, maxConcurrent, draining, lanesToDrain>>
    BY <1>1 DEF EnqueueCommandInLane
  <2>3. CASE gatewayDraining
    <3>1. UNCHANGED <<queue, stack>>
      BY <1>1, <2>3 DEF EnqueueCommandInLane
    <3> QED
      BY <2>2, <3>1 DEF NothingStranded, DrainingOnStack, Startable, HasSlot, OnStack, DrainFrame
  <2>4. CASE ~gatewayDraining
    <3>1. Call(l, "call") /\ queue' = [queue EXCEPT ![l] = Append(@, e)]
      BY <1>1, <2>4 DEF EnqueueCommandInLane
    <3>2. ASSUME NEW m \in Lanes, Startable(m)' PROVE m \in lanesToDrain' \/ OnStack(m)'
      <4>1. CASE m = l
        BY <2>1, <3>1, <4>1, CallKeeps
      <4>2. CASE m # l
        <5>1. Startable(m)
          BY <2>2, <3>1, <3>2, <4>2 DEF Startable, HasSlot, TypeOK
        <5> QED
          BY <2>1, <2>2, <3>1, <5>1, CallKeeps DEF NothingStranded
      <4> QED
        BY <4>1, <4>2
    <3>3. DrainingOnStack'
      BY <2>1, <2>2, <3>1, CallKeeps DEF DrainingOnStack
    <3> QED
      BY <3>2, <3>3 DEF NothingStranded
  <2> QED
    BY <2>3, <2>4
<1>2. ASSUME NEW e \in Entries, NEW result \in {"resolved", "rejected"},
             CompleteTask(e, result)
      PROVE  NothingStranded' /\ DrainingOnStack'
  <2> DEFINE l == LaneOf[e]
  <2>1. l \in Lanes
    BY LaneOfAssumption
  <2>2. UNCHANGED <<queue, maxConcurrent, draining, lanesToDrain>>
    BY <1>2 DEF CompleteTask
  <2>3. CASE taskGeneration[e] = generation[l]
    <3>1. Call(l, "pump") /\ activeTaskIds' = [activeTaskIds EXCEPT ![l] = @ \ {e}]
      BY <1>2, <2>3 DEF CompleteTask
    <3>2. ASSUME NEW m \in Lanes, Startable(m)' PROVE m \in lanesToDrain' \/ OnStack(m)'
      <4>1. CASE m = l
        BY <2>1, <3>1, <4>1, CallKeeps
      <4>2. CASE m # l
        <5>1. Startable(m)
          BY <2>2, <3>1, <3>2, <4>2 DEF Startable, HasSlot, TypeOK
        <5> QED
          BY <2>1, <2>2, <3>1, <5>1, CallKeeps DEF NothingStranded
      <4> QED
        BY <4>1, <4>2
    <3>3. DrainingOnStack'
      BY <2>1, <2>2, <3>1, CallKeeps DEF DrainingOnStack
    <3> QED
      BY <3>2, <3>3 DEF NothingStranded
  <2>4. CASE taskGeneration[e] # generation[l]
    <3>1. UNCHANGED <<activeTaskIds, stack>>
      BY <1>2, <2>4 DEF CompleteTask
    <3> QED
      BY <2>2, <3>1 DEF NothingStranded, DrainingOnStack, Startable, HasSlot, OnStack, DrainFrame
  <2> QED
    BY <2>3, <2>4
<1>3. ASSUME NEW l \in ConfiguredLanes, NEW n \in 0..MaxConfigured,
             SetCommandLaneConcurrency(l, n)
      PROVE  NothingStranded' /\ DrainingOnStack'
  <2>1. l \in Lanes
    BY ConfiguredLanesAssumption
  <2>2. /\ Call(l, "call")
        /\ maxConcurrent' = [maxConcurrent EXCEPT ![l] = IF n = 0 THEN 1 ELSE n]
        /\ UNCHANGED <<queue, activeTaskIds, draining, lanesToDrain>>
    BY <1>3 DEF SetCommandLaneConcurrency
  <2>3. ASSUME NEW m \in Lanes, Startable(m)' PROVE m \in lanesToDrain' \/ OnStack(m)'
    <3>1. CASE m = l
      BY <2>1, <2>2, <3>1, CallKeeps
    <3>2. CASE m # l
      <4>1. Startable(m)
        BY <2>2, <2>3, <3>2 DEF Startable, HasSlot, TypeOK
      <4> QED
        BY <2>1, <2>2, <4>1, CallKeeps DEF NothingStranded
    <3> QED
      BY <3>1, <3>2
  <2>4. DrainingOnStack'
    BY <2>1, <2>2, CallKeeps DEF DrainingOnStack
  <2> QED
    BY <2>3, <2>4 DEF NothingStranded
<1>4. ASSUME NEW l \in Lanes, ClearCommandLane(l)
      PROVE  NothingStranded' /\ DrainingOnStack'
  <2>1. /\ queue' = [queue EXCEPT ![l] = <<>>]
        /\ UNCHANGED <<activeTaskIds, maxConcurrent, draining, stack, lanesToDrain>>
    BY <1>4 DEF ClearCommandLane, callVars
  <2>2. \A m \in Lanes : Startable(m)' => Startable(m)
    BY <2>1 DEF Startable, HasSlot, TypeOK
  <2> QED
    BY <2>1, <2>2 DEF NothingStranded, DrainingOnStack, OnStack, DrainFrame
<1>5. CASE MarkGatewayDraining
  BY <1>5 DEF MarkGatewayDraining, laneVars, callVars, NothingStranded, DrainingOnStack,
              Startable, HasSlot, OnStack, DrainFrame
<1>6. CASE ResetAllLanes
  <2>1. /\ draining' = [m \in Lanes |-> FALSE]
        /\ lanesToDrain' = {m \in Lanes : queue[m] # <<>>}
        /\ queue' = queue
    BY <1>6 DEF ResetAllLanes
  <2>2. \A m \in Lanes : Startable(m)' => m \in lanesToDrain'
    BY <2>1 DEF Startable
  <2> QED
    BY <2>1, <2>2 DEF NothingStranded, DrainingOnStack
<1> QED
  BY <1>1, <1>2, <1>3, <1>4, <1>5, <1>6 DEF Clients, Restarts

(* StackInv holds in every reachable state. *)
LEMMA StackInvariant == Spec => []StackInv
<1>1. Init => StackInv
  BY DEF Init, StackInv, NothingStranded, DrainingOnStack, Startable
<1>2. TypeOK /\ StackInv /\ [Next]_vars => StackInv'
  <2>1. StackInv /\ UNCHANGED vars => StackInv'
    BY DEF StackInv, NothingStranded, DrainingOnStack, Startable, HasSlot, OnStack, DrainFrame,
           vars, laneVars, callVars
  <2> QED
    BY <2>1, SynchronousStack, OperationsStack DEF Next
<1> QED
  BY <1>1, <1>2, TypeCorrect, PTL DEF Spec

(* Between two turns no lane idles with work, for any number of entries,   *)
(* lanes, limits and resets.                                               *)
THEOREM LanesConserveWork == Spec => []WorkConserving
<1>1. TypeOK /\ StackInv => WorkConserving
  <2> SUFFICES ASSUME TypeOK, NothingStranded, NewTurn, NEW l \in Lanes, queue[l] # <<>>
               PROVE  Cardinality(activeTaskIds[l]) >= maxConcurrent[l]
    BY DEF StackInv, WorkConserving
  <2>1. ~OnStack(l)
    BY DEF NewTurn, OnStack
  <2>2. ~HasSlot(l)
    BY <2>1 DEF NewTurn, NothingStranded, Startable
  <2>3. Cardinality(activeTaskIds[l]) \in Nat /\ maxConcurrent[l] \in Nat
    BY EntriesAssumption, FS_Subset, FS_CardinalityType DEF TypeOK
  <2> QED
    BY <2>2, <2>3 DEF HasSlot
<1> QED
  BY <1>1, TypeCorrect, StackInvariant, PTL

-----------------------------------------------------------------------------
(* Entries.  An entry is in one place only: its lane's queue, once, or     *)
(* running.  The slots of a lane are those of its running entries of the   *)
(* current generation, which needs to be known of the past: no entry       *)
(* started in a generation that is still to come, and a task whose         *)
(* synchronous prefix is on the stack runs, in the lane of its frame, and  *)
(* is there once (the task may throw, and then frees its own slot).        *)

QueuesOK ==
    \A l \in Lanes : /\ Distinct(queue[l])
                     /\ \A e \in Entries : Occurs(queue[l], e) => LaneOf[e] = l

HeldInv ==
    /\ QueuesOK
    /\ \A e \in Entries : promise[e] = "pending" <=> (e \in running \/ Queued(e))
    /\ \A e \in running : ~Queued(e)

GenerationsPast == \A e \in running : taskGeneration[e] <= generation[LaneOf[e]]

IsBody(i) == i \in 1..Len(stack) /\ stack[i].at = "body"

BodiesRun ==
    /\ \A i : IsBody(i) => stack[i].entry \in running /\ LaneOf[stack[i].entry] = stack[i].lane
    /\ \A i, j : IsBody(i) /\ IsBody(j) /\ stack[i].entry = stack[j].entry => i = j

EntryInv == HeldInv /\ SlotsMatchRunning /\ GenerationsPast /\ BodiesRun

(* The bodies on the stack stay the running tasks they were when no new    *)
(* body appears and no task stops.                                         *)
LEMMA BodiesKept ==
    ASSUME BodiesRun, running \subseteq running',
           \A i : IsBody(i)' => IsBody(i) /\ stack'[i] = stack[i]
    PROVE  BodiesRun'
<1>1. \A i : IsBody(i)' => /\ stack'[i].entry \in running'
                           /\ LaneOf[stack'[i].entry] = stack'[i].lane
  BY DEF BodiesRun
<1>2. \A i, j : IsBody(i)' /\ IsBody(j)' /\ stack'[i].entry = stack'[j].entry => i = j
  BY DEF BodiesRun
<1> QED
  BY <1>1, <1>2 DEF BodiesRun

(* A call of drainLane or pump adds no body. *)
LEMMA CallAddsNoBody ==
    ASSUME TypeOK, NEW l \in Lanes, NEW at \in {"call", "pump"}, Call(l, at)
    PROVE  \A i : IsBody(i)' => IsBody(i) /\ stack'[i] = stack[i]
<1>1. Frame(l, at, NoEntry).at # "body"
  BY DEF Frame
<1>2. /\ Len(stack) \in Nat /\ Len(stack') = Len(stack) + 1
      /\ \A i \in 1..Len(stack) : stack'[i] = stack[i]
      /\ stack'[Len(stack) + 1] = Frame(l, at, NoEntry)
  BY CallFacts
<1> HIDE DEF Frame
<1> QED
  BY <1>1, <1>2 DEF IsBody

(* The move from a body back to the loop adds no body. *)
LEMMA MoveAddsNoBody ==
    ASSUME TypeOK, stack # <<>>, MoveTo("pump", NoEntry)
    PROVE  \A i : IsBody(i)' => IsBody(i) /\ stack'[i] = stack[i]
<1> DEFINE f == Frame(Top.lane, "pump", NoEntry)
<1>1. f.at # "body"
  BY DEF Frame
<1>2. /\ Len(stack) \in Nat /\ Len(stack) >= 1 /\ Len(stack') = Len(stack)
      /\ \A i \in 1..(Len(stack) - 1) : stack'[i] = stack[i]
      /\ stack'[Len(stack)] = f
  BY MoveFacts
<1> HIDE DEF f
<1> QED
  BY <1>1, <1>2 DEF IsBody

(* A return adds no body. *)
LEMMA ReturnAddsNoBody ==
    ASSUME TypeOK, stack # <<>>, Return
    PROVE  \A i : IsBody(i)' => IsBody(i) /\ stack'[i] = stack[i]
  BY ReturnFacts DEF IsBody

(* What only touches the stack and the lanes' flags leaves the entries     *)
(* where they are.                                                         *)
LEMMA EntriesKept ==
    ASSUME EntryInv,
           UNCHANGED <<queue, activeTaskIds, generation, taskGeneration, running, promise>>,
           \A i : IsBody(i)' => IsBody(i) /\ stack'[i] = stack[i]
    PROVE  EntryInv'
<1>1. BodiesRun'
  BY BodiesKept DEF EntryInv
<1>2. HeldInv'
  BY DEF EntryInv, HeldInv, QueuesOK, Queued, Distinct, Occurs
<1>3. SlotsMatchRunning' /\ GenerationsPast'
  BY DEF EntryInv, SlotsMatchRunning, GenerationsPast
<1> QED
  BY <1>1, <1>2, <1>3 DEF EntryInv

(* PumpStarts moves the head of the queue among the running tasks, with a  *)
(* slot and a body on the stack.                                           *)
LEMMA PumpStartsEntries == TypeOK /\ EntryInv /\ PumpStarts => EntryInv'
<1> SUFFICES ASSUME TypeOK, EntryInv, PumpStarts PROVE EntryInv'
  OBVIOUS
<1> DEFINE l == Top.lane
           e == Head(queue[l])
           n == Len(stack)
           f == Frame(l, "body", e)
<1>1. /\ stack # <<>> /\ MoveTo("body", e) /\ queue[l] # <<>>
      /\ queue' = [queue EXCEPT ![l] = Tail(@)]
      /\ activeTaskIds' = [activeTaskIds EXCEPT ![l] = @ \union {e}]
      /\ taskGeneration' = [taskGeneration EXCEPT ![e] = generation[l]]
      /\ running' = running \union {e}
      /\ UNCHANGED <<generation, promise>>
  BY DEF PumpStarts, TopAt, Startable
<1>2. l \in Lanes /\ queue[l] \in Seq(Entries)
  BY <1>1, TopFacts DEF TypeOK
<1>3. /\ e \in Entries
      /\ Distinct(Tail(queue[l]))
      /\ \A x : Occurs(Tail(queue[l]), x) <=> Occurs(queue[l], x) /\ x # e
      /\ Occurs(queue[l], e)
  BY <1>1, <1>2, TailFacts, TailDistinct DEF EntryInv, HeldInv, QueuesOK
<1>4. LaneOf[e] = l /\ Queued(e) /\ e \notin running
  BY <1>2, <1>3 DEF EntryInv, HeldInv, QueuesOK, Queued, Occurs
<1>5. /\ f.at = "body" /\ f.entry = e /\ f.lane = l
      /\ n \in Nat /\ n >= 1 /\ Len(stack') = n
      /\ \A i \in 1..(n - 1) : stack'[i] = stack[i]
      /\ stack'[n] = f
  BY <1>1, <1>3, MoveFacts DEF Frame
<1> HIDE DEF l, e, n, f
<1>6. HeldInv'
  <2>1. \A m \in Lanes : queue'[m] = IF m = l THEN Tail(queue[l]) ELSE queue[m]
    BY <1>1, <1>2 DEF TypeOK
  <2>2. QueuesOK'
    <3>1. ASSUME NEW m \in Lanes
          PROVE  Distinct(queue'[m]) /\ \A x \in Entries : Occurs(queue'[m], x) => LaneOf[x] = m
      BY <1>3, <2>1 DEF EntryInv, HeldInv, QueuesOK
    <3> QED
      BY <3>1 DEF QueuesOK
  <2>3. \A x \in Entries : Queued(x)' <=> Queued(x) /\ x # e
    <3>1. \A x \in Entries : Queued(x) <=> Occurs(queue[LaneOf[x]], x)
      BY DEF Queued, Occurs
    <3>2. \A x \in Entries : Queued(x)' <=> Occurs(queue'[LaneOf[x]], x)
      BY DEF Queued, Occurs
    <3> QED
      BY <1>3, <1>4, <2>1, <3>1, <3>2, LaneOfAssumption
  <2>4. promise[e] = "pending"
    BY <1>3, <1>4 DEF EntryInv, HeldInv
  <2>5. \A x \in Entries : promise'[x] = "pending" <=> (x \in running' \/ Queued(x)')
    BY <1>1, <1>4, <2>3, <2>4 DEF EntryInv, HeldInv
  <2>6. \A x \in running' : ~Queued(x)'
    BY <1>1, <1>3, <2>3 DEF EntryInv, HeldInv, TypeOK
  <2> QED
    BY <2>2, <2>5, <2>6 DEF HeldInv
<1>7. SlotsMatchRunning'
  <2> SUFFICES ASSUME NEW m \in Lanes
               PROVE  activeTaskIds'[m] = {x \in running' : LaneOf[x] = m
                                             /\ taskGeneration'[x] = generation'[m]}
    BY DEF SlotsMatchRunning
  <2>1. activeTaskIds'[m] = IF m = l THEN activeTaskIds[l] \union {e} ELSE activeTaskIds[m]
    BY <1>1, <1>2 DEF TypeOK
  <2>2. activeTaskIds[m] = {x \in running : LaneOf[x] = m /\ taskGeneration[x] = generation[m]}
    BY DEF EntryInv, SlotsMatchRunning
  <2>3. /\ taskGeneration'[e] = generation[l]
        /\ \A x \in running : taskGeneration'[x] = taskGeneration[x]
    BY <1>1, <1>3, <1>4 DEF TypeOK
  <2> QED
    BY <1>1, <1>4, <2>1, <2>2, <2>3
<1>8. GenerationsPast'
  <2>1. /\ taskGeneration'[e] = generation[l] /\ generation[l] \in Nat
        /\ \A x \in running : taskGeneration'[x] = taskGeneration[x]
    BY <1>1, <1>2, <1>3, <1>4 DEF TypeOK
  <2> QED
    BY <1>1, <1>4, <2>1 DEF EntryInv, GenerationsPast
<1>9. BodiesRun'
  <2>1. \A i : IsBody(i)' => \/ i = n /\ stack'[i] = f
                             \/ IsBody(i) /\ i # n /\ stack'[i] = stack[i]
    BY <1>5 DEF IsBody, n
  <2>2. \A i : IsBody(i) => /\ stack[i].entry \in running /\ stack[i].entry # e
                            /\ LaneOf[stack[i].entry] = stack[i].lane
    BY <1>4 DEF EntryInv, BodiesRun
  <2>3. \A i, j : IsBody(i) /\ IsBody(j) /\ stack[i].entry = stack[j].entry => i = j
    BY DEF EntryInv, BodiesRun
  <2>4. \A i : IsBody(i)' => /\ stack'[i].entry \in running'
                             /\ LaneOf[stack'[i].entry] = stack'[i].lane
    BY <1>1, <1>4, <1>5, <2>1, <2>2
  <2>5. \A i, j : IsBody(i)' /\ IsBody(j)' /\ stack'[i].entry = stack'[j].entry => i = j
    BY <1>5, <2>1, <2>2, <2>3
  <2> QED
    BY <2>4, <2>5 DEF BodiesRun
<1> QED
  BY <1>6, <1>7, <1>8, <1>9 DEF EntryInv

(* A task that settles leaves the running tasks, and its slot if it still  *)
(* has one.                                                                *)
LEMMA SettleEntries ==
    ASSUME TypeOK, EntryInv, NEW e \in running,
           NEW result \in {"resolved", "rejected"},
           running' = running \ {e},
           promise' = [promise EXCEPT ![e] = result],
           \A m \in Lanes : activeTaskIds'[m] = activeTaskIds[m] \ {e},
           UNCHANGED <<queue, generation, taskGeneration>>
    PROVE  HeldInv' /\ SlotsMatchRunning' /\ GenerationsPast'
<1>1. e \in Entries
  BY DEF TypeOK
<1>2. \A x \in Entries : Queued(x)' <=> Queued(x)
  BY DEF Queued
<1>3. QueuesOK'
  BY DEF EntryInv, HeldInv, QueuesOK, Distinct, Occurs
<1>4. ~Queued(e)
  BY DEF EntryInv, HeldInv
<1>5. \A x \in Entries : promise'[x] = "pending" <=> (x \in running' \/ Queued(x)')
  BY <1>1, <1>2, <1>4 DEF EntryInv, HeldInv, TypeOK
<1>6. \A x \in running' : ~Queued(x)'
  BY <1>2 DEF EntryInv, HeldInv, TypeOK
<1>7. HeldInv'
  BY <1>3, <1>5, <1>6 DEF HeldInv
<1>8. SlotsMatchRunning'
  BY DEF EntryInv, SlotsMatchRunning
<1>9. GenerationsPast'
  BY DEF EntryInv, GenerationsPast
<1> QED
  BY <1>7, <1>8, <1>9

(* A body that throws settles the task of its own frame. *)
LEMMA BodyThrowsEntries == TypeOK /\ EntryInv /\ BodyThrows => EntryInv'
<1> SUFFICES ASSUME TypeOK, EntryInv, BodyThrows PROVE EntryInv'
  OBVIOUS
<1> DEFINE l == Top.lane
           e == Top.entry
           n == Len(stack)
           f == Frame(l, "pump", NoEntry)
           moved == [stack EXCEPT ![n] = f]
<1>1. /\ stack # <<>> /\ Top.at = "body"
      /\ running' = running \ {e}
      /\ promise' = [promise EXCEPT ![e] = "rejected"]
      /\ activeTaskIds' = [activeTaskIds EXCEPT ![l] = @ \ {e}]
      /\ stack' = Append(moved, f)
      /\ UNCHANGED <<queue, generation, taskGeneration>>
  BY DEF BodyThrows, TopAt
<1>2. /\ l \in Lanes /\ n \in Nat /\ n >= 1 /\ Top = stack[n] /\ stack \in Seq(Frames)
  BY <1>1, TopFacts
<1>3. f \in Frames /\ f.at = "pump"
  BY <1>2 DEF Frame, Frames
<1>4. /\ moved \in Seq(Frames) /\ Len(moved) = n
      /\ \A i \in 1..(n - 1) : moved[i] = stack[i]
      /\ moved[n] = f
  <2> HIDE DEF f
  <2> QED
    BY <1>1, <1>2, <1>3, ReplaceFacts
<1> HIDE DEF f, moved
<1>5. /\ Len(stack') = n + 1
      /\ \A i \in 1..(n - 1) : stack'[i] = stack[i]
      /\ stack'[n] = f /\ stack'[n + 1] = f
  <2>1. /\ Len(stack') = n + 1
        /\ \A i \in 1..n : stack'[i] = moved[i]
        /\ stack'[n + 1] = f
    <3> HIDE DEF n
    <3> QED
      BY <1>1, <1>3, <1>4, AppendFacts
  <2> QED
    BY <1>2, <1>4, <2>1
<1>6. IsBody(n)
  BY <1>1, <1>2 DEF IsBody
<1>7. e \in running /\ LaneOf[e] = l
  BY <1>2, <1>6 DEF EntryInv, BodiesRun
<1>8. \A m \in Lanes : activeTaskIds'[m] = activeTaskIds[m] \ {e}
  <2>1. \A m \in Lanes : m # l => e \notin activeTaskIds[m]
    BY <1>7 DEF EntryInv, SlotsMatchRunning
  <2> QED
    BY <1>1, <1>2, <2>1 DEF TypeOK
<1>9. HeldInv' /\ SlotsMatchRunning' /\ GenerationsPast'
  <2> HIDE DEF e, l, n
  <2> QED
    BY <1>1, <1>7, <1>8, SettleEntries
<1>10. BodiesRun'
  <2>1. \A i : IsBody(i)' => IsBody(i) /\ i # n /\ stack'[i] = stack[i]
    BY <1>2, <1>3, <1>5 DEF IsBody
  <2>2. \A i : IsBody(i) /\ i # n => stack[i].entry # e
    BY <1>2, <1>6 DEF EntryInv, BodiesRun
  <2> HIDE DEF e, l, n
  <2>3. \A i : IsBody(i)' => /\ stack'[i].entry \in running'
                             /\ LaneOf[stack'[i].entry] = stack'[i].lane
    BY <1>1, <2>1, <2>2 DEF EntryInv, BodiesRun
  <2>4. \A i, j : IsBody(i)' /\ IsBody(j)' /\ stack'[i].entry = stack'[j].entry => i = j
    BY <2>1 DEF EntryInv, BodiesRun
  <2> QED
    BY <2>3, <2>4 DEF BodiesRun
<1> QED
  BY <1>9, <1>10 DEF EntryInv

(* A turn under way keeps every entry in its place. *)
LEMMA SynchronousEntries == TypeOK /\ EntryInv /\ Synchronous => EntryInv'
<1> SUFFICES ASSUME TypeOK, EntryInv, Synchronous PROVE EntryInv'
  OBVIOUS
<1>1. CASE DrainLaneReturns
  BY <1>1, ReturnAddsNoBody, EntriesKept DEF DrainLaneReturns, TopAt, laneVars, entryVars
<1>2. CASE DrainLaneEnters
  BY <1>2, MoveAddsNoBody, EntriesKept DEF DrainLaneEnters, TopAt, entryVars
<1>3. CASE BodyAwaits
  BY <1>3, MoveAddsNoBody, EntriesKept DEF BodyAwaits, TopAt, laneVars, entryVars
<1>4. CASE PumpReturns
  BY <1>4, ReturnAddsNoBody, EntriesKept DEF PumpReturns, TopAt, entryVars
<1>5. ASSUME NEW l \in Lanes, ResetDrains(l) PROVE EntryInv'
  BY <1>5, CallAddsNoBody, EntriesKept DEF ResetDrains, laneVars, entryVars
<1> QED
  BY <1>1, <1>2, <1>3, <1>4, <1>5, PumpStartsEntries, BodyThrowsEntries DEF Synchronous

(* A new entry joins its lane's queue: it was nowhere before. *)
LEMMA EnqueueEntries ==
    ASSUME TypeOK, EntryInv, NEW e \in Entries, EnqueueCommandInLane(e)
    PROVE  EntryInv'
<1> DEFINE l == LaneOf[e]
<1>1. l \in Lanes
  BY LaneOfAssumption
<1>2. /\ promise[e] = "none"
      /\ UNCHANGED <<activeTaskIds, generation, taskGeneration, running>>
  BY DEF EnqueueCommandInLane
<1>3. e \notin running /\ ~Queued(e)
  BY <1>2 DEF EntryInv, HeldInv
<1>4. CASE gatewayDraining
  <2>1. promise' = [promise EXCEPT ![e] = "refused"] /\ UNCHANGED <<queue, stack>>
    BY <1>4 DEF EnqueueCommandInLane
  <2>2. BodiesRun'
    BY <1>2, <2>1, BodiesKept DEF EntryInv, IsBody
  <2>3. QueuesOK' /\ \A x \in Entries : Queued(x)' <=> Queued(x)
    BY <2>1 DEF EntryInv, HeldInv, QueuesOK, Queued, Distinct, Occurs
  <2>4. \A x \in Entries : promise'[x] = "pending" <=> (x \in running' \/ Queued(x)')
    BY <1>2, <1>3, <2>1, <2>3 DEF EntryInv, HeldInv, TypeOK
  <2>5. HeldInv'
    BY <1>2, <2>3, <2>4 DEF EntryInv, HeldInv, TypeOK
  <2> QED
    BY <1>2, <2>2, <2>5 DEF EntryInv, SlotsMatchRunning, GenerationsPast
<1>5. CASE ~gatewayDraining
  <2>1. /\ promise' = [promise EXCEPT ![e] = "pending"]
        /\ queue' = [queue EXCEPT ![l] = Append(@, e)]
        /\ Call(l, "call")
    BY <1>5 DEF EnqueueCommandInLane
  <2>2. BodiesRun'
    BY <1>1, <1>2, <2>1, CallAddsNoBody, BodiesKept DEF EntryInv
  <2>3. queue[l] \in Seq(Entries) /\ Distinct(queue[l]) /\ ~Occurs(queue[l], e)
    BY <1>1, <1>3 DEF EntryInv, HeldInv, QueuesOK, Queued, Occurs, TypeOK
  <2>4. /\ Distinct(Append(queue[l], e))
        /\ \A x : Occurs(Append(queue[l], e), x) <=> Occurs(queue[l], x) \/ x = e
    BY <2>3, AppendDistinct
  <2>5. \A m \in Lanes : queue'[m] = IF m = l THEN Append(queue[l], e) ELSE queue[m]
    BY <1>1, <2>1 DEF TypeOK
  <2>6. QueuesOK'
    <3>1. ASSUME NEW m \in Lanes
          PROVE  Distinct(queue'[m]) /\ \A x \in Entries : Occurs(queue'[m], x) => LaneOf[x] = m
      BY <2>4, <2>5 DEF EntryInv, HeldInv, QueuesOK
    <3> QED
      BY <3>1 DEF QueuesOK
  <2>7. \A x \in Entries : Queued(x)' <=> Queued(x) \/ x = e
    <3> SUFFICES ASSUME NEW x \in Entries PROVE Queued(x)' <=> Queued(x) \/ x = e
      OBVIOUS
    <3>1. Queued(x) <=> Occurs(queue[LaneOf[x]], x)
      BY DEF Queued, Occurs
    <3>2. Queued(x)' <=> Occurs(queue'[LaneOf[x]], x)
      BY DEF Queued, Occurs
    <3>3. LaneOf[x] \in Lanes
      BY LaneOfAssumption
    <3>4. CASE LaneOf[x] = l
      BY <2>4, <2>5, <3>1, <3>2, <3>3, <3>4
    <3>5. CASE LaneOf[x] # l
      BY <2>5, <3>1, <3>2, <3>3, <3>5
    <3> QED
      BY <3>4, <3>5
  <2>8. \A x \in Entries : promise'[x] = "pending" <=> (x \in running' \/ Queued(x)')
    BY <1>2, <2>1, <2>7 DEF EntryInv, HeldInv, TypeOK
  <2>9. \A x \in running' : ~Queued(x)'
    BY <1>2, <1>3, <2>7 DEF EntryInv, HeldInv, TypeOK
  <2>10. HeldInv'
    BY <2>6, <2>8, <2>9 DEF HeldInv
  <2> QED
    BY <1>2, <2>2, <2>10 DEF EntryInv, SlotsMatchRunning, GenerationsPast
<1> QED
  BY <1>4, <1>5

(* A completion frees the slot of its own generation or none. *)
LEMMA CompleteEntries ==
    ASSUME TypeOK, EntryInv, NEW e \in Entries, NEW result \in {"resolved", "rejected"},
           CompleteTask(e, result)
    PROVE  EntryInv'
<1> DEFINE l == LaneOf[e]
<1>1. l \in Lanes
  BY LaneOfAssumption
<1>2. /\ e \in running /\ running' = running \ {e}
      /\ promise' = [promise EXCEPT ![e] = result]
      /\ stack = <<>>
      /\ UNCHANGED <<queue, generation, taskGeneration>>
  BY DEF CompleteTask, NewTurn
<1>3. \A m \in Lanes : e \in activeTaskIds[m] => m = l /\ taskGeneration[e] = generation[l]
  BY DEF EntryInv, SlotsMatchRunning
<1>4. \A m \in Lanes : activeTaskIds'[m] = activeTaskIds[m] \ {e}
  <2>1. CASE taskGeneration[e] = generation[l]
    <3>1. activeTaskIds' = [activeTaskIds EXCEPT ![l] = @ \ {e}]
      BY <2>1 DEF CompleteTask
    <3> QED
      BY <1>1, <1>3, <3>1 DEF TypeOK
  <2>2. CASE taskGeneration[e] # generation[l]
    <3>1. activeTaskIds' = activeTaskIds
      BY <2>2 DEF CompleteTask
    <3> QED
      BY <1>3, <2>2, <3>1
  <2> QED
    BY <2>1, <2>2
<1>5. HeldInv' /\ SlotsMatchRunning' /\ GenerationsPast'
  BY <1>2, <1>4, SettleEntries
<1>6. BodiesRun'
  <2>1. \A i : ~IsBody(i)
    BY <1>2 DEF IsBody
  <2>2. \A i : ~IsBody(i)'
    <3>1. CASE stack' = stack
      BY <2>1, <3>1 DEF IsBody
    <3>2. CASE Call(l, "pump")
      BY <1>1, <2>1, <3>2, CallAddsNoBody
    <3> QED
      BY <3>1, <3>2 DEF CompleteTask
  <2> QED
    BY <2>2 DEF BodiesRun
<1> QED
  BY <1>5, <1>6 DEF EntryInv

(* Clearing a lane settles the entries that wait in it, and no others. *)
LEMMA ClearEntries ==
    ASSUME TypeOK, EntryInv, NEW l \in Lanes, ClearCommandLane(l)
    PROVE  EntryInv'
<1>1. /\ queue' = [queue EXCEPT ![l] = <<>>]
      /\ promise' = [e \in Entries |-> IF LaneOf[e] = l /\ Queued(e) THEN "cleared"
                                       ELSE promise[e]]
      /\ UNCHANGED <<activeTaskIds, generation, taskGeneration, running, stack>>
  BY DEF ClearCommandLane, callVars
<1>2. \A m \in Lanes : queue'[m] = IF m = l THEN <<>> ELSE queue[m]
  BY <1>1 DEF TypeOK
<1>3. QueuesOK'
  <2>1. Distinct(<<>>) /\ \A x : ~Occurs(<<>>, x)
    BY DEF Distinct, Occurs
  <2>2. ASSUME NEW m \in Lanes
        PROVE  Distinct(queue'[m]) /\ \A x \in Entries : Occurs(queue'[m], x) => LaneOf[x] = m
    BY <1>2, <2>1 DEF EntryInv, HeldInv, QueuesOK
  <2> QED
    BY <2>2 DEF QueuesOK
<1>4. \A x \in Entries : Queued(x)' <=> Queued(x) /\ LaneOf[x] # l
  <2>1. \A x : ~Occurs(<<>>, x)
    BY DEF Occurs
  <2> SUFFICES ASSUME NEW x \in Entries PROVE Queued(x)' <=> Queued(x) /\ LaneOf[x] # l
    OBVIOUS
  <2>2. Queued(x) <=> Occurs(queue[LaneOf[x]], x)
    BY DEF Queued, Occurs
  <2>3. Queued(x)' <=> Occurs(queue'[LaneOf[x]], x)
    BY DEF Queued, Occurs
  <2>4. LaneOf[x] \in Lanes
    BY LaneOfAssumption
  <2> QED
    BY <1>2, <2>1, <2>2, <2>3, <2>4
<1>5. \A x \in Entries : promise'[x] = "pending" <=> (x \in running' \/ Queued(x)')
  BY <1>1, <1>4 DEF EntryInv, HeldInv
<1>6. HeldInv'
  BY <1>1, <1>3, <1>4, <1>5 DEF EntryInv, HeldInv, TypeOK
<1>7. BodiesRun'
  BY <1>1, BodiesKept DEF EntryInv, IsBody
<1> QED
  BY <1>1, <1>6, <1>7 DEF EntryInv, SlotsMatchRunning, GenerationsPast

(* A reset gives every slot back and starts a generation no running task   *)
(* belongs to.                                                             *)
LEMMA ResetEntries ==
    ASSUME TypeOK, EntryInv, ResetAllLanes
    PROVE  EntryInv'
<1>1. /\ generation' = [l \in Lanes |-> generation[l] + 1]
      /\ activeTaskIds' = [l \in Lanes |-> {}]
      /\ UNCHANGED <<queue, taskGeneration, running, promise, stack>>
  BY DEF ResetAllLanes, entryVars
<1>2. \A e \in running : /\ LaneOf[e] \in Lanes
                        /\ taskGeneration[e] \in Nat /\ generation[LaneOf[e]] \in Nat
                        /\ taskGeneration[e] <= generation[LaneOf[e]]
                        /\ generation'[LaneOf[e]] = generation[LaneOf[e]] + 1
  BY <1>1, LaneOfAssumption DEF TypeOK, EntryInv, GenerationsPast
<1>3. GenerationsPast'
  BY <1>1, <1>2 DEF GenerationsPast
<1>4. SlotsMatchRunning'
  BY <1>1, <1>2 DEF SlotsMatchRunning
<1>5. HeldInv'
  BY <1>1 DEF EntryInv, HeldInv, QueuesOK, Queued, Distinct, Occurs
<1>6. BodiesRun'
  BY <1>1, BodiesKept DEF EntryInv, IsBody
<1> QED
  BY <1>3, <1>4, <1>5, <1>6 DEF EntryInv

(* EntryInv holds in every reachable state. *)
LEMMA EntryInvariant == Spec => []EntryInv
<1>1. Init => EntryInv
  <2> SUFFICES ASSUME Init PROVE EntryInv
    OBVIOUS
  <2>1. /\ queue = [l \in Lanes |-> <<>>] /\ running = {} /\ stack = <<>>
        /\ activeTaskIds = [l \in Lanes |-> {}]
        /\ promise = [e \in Entries |-> "none"]
    BY DEF Init
  <2>2. QueuesOK
    BY <2>1 DEF QueuesOK, Distinct, Occurs
  <2>3. \A e \in Entries : ~Queued(e)
    BY <2>1, LaneOfAssumption DEF Queued
  <2>4. HeldInv
    BY <2>1, <2>2, <2>3 DEF HeldInv
  <2> QED
    BY <2>1, <2>4 DEF EntryInv, SlotsMatchRunning, GenerationsPast, BodiesRun, IsBody
<1>2. TypeOK /\ EntryInv /\ [Next]_vars => EntryInv'
  <2> SUFFICES ASSUME TypeOK, EntryInv, [Next]_vars PROVE EntryInv'
    OBVIOUS
  <2>1. CASE UNCHANGED vars
    BY <2>1, EntriesKept DEF vars, laneVars, entryVars, callVars, IsBody
  <2>2. ASSUME NEW l \in ConfiguredLanes, NEW n \in 0..MaxConfigured,
               SetCommandLaneConcurrency(l, n)
        PROVE  EntryInv'
    <3>1. l \in Lanes
      BY ConfiguredLanesAssumption
    <3> QED
      BY <2>2, <3>1, CallAddsNoBody, EntriesKept DEF SetCommandLaneConcurrency, entryVars
  <2>3. CASE MarkGatewayDraining
    BY <2>3, EntriesKept DEF MarkGatewayDraining, laneVars, entryVars, callVars, IsBody
  <2> QED
    BY <2>1, <2>2, <2>3, SynchronousEntries, EnqueueEntries, CompleteEntries, ClearEntries,
       ResetEntries
    DEF Next, Clients, Restarts
<1> QED
  BY <1>1, <1>2, TypeCorrect, PTL DEF Spec

(* Slots are never leaked and never freed for a task that still runs,      *)
(* however completions and resets interleave.                              *)
THEOREM SlotsNeverLeak == Spec => []SlotsMatchRunning
<1>1. EntryInv => SlotsMatchRunning
  BY DEF EntryInv
<1> QED
  BY <1>1, EntryInvariant, PTL

(* No entry is lost, queued twice or queued while it runs. *)
THEOREM EntriesNeverLost == Spec => []PendingIsHeld
<1>1. EntryInv => PendingIsHeld
  BY DEF EntryInv, HeldInv, QueuesOK, Distinct, PendingIsHeld
<1> QED
  BY <1>1, EntryInvariant, PTL

-----------------------------------------------------------------------------
(* Lanes of one slot: the lanes of sessions, whose limit is not configured *)

SingleSlot ==
    \A l \in Lanes \ ConfiguredLanes :
        maxConcurrent[l] = 1 /\ \A e, f \in activeTaskIds[l] : e = f

(* pump starts an entry only in a lane whose only slot is free. *)
LEMMA PumpStartsSingle == TypeOK /\ SingleSlot /\ PumpStarts => SingleSlot'
<1> SUFFICES ASSUME TypeOK, SingleSlot, PumpStarts, NEW l \in Lanes \ ConfiguredLanes
             PROVE  maxConcurrent'[l] = 1 /\ \A e, f \in activeTaskIds'[l] : e = f
  BY DEF SingleSlot
<1>1. activeTaskIds' = [activeTaskIds EXCEPT ![Top.lane] = @ \union {Head(queue[Top.lane])}]
  BY DEF PumpStarts
<1>2. maxConcurrent'[l] = 1 /\ maxConcurrent[l] = 1
  BY DEF PumpStarts, SingleSlot
<1>3. CASE Top.lane = l
  <2>1. Cardinality(activeTaskIds[l]) < 1
    BY <1>2, <1>3 DEF PumpStarts, Startable, HasSlot
  <2>2. IsFiniteSet(activeTaskIds[l])
    BY EntriesAssumption, FS_Subset DEF TypeOK
  <2>3. activeTaskIds[l] = {}
    BY <2>1, <2>2, FS_CardinalityType, FS_EmptySet
  <2> QED
    BY <1>1, <1>2, <1>3, <2>3 DEF TypeOK
<1>4. CASE Top.lane # l
  BY <1>1, <1>2, <1>4 DEF SingleSlot, TypeOK
<1> QED
  BY <1>3, <1>4

LEMMA SingleSlotInvariant == Spec => []SingleSlot
<1>1. Init => SingleSlot
  BY DEF Init, SingleSlot
<1>2. TypeOK /\ SingleSlot /\ [Next]_vars => SingleSlot'
  <2> SUFFICES ASSUME TypeOK, SingleSlot, [Next]_vars PROVE SingleSlot'
    OBVIOUS
  <2>1. ASSUME \A l \in Lanes : activeTaskIds'[l] \subseteq activeTaskIds[l],
               \A l \in Lanes \ ConfiguredLanes : maxConcurrent'[l] = maxConcurrent[l]
        PROVE  SingleSlot'
    BY <2>1 DEF SingleSlot
  <2>2. CASE UNCHANGED vars
    BY <2>1, <2>2 DEF vars, laneVars
  <2>3. CASE DrainLaneReturns \/ DrainLaneEnters \/ BodyAwaits \/ PumpReturns
    BY <2>1, <2>3 DEF DrainLaneReturns, DrainLaneEnters, BodyAwaits, PumpReturns, laneVars
  <2>4. CASE PumpStarts
    BY <2>4, PumpStartsSingle
  <2>5. CASE BodyThrows
    BY <2>1, <2>5 DEF BodyThrows, TypeOK
  <2>6. ASSUME NEW l \in Lanes, ResetDrains(l)
        PROVE  SingleSlot'
    BY <2>1, <2>6 DEF ResetDrains, laneVars
  <2>7. ASSUME NEW e \in Entries, EnqueueCommandInLane(e)
        PROVE  SingleSlot'
    BY <2>1, <2>7 DEF EnqueueCommandInLane
  <2>8. ASSUME NEW e \in Entries, NEW result \in {"resolved", "rejected"}, CompleteTask(e, result)
        PROVE  SingleSlot'
    <3>1. maxConcurrent' = maxConcurrent
      BY <2>8 DEF CompleteTask
    <3>2. activeTaskIds' = [activeTaskIds EXCEPT ![LaneOf[e]] = @ \ {e}]
            \/ activeTaskIds' = activeTaskIds
      BY <2>8 DEF CompleteTask
    <3>3. \A l \in Lanes : activeTaskIds'[l] \subseteq activeTaskIds[l]
      BY <3>2 DEF TypeOK
    <3> QED
      BY <2>1, <3>1, <3>3
  <2>9. ASSUME NEW l \in ConfiguredLanes, NEW n \in 0..MaxConfigured,
               SetCommandLaneConcurrency(l, n)
        PROVE  SingleSlot'
    BY <2>1, <2>9 DEF SetCommandLaneConcurrency, TypeOK
  <2>10. ASSUME NEW l \in Lanes, ClearCommandLane(l)
         PROVE  SingleSlot'
    BY <2>1, <2>10 DEF ClearCommandLane
  <2>11. CASE MarkGatewayDraining
    BY <2>1, <2>11 DEF MarkGatewayDraining, laneVars
  <2>12. CASE ResetAllLanes
    BY <2>12 DEF ResetAllLanes, SingleSlot
  <2> QED
    BY <2>2, <2>3, <2>4, <2>5, <2>6, <2>7, <2>8, <2>9, <2>10, <2>11, <2>12
       DEF Next, Synchronous, Clients, Restarts
<1> QED
  BY <1>1, <1>2, TypeCorrect, PTL DEF Spec

(* A lane that keeps its limit of 1 never runs two tasks that started in   *)
(* its current generation.                                                 *)
THEOREM SingleSlotLanes ==
    Spec => [](\A l \in Lanes \ ConfiguredLanes :
                 \A e, f \in running :
                   (LaneOf[e] = l /\ LaneOf[f] = l /\ taskGeneration[e] = generation[l]
                      /\ taskGeneration[f] = generation[l]) => e = f)
<1> DEFINE Alone == \A l \in Lanes \ ConfiguredLanes :
                      \A e, f \in running :
                        (LaneOf[e] = l /\ LaneOf[f] = l /\ taskGeneration[e] = generation[l]
                           /\ taskGeneration[f] = generation[l]) => e = f
<1>1. SlotsMatchRunning /\ SingleSlot => Alone
  BY DEF SlotsMatchRunning, SingleSlot
<1> HIDE DEF Alone
<1>2. Spec => []Alone
  BY <1>1, SlotsNeverLeak, SingleSlotInvariant, PTL
<1> QED
  BY <1>2 DEF Alone

-----------------------------------------------------------------------------
(* First in, first out.  A queue is sorted by the time its entries were    *)
(* enqueued, and the clock has not passed the number of those admitted, so *)
(* that a new entry is younger than all of them.                           *)

Sorted ==
    \A l \in Lanes : \A i, j \in 1..Len(queue[l]) :
        i < j => enqueuedAt[queue[l][i]] < enqueuedAt[queue[l][j]]

ClockBound == \A e \in Admitted : enqueuedAt[e] <= Cardinality(Admitted)

OrderInv == Sorted /\ FirstInFirstOut /\ ClockBound

(* Steps that admit and start nothing, and only empty queues. *)
LEMMA OrderKept ==
    ASSUME TypeOK, OrderInv, enqueuedAt' = enqueuedAt, Admitted' = Admitted,
           \A l \in Lanes : queue'[l] = queue[l] \/ queue'[l] = <<>>,
           \A e \in Entries : Started(e)' => Started(e)
    PROVE  OrderInv'
<1>1. Sorted'
  BY DEF OrderInv, Sorted
<1>2. ASSUME NEW e \in Entries, Queued(e)' PROVE Queued(e)
  <2>1. LaneOf[e] \in Lanes
    BY LaneOfAssumption
  <2> QED
    BY <1>2, <2>1 DEF Queued
<1>3. FirstInFirstOut'
  BY <1>2 DEF OrderInv, FirstInFirstOut
<1>4. ClockBound'
  BY DEF OrderInv, ClockBound
<1> QED
  BY <1>1, <1>3, <1>4 DEF OrderInv

(* Steps that leave promises, running tasks and queues alone. *)
LEMMA OrderUntouched ==
    ASSUME TypeOK, OrderInv, UNCHANGED <<enqueuedAt, promise, running, queue>>
    PROVE  OrderInv'
<1>1. Admitted' = Admitted
  BY DEF Admitted
<1>2. \A e \in Entries : Started(e)' => Started(e)
  BY DEF Started
<1> QED
  BY <1>1, <1>2, OrderKept

(* A task that settles had started. *)
LEMMA SettlingKeepsOrder ==
    ASSUME TypeOK, EntryInv, OrderInv, NEW e \in running, NEW result \in {"resolved", "rejected"},
           promise' = [promise EXCEPT ![e] = result], running' = running \ {e},
           UNCHANGED <<enqueuedAt, queue>>
    PROVE  OrderInv'
<1>1. e \in Entries /\ promise[e] = "pending"
  BY DEF TypeOK, EntryInv, HeldInv
<1>2. \A f \in Entries : promise'[f] = IF f = e THEN result ELSE promise[f]
  BY <1>1 DEF TypeOK
<1>3. Admitted' = Admitted
  BY <1>1, <1>2 DEF Admitted
<1>4. \A f \in Entries : Started(f)' => Started(f)
  BY <1>1, <1>2 DEF Started
<1> QED
  BY <1>3, <1>4, OrderKept

(* pump starts the oldest entry of its queue. *)
LEMMA PumpKeepsOrder == TypeOK /\ EntryInv /\ OrderInv /\ PumpStarts => OrderInv'
<1> SUFFICES ASSUME TypeOK, EntryInv, OrderInv, PumpStarts PROVE OrderInv'
  OBVIOUS
<1> DEFINE l == Top.lane
           e == Head(queue[l])
<1>1. /\ l \in Lanes /\ queue[l] \in Seq(Entries) /\ queue[l] # <<>>
      /\ queue' = [queue EXCEPT ![l] = Tail(@)]
      /\ running' = running \union {e}
      /\ UNCHANGED <<promise, enqueuedAt>>
  BY TopFacts DEF PumpStarts, TopAt, Startable, TypeOK
<1>2. /\ Len(queue[l]) \in Nat /\ Len(queue[l]) >= 1 /\ e = queue[l][1] /\ e \in Entries
      /\ Tail(queue[l]) \in Seq(Entries)
      /\ Len(Tail(queue[l])) = Len(queue[l]) - 1
      /\ \A i \in 1..(Len(queue[l]) - 1) : Tail(queue[l])[i] = queue[l][i + 1]
  BY <1>1, TailFacts
<1> HIDE DEF l, e
<1>3. \A m \in Lanes : queue'[m] = IF m = l THEN Tail(queue[l]) ELSE queue[m]
  BY <1>1 DEF TypeOK
<1>4. LaneOf[e] = l
  BY <1>1, <1>2 DEF EntryInv, HeldInv, QueuesOK, Occurs
<1>5. Sorted'
  <2> SUFFICES ASSUME NEW m \in Lanes, NEW i \in 1..Len(queue'[m]), NEW j \in 1..Len(queue'[m]),
                      i < j
               PROVE  enqueuedAt[queue'[m][i]] < enqueuedAt[queue'[m][j]]
    BY <1>1 DEF Sorted
  <2>1. CASE m = l
    <3>a. queue'[m] = Tail(queue[l]) /\ Len(queue'[m]) = Len(queue[l]) - 1
      BY <1>1, <1>2, <1>3, <2>1
    <3>b. i \in 1..(Len(queue[l]) - 1) /\ j \in 1..(Len(queue[l]) - 1)
      BY <3>a
    <3>1. i + 1 \in 1..Len(queue[l]) /\ j + 1 \in 1..Len(queue[l]) /\ i + 1 < j + 1
      <4> DEFINE k == Len(queue[l])
      <4>1. k \in Nat /\ i \in 1..(k - 1) /\ j \in 1..(k - 1)
        BY <1>2, <3>b
      <4> HIDE DEF k
      <4>2. i + 1 \in 1..k /\ j + 1 \in 1..k /\ i + 1 < j + 1
        BY <4>1
      <4> QED
        BY <4>2 DEF k
    <3>2. queue'[m][i] = queue[l][i + 1] /\ queue'[m][j] = queue[l][j + 1]
      BY <1>2, <3>a, <3>b
    <3> QED
      BY <1>1, <3>1, <3>2 DEF OrderInv, Sorted
  <2>2. CASE m # l
    BY <1>3, <2>2 DEF OrderInv, Sorted
  <2> QED
    BY <2>1, <2>2
<1>6. FirstInFirstOut'
  <2> SUFFICES ASSUME NEW x \in Entries, NEW f \in Entries, LaneOf[x] = LaneOf[f],
                      Queued(x)', Started(f)'
               PROVE  enqueuedAt[f] < enqueuedAt[x]
    BY <1>1 DEF FirstInFirstOut
  <2>1. LaneOf[x] \in Lanes
    BY LaneOfAssumption
  <2>2. CASE LaneOf[x] # l
    <3>1. f # e /\ queue'[LaneOf[x]] = queue[LaneOf[x]]
      BY <1>3, <1>4, <2>1, <2>2
    <3>2. Queued(x) /\ Started(f)
      BY <1>1, <3>1 DEF Queued, Started
    <3> QED
      BY <3>2 DEF OrderInv, FirstInFirstOut
  <2>3. CASE LaneOf[x] = l
    <3>1. PICK i \in 1..Len(queue'[l]) : queue'[l][i] = x
      BY <2>3 DEF Queued
    <3>a. queue'[l] = Tail(queue[l]) /\ Len(queue'[l]) = Len(queue[l]) - 1
      BY <1>1, <1>2, <1>3
    <3>b. i \in 1..(Len(queue[l]) - 1) /\ queue[l][i + 1] = x
      BY <1>2, <3>1, <3>a
    <3>c. /\ i + 1 \in 1..Len(queue[l])
          /\ 1 \in 1..Len(queue[l]) /\ 1 < i + 1
      <4> DEFINE k == Len(queue[l])
      <4>1. k \in Nat /\ i \in 1..(k - 1)
        BY <1>2, <3>b
      <4> HIDE DEF k
      <4>2. i + 1 \in 1..k /\ 1 \in 1..k /\ 1 < i + 1
        BY <4>1
      <4> QED
        BY <4>2 DEF k
    <3>2. i + 1 \in 1..Len(queue[l]) /\ 1 \in 1..Len(queue[l]) /\ 1 < i + 1 /\ queue[l][i + 1] = x
      BY <3>b, <3>c
    <3>3. Queued(x)
      BY <2>3, <3>2 DEF Queued
    <3>4. CASE f = e
      BY <1>1, <1>2, <3>2, <3>4 DEF OrderInv, Sorted
    <3>5. CASE f # e
      <4>1. Started(f)
        BY <1>1, <3>5 DEF Started
      <4> QED
        BY <3>3, <4>1 DEF OrderInv, FirstInFirstOut
    <3> QED
      BY <3>4, <3>5
  <2> QED
    BY <2>2, <2>3
<1>7. ClockBound'
  BY <1>1 DEF OrderInv, ClockBound, Admitted
<1> QED
  BY <1>5, <1>6, <1>7 DEF OrderInv

(* A new entry is younger than all that were admitted before it. *)
LEMMA EnqueueKeepsOrder ==
    ASSUME TypeOK, EntryInv, OrderInv, NEW e \in Entries, EnqueueCommandInLane(e)
    PROVE  OrderInv'
<1>1. promise[e] = "none" /\ running' = running
  BY DEF EnqueueCommandInLane
<1>2. e \notin Admitted /\ e \notin running /\ ~Queued(e) /\ ~Started(e)
  BY <1>1 DEF Admitted, EntryInv, HeldInv, Started
<1>3. CASE gatewayDraining /\ promise' = [promise EXCEPT ![e] = "refused"]
           /\ UNCHANGED <<queue, enqueuedAt>>
  <2>1. \A f \in Entries : promise'[f] = IF f = e THEN "refused" ELSE promise[f]
    BY <1>3 DEF TypeOK
  <2>2. Admitted' = Admitted
    BY <1>1, <2>1 DEF Admitted
  <2>3. \A f \in Entries : Started(f)' => Started(f)
    BY <1>1, <2>1 DEF Started
  <2> QED
    BY <1>3, <2>2, <2>3, OrderKept
<1>4. CASE /\ promise' = [promise EXCEPT ![e] = "pending"]
           /\ enqueuedAt' = [enqueuedAt EXCEPT ![e] = Cardinality(Admitted) + 1]
           /\ queue' = [queue EXCEPT ![LaneOf[e]] = Append(@, e)]
  <2> DEFINE l == LaneOf[e]
             n == Cardinality(Admitted)
             q == queue[l]
  <2>a. l \in Lanes /\ q \in Seq(Entries)
    BY LaneOfAssumption DEF TypeOK
  <2> HIDE DEF q, l
  <2>b. Len(q) \in Nat /\ \A i \in 1..Len(q) : q[i] \in Entries
    BY <2>a
  <2>c. /\ Len(Append(q, e)) = Len(q) + 1
        /\ \A i \in 1..Len(q) : Append(q, e)[i] = q[i]
        /\ Append(q, e)[Len(q) + 1] = e
    BY <2>a, AppendFacts
  <2>1. /\ l \in Lanes /\ q \in Seq(Entries) /\ Len(q) \in Nat
        /\ Len(Append(q, e)) = Len(q) + 1
        /\ \A i \in 1..Len(q) : Append(q, e)[i] = q[i] /\ q[i] \in Entries
        /\ Append(q, e)[Len(q) + 1] = e
    BY <2>a, <2>b, <2>c
  <2> USE DEF q, l
  <2>2. \A m \in Lanes : queue'[m] = IF m = l THEN Append(q, e) ELSE queue[m]
    BY <1>4, <2>1 DEF TypeOK
  <2>3. /\ \A f \in Entries : promise'[f] = IF f = e THEN "pending" ELSE promise[f]
        /\ \A f \in Entries : enqueuedAt'[f] = IF f = e THEN n + 1 ELSE enqueuedAt[f]
    BY <1>4 DEF TypeOK
  <2>4. IsFiniteSet(Admitted) /\ n \in Nat
    BY EntriesAssumption, FS_Subset, FS_CardinalityType DEF Admitted
  <2>5. Admitted' = Admitted \union {e}
    BY <1>1, <2>3 DEF Admitted
  <2>6. Cardinality(Admitted') = n + 1
    BY <1>2, <2>4, <2>5, FS_AddElement
  <2>7. \A f \in Admitted : f \in Entries /\ f # e /\ enqueuedAt[f] \in Nat /\ enqueuedAt[f] <= n
    BY <1>2 DEF OrderInv, ClockBound, Admitted, TypeOK
  <2>8. \A f \in Entries : Queued(f) \/ Started(f) => f \in Admitted
    BY DEF Admitted, EntryInv, HeldInv, Started
  <2> HIDE DEF n
  <2>9. ClockBound'
    <3>1. \A f \in Admitted' : enqueuedAt'[f] <= n + 1
      BY <2>3, <2>4, <2>5, <2>7
    <3> QED
      BY <2>6, <3>1 DEF ClockBound
  <2>10. \A f \in Entries : Started(f)' => Started(f) /\ f # e
    BY <1>1, <1>2, <2>3 DEF Started
  <2>11. FirstInFirstOut'
    <3> SUFFICES ASSUME NEW x \in Entries, NEW f \in Entries, LaneOf[x] = LaneOf[f],
                        Queued(x)', Started(f)'
                 PROVE  enqueuedAt'[f] < enqueuedAt'[x]
      BY DEF FirstInFirstOut
    <3>1. Started(f) /\ f # e /\ f \in Admitted
      BY <2>8, <2>10
    <3>2. CASE x = e
      BY <2>3, <2>4, <2>7, <3>1, <3>2
    <3>3. CASE x # e
      <4>1. PICK i \in 1..Len(queue'[LaneOf[x]]) : queue'[LaneOf[x]][i] = x
        BY DEF Queued
      <4>2. LaneOf[x] \in Lanes
        BY LaneOfAssumption
      <4>3. i \in 1..Len(queue[LaneOf[x]]) /\ queue[LaneOf[x]][i] = x
        <5>1. CASE LaneOf[x] # l
          BY <2>2, <4>1, <4>2, <5>1
        <5>2. CASE LaneOf[x] = l
          <6>1. queue'[LaneOf[x]] = Append(q, e) /\ queue[LaneOf[x]] = q
            BY <2>1, <2>2, <5>2
          <6> HIDE DEF q, l
          <6>2. i \in 1..(Len(q) + 1) /\ Append(q, e)[i] = x
            BY <2>1, <4>1, <6>1
          <6>3. i # Len(q) + 1
            BY <2>1, <3>3, <6>2
          <6>4. i \in 1..Len(q)
            BY <2>1, <6>2, <6>3
          <6> QED
            BY <2>1, <6>1, <6>2, <6>4
        <5> QED
          BY <5>1, <5>2
      <4>4. Queued(x)
        BY <4>3 DEF Queued
      <4> QED
        BY <2>3, <3>1, <3>3, <4>4 DEF OrderInv, FirstInFirstOut
    <3> QED
      BY <3>2, <3>3
  <2>12. \A i \in 1..Len(q) : q[i] \in Admitted
    <3>1. \A i \in 1..Len(q) : Occurs(q, q[i])
      BY DEF Occurs
    <3>2. \A i \in 1..Len(q) : LaneOf[q[i]] = l
      BY <2>1, <3>1 DEF EntryInv, HeldInv, QueuesOK
    <3>3. \A i \in 1..Len(q) : Queued(q[i])
      BY <3>2 DEF Queued
    <3> QED
      BY <2>1, <2>8, <3>3
  <2>13. Sorted'
    <3> SUFFICES ASSUME NEW m \in Lanes, NEW i \in 1..Len(queue'[m]),
                        NEW j \in 1..Len(queue'[m]), i < j
                 PROVE  enqueuedAt'[queue'[m][i]] < enqueuedAt'[queue'[m][j]]
      BY DEF Sorted
    <3>1. CASE m # l
      <4>1. queue'[m] = queue[m] /\ queue[m] \in Seq(Entries)
        BY <2>2, <3>1 DEF TypeOK
      <4>2. \A k \in 1..Len(queue[m]) : Occurs(queue[m], queue[m][k]) /\ queue[m][k] \in Entries
        BY <4>1 DEF Occurs
      <4>3. \A k \in 1..Len(queue[m]) : queue[m][k] # e
        BY <3>1, <4>2 DEF EntryInv, HeldInv, QueuesOK
      <4> QED
        BY <2>3, <4>1, <4>2, <4>3 DEF OrderInv, Sorted
    <3>2. CASE m = l
      <4> HIDE DEF q, l
      <4>a. queue'[m] = Append(q, e)
        BY <2>1, <2>2, <3>2
      <4>b. i \in 1..(Len(q) + 1) /\ j \in 1..(Len(q) + 1)
        BY <2>1, <4>a
      <4>1. queue'[m] = Append(q, e) /\ i \in 1..Len(q)
        BY <2>1, <4>a, <4>b
      <4>2. q[i] \in Admitted /\ queue'[m][i] = q[i]
        BY <2>1, <2>12, <4>1
      <4>3. CASE j = Len(q) + 1
        <5>1. queue'[m][j] = e
          BY <2>1, <4>1, <4>3
        <5>2. enqueuedAt'[e] = n + 1
          BY <2>3
        <5>3. enqueuedAt'[q[i]] = enqueuedAt[q[i]] /\ enqueuedAt[q[i]] \in Nat /\ enqueuedAt[q[i]] <= n
          BY <2>3, <2>7, <4>2
        <5> QED
          BY <2>4, <4>2, <5>1, <5>2, <5>3
      <4>4. CASE j # Len(q) + 1
        <5>1. j \in 1..Len(q) /\ queue'[m][j] = q[j] /\ q[j] \in Admitted
          BY <2>1, <2>12, <4>1, <4>4, <4>b
        <5>2. enqueuedAt[q[i]] < enqueuedAt[q[j]]
          BY <2>1, <4>1, <5>1 DEF OrderInv, Sorted, q
        <5> QED
          BY <2>3, <2>7, <4>2, <5>1, <5>2
      <4> QED
        BY <4>3, <4>4
    <3> QED
      BY <3>1, <3>2
  <2> QED
    BY <2>9, <2>11, <2>13 DEF OrderInv
<1> QED
  BY <1>3, <1>4 DEF EnqueueCommandInLane

LEMMA OrderNext == TypeOK /\ EntryInv /\ OrderInv /\ [Next]_vars => OrderInv'
<1> SUFFICES ASSUME TypeOK, EntryInv, OrderInv, [Next]_vars PROVE OrderInv'
  OBVIOUS
<1>1. CASE DrainLaneReturns \/ DrainLaneEnters \/ BodyAwaits \/ PumpReturns
  BY <1>1, OrderUntouched
     DEF DrainLaneReturns, DrainLaneEnters, BodyAwaits, PumpReturns, laneVars, entryVars
<1>2. CASE PumpStarts
  BY <1>2, PumpKeepsOrder
<1>3. CASE BodyThrows
  <2>1. stack # <<>> /\ stack[Len(stack)].at = "body" /\ Top = stack[Len(stack)]
    BY <1>3 DEF BodyThrows, TopAt, Top
  <2>2. IsBody(Len(stack))
    BY <2>1, TopFacts DEF IsBody
  <2>3. Top.entry \in running
    BY <2>1, <2>2 DEF EntryInv, BodiesRun
  <2> QED
    BY <1>3, <2>3, SettlingKeepsOrder DEF BodyThrows
<1>4. ASSUME NEW l \in Lanes, ResetDrains(l) PROVE OrderInv'
  BY <1>4, OrderUntouched DEF ResetDrains, laneVars, entryVars
<1>5. ASSUME NEW e \in Entries, EnqueueCommandInLane(e) PROVE OrderInv'
  BY <1>5, EnqueueKeepsOrder
<1>6. ASSUME NEW e \in Entries, NEW result \in {"resolved", "rejected"}, CompleteTask(e, result)
      PROVE  OrderInv'
  BY <1>6, SettlingKeepsOrder DEF CompleteTask
<1>7. ASSUME NEW l \in ConfiguredLanes, NEW n \in 0..MaxConfigured,
             SetCommandLaneConcurrency(l, n)
      PROVE  OrderInv'
  BY <1>7, OrderUntouched DEF SetCommandLaneConcurrency, entryVars
<1>8. ASSUME NEW l \in Lanes, ClearCommandLane(l) PROVE OrderInv'
  <2>1. \A e \in Entries : promise'[e] = IF LaneOf[e] = l /\ Queued(e) THEN "cleared" ELSE promise[e]
    BY <1>8 DEF ClearCommandLane
  <2>2. Admitted' = Admitted
    BY <2>1 DEF Admitted, EntryInv, HeldInv
  <2>3. \A e \in Entries : Started(e)' => Started(e)
    BY <1>8, <2>1 DEF Started, ClearCommandLane
  <2>4. \A m \in Lanes : queue'[m] = queue[m] \/ queue'[m] = <<>>
    BY <1>8 DEF ClearCommandLane, TypeOK
  <2> QED
    BY <1>8, <2>2, <2>3, <2>4, OrderKept DEF ClearCommandLane
<1>9. CASE MarkGatewayDraining \/ ResetAllLanes \/ UNCHANGED vars
  BY <1>9, OrderUntouched DEF MarkGatewayDraining, ResetAllLanes, vars, laneVars, entryVars
<1> QED
  BY <1>1, <1>2, <1>3, <1>4, <1>5, <1>6, <1>7, <1>8, <1>9
     DEF Next, Synchronous, Clients, Restarts

(* A lane starts its entries in the order in which they were enqueued,     *)
(* whatever limits, clears and resets come in between.                     *)
THEOREM LanesAreFair == Spec => []FirstInFirstOut
<1>1. Init => OrderInv
  <2> SUFFICES ASSUME Init PROVE OrderInv
    OBVIOUS
  <2>1. \A l \in Lanes : Len(queue[l]) = 0
    BY DEF Init
  <2>2. \A e \in Entries : ~Queued(e)
    BY <2>1, LaneOfAssumption DEF Queued
  <2> QED
    BY <2>1, <2>2 DEF Init, OrderInv, Sorted, FirstInFirstOut, ClockBound, Admitted
<1>2. OrderInv => FirstInFirstOut
  BY DEF OrderInv
<1> QED
  BY <1>1, <1>2, OrderNext, TypeCorrect, EntryInvariant, PTL DEF Spec
=============================================================================
