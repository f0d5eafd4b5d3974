--------------------------- MODULE OneAtATimeProofs ---------------------------
(***************************************************************************)
(* Proofs about the two components of packages/lifecycle that keep one     *)
(* operation of a caller live at a time.                                   *)
(*                                                                         *)
(* MutationQueue, for every set of tasks, every labelling and every        *)
(* compaction floor: the types, the agreement of the backing array with    *)
(* its count and indices, and, for a diagnostic sink that does not call    *)
(* enqueue(), single flight and the refinement of FifoExecutor.            *)
(*                                                                         *)
(* GenerationController (Latest), for every number of requests: only the   *)
(* latest request is live, and nothing is held for any other.              *)
(***************************************************************************)
EXTENDS MutationQueue, LatestRequest, SequenceTheorems, FiniteSetTheorems, TLAPS

USE DEF Fifo, Frame, Timer, Outcome

(* Compaction returns a backing array of the same type. *)
LEMMA CompactType ==
    ASSUME NEW q \in Fifo
    PROVE  Compact(q) \in Fifo
<1>1. CASE q.head <= CompactionFloor \/ q.head * 2 <= Len(q.slots)
  BY <1>1 DEF Compact
<1>2. CASE ~(q.head <= CompactionFloor \/ q.head * 2 <= Len(q.slots))
  <2> DEFINE kept == SubSeq(q.slots, q.head + 1, Len(q.slots))
             idx == [t \in Task |-> IF \E i \in DOMAIN kept : kept[i] = t
                                    THEN IndexOf(kept, t) ELSE q.index[t]]
  <2>1. kept \in Seq(Task \cup {Hole})
    BY SubSeqProperties
  <2>2. ASSUME NEW t \in Task PROVE idx[t] \in Int
    <3>1. CASE \E i \in DOMAIN kept : kept[i] = t
      <4>1. PICK j \in DOMAIN kept : kept[j] = t /\ IndexOf(kept, t) = j - 1
        BY <3>1 DEF IndexOf
      <4>2. j \in Int
        BY <2>1, <4>1
      <4>3. idx[t] = IndexOf(kept, t)
        BY <3>1
      <4>4. j - 1 \in Int
        BY <4>2
      <4> QED BY <4>1, <4>3, <4>4
    <3>2. CASE ~\E i \in DOMAIN kept : kept[i] = t
      BY <3>2
    <3> QED BY <3>1, <3>2
  <2>3. idx \in [Task -> Int]
    BY <2>2
  <2>4. Compact(q) = [slots |-> kept, head |-> 0, count |-> q.count, index |-> idx]
    BY <1>2 DEF Compact
  <2> HIDE DEF kept, idx
  <2> QED BY <2>1, <2>3, <2>4
<1> QED BY <1>1, <1>2

(* So do pushing, removing and dequeueing. *)
LEMMA PushType ==
    ASSUME NEW q \in Fifo, NEW t \in Task
    PROVE  Push(q, t) \in Fifo
BY AppendProperties DEF Push

LEMMA RemoveType ==
    ASSUME NEW q \in Fifo, NEW t \in Task
    PROVE  RemoveQueued(q, t) \in Fifo
<1> DEFINE r == [slots |-> [q.slots EXCEPT ![q.index[t] + 1] = Hole],
                 head  |-> q.head, count |-> q.count - 1,
                 index |-> [q.index EXCEPT ![t] = -1]]
<1>1. CASE Queued(q, t)
  <2>1. [q.slots EXCEPT ![q.index[t] + 1] = Hole] \in Seq(Task \cup {Hole})
    BY <1>1, ExceptSeq DEF Queued
  <2>2. r \in Fifo
    BY <2>1
  <2> QED BY <1>1, <2>2, CompactType DEF RemoveQueued
<1>2. CASE ~Queued(q, t)
  BY <1>2 DEF RemoveQueued
<1> QED BY <1>1, <1>2

LEMMA DequeueType ==
    ASSUME NEW q \in Fifo, NEW h \in q.head .. Len(q.slots)
    PROVE  /\ DequeueAt(q, h) \in Fifo
           /\ RecordAt(q, h) \in Task \cup {Hole}
<1>1. h \in Nat
  OBVIOUS
<1>2. RecordAt(q, h) \in Task \cup {Hole}
  BY <1>1 DEF RecordAt
<1>3. CASE RecordAt(q, h) = Hole
  <2>1. [q EXCEPT !.head = h] \in Fifo
    BY <1>1
  <2> QED BY <1>2, <1>3, <2>1, CompactType DEF DequeueAt
<1>4. CASE RecordAt(q, h) # Hole
  <2> DEFINE t == RecordAt(q, h)
             r == [slots |-> [q.slots EXCEPT ![h + 1] = Hole],
                   head  |-> h + 1, count |-> q.count - 1,
                   index |-> [q.index EXCEPT ![t] = -1]]
  <2>1. h + 1 \in 1 .. Len(q.slots)
    BY <1>1, <1>4 DEF RecordAt
  <2>2. [q.slots EXCEPT ![h + 1] = Hole] \in Seq(Task \cup {Hole})
    BY <2>1, ExceptSeq
  <2>3. r \in Fifo
    BY <1>1, <1>2, <1>4, <2>2
  <2>4. DequeueAt(q, h) = Compact(r)
    BY <1>4 DEF DequeueAt
  <2> HIDE DEF r
  <2> QED BY <1>2, <2>3, <2>4, CompactType
<1> QED BY <1>3, <1>4

-----------------------------------------------------------------------------
(* #runNext keeps the types of everything it assigns. *)
LEMMA RunNextType ==
    ASSUME TypeOK, NEW q \in Fifo, NEW armings \in [Task -> Timer],
           NEW isRunning \in BOOLEAN, RunNext(q, armings, isRunning)
    PROVE  fifo' \in Fifo /\ armed' \in [Task -> Timer] /\ starting' \in Seq(Frame)
<1> USE ConstantsAssumption DEF ConstantsAssumption
<1>1. CASE isRunning
  BY <1>1 DEF RunNext, TypeOK
<1>2. CASE ~isRunning
  <2>1. PICK h \in q.head .. Len(q.slots) :
            /\ fifo' = DequeueAt(q, h)
            /\ IF RecordAt(q, h) = Hole THEN armed' = armings /\ UNCHANGED starting
               ELSE Disarm(RecordAt(q, h), armings)
    BY <1>2 DEF RunNext
  <2>2. DequeueAt(q, h) \in Fifo /\ RecordAt(q, h) \in Task \cup {Hole}
    BY DequeueType
  <2>3. CASE RecordAt(q, h) = Hole
    BY <2>1, <2>2, <2>3 DEF TypeOK
  <2>4. CASE RecordAt(q, h) # Hole
    <3> DEFINE t == RecordAt(q, h)
    <3>1. t \in Task
      BY <2>2, <2>4
    <3>2. PICK cancelFails \in BOOLEAN :
            /\ armed' = IF cancelFails THEN armings ELSE [armings EXCEPT ![t] = "none"]
            /\ starting' = Append(starting,
                   [task |-> t, sink |-> cancelFails /\ SinkEnqueues])
      BY <2>1, <2>4 DEF Disarm
    <3> DEFINE s == cancelFails /\ SinkEnqueues
    <3>3. s \in BOOLEAN
      OBVIOUS
    <3>4. starting' = Append(starting, [task |-> t, sink |-> s])
      BY <3>2
    <3> HIDE DEF t, s
    <3>5. starting' \in Seq(Frame)
      BY <3>1, <3>3, <3>4, AppendProperties DEF TypeOK
    <3>6. armed' \in [Task -> Timer]
      BY <3>1, <3>2
    <3> QED BY <2>1, <2>2, <3>5, <3>6
  <2> QED BY <2>3, <2>4
<1> QED BY <1>1, <1>2

(* Every step of the queue keeps the types. *)
LEMMA TypeStep == TypeOK /\ [Next]_vars => TypeOK'
<1> SUFFICES ASSUME TypeOK, [Next]_vars PROVE TypeOK'
  OBVIOUS
<1> USE ConstantsAssumption DEF ConstantsAssumption
<1>1. CASE StartNext
  <2> DEFINE n == Len(starting)
  <2>0. starting \in Seq(Frame)
    BY DEF TypeOK
  <2>1. n \in Nat /\ n \in 1 .. Len(starting)
    BY <1>1, <2>0, EmptySeq, LenProperties DEF StartNext, TurnIsFree
  <2>2. starting[n] \in Frame
    BY <2>0, <2>1, ElementOfSeq
  <2>3. SubSeq(starting, 1, n - 1) \in Seq(Frame)
    <3>1. ASSUME NEW i \in 1 .. n - 1 PROVE starting[i] \in Frame
      <4>1. i \in 1 .. Len(starting)
        BY <2>1
      <4> QED BY <2>0, <4>1, ElementOfSeq
    <3> QED BY <2>1, <3>1, SubSeqProperties
  <2> QED BY <1>1, <2>2, <2>3 DEF StartNext, TypeOK
<1>2. ASSUME NEW t \in Task, EnqueueRefused(t) PROVE TypeOK'
  BY <1>2 DEF EnqueueRefused, TypeOK
<1>3. ASSUME NEW t \in Task, EnqueueIdle(t) PROVE TypeOK'
  <2>1. Push(fifo, t) \in Fifo /\ armed \in [Task -> Timer] /\ running \in BOOLEAN
    BY PushType DEF TypeOK
  <2>2. fifo' \in Fifo /\ armed' \in [Task -> Timer] /\ starting' \in Seq(Frame)
    <3>1. RunNext(Push(fifo, t), armed, running)
      BY <1>3 DEF EnqueueIdle
    <3> HIDE DEF Fifo, Timer, Frame
    <3> QED BY <2>1, <3>1, RunNextType
  <2> QED BY <1>3, <2>2 DEF EnqueueIdle, TypeOK
<1>4. ASSUME NEW t \in Task, EnqueueExpiresAtOnce(t) PROVE TypeOK'
  <2>1. /\ RemoveQueued(Push(fifo, t), t) \in Fifo
        /\ armed \in [Task -> Timer] /\ running \in BOOLEAN
    BY PushType, RemoveType DEF TypeOK
  <2>2. fifo' \in Fifo /\ armed' \in [Task -> Timer] /\ starting' \in Seq(Frame)
    <3>1. RunNext(RemoveQueued(Push(fifo, t), t), armed, running)
      BY <1>4 DEF EnqueueExpiresAtOnce
    <3> HIDE DEF Fifo, Timer, Frame
    <3> QED BY <2>1, <3>1, RunNextType
  <2> QED BY <1>4, <2>2 DEF EnqueueExpiresAtOnce, TypeOK
<1>5. ASSUME NEW t \in Task, ExpireAdmission(t) PROVE TypeOK'
  BY <1>5, RemoveType DEF ExpireAdmission, TypeOK
<1>6. ASSUME NEW t \in Task, ReportAdmissionDiagnostic(t) PROVE TypeOK'
  BY <1>6 DEF ReportAdmissionDiagnostic, TypeOK
<1>7. ASSUME NEW t \in Task, NEW arming \in Timer, EnqueueBehindWork(t, arming)
      PROVE  TypeOK'
  <2>1. Push(fifo, t) \in Fifo /\ [armed EXCEPT ![t] = arming] \in [Task -> Timer] /\ running \in BOOLEAN
    BY PushType DEF TypeOK
  <2>2. fifo' \in Fifo /\ armed' \in [Task -> Timer] /\ starting' \in Seq(Frame)
    <3>1. RunNext(Push(fifo, t), [armed EXCEPT ![t] = arming], running)
      BY <1>7 DEF EnqueueBehindWork
    <3> HIDE DEF Fifo, Timer, Frame
    <3> QED BY <2>1, <3>1, RunNextType
  <2> QED BY <1>7, <2>2 DEF EnqueueBehindWork, TypeOK
<1>8. ASSUME NEW t \in Task, NEW arming \in Timer, EnqueueArmFails(t, arming)
      PROVE  TypeOK'
  <2>1. RemoveQueued(Push(fifo, t), t) \in Fifo
    BY PushType, RemoveType DEF TypeOK
  <2> QED BY <1>8, <2>1 DEF EnqueueArmFails, TypeOK
<1>9. ASSUME NEW t \in Task, NEW result \in {"resolved", "failed"}, Finish(t, result)
      PROVE  TypeOK'
  BY <1>9, RunNextType DEF Finish, TypeOK
<1>10. CASE UNCHANGED vars
  BY <1>10 DEF vars, TypeOK
<1> QED BY <1>1, <1>2, <1>3, <1>4, <1>5, <1>6, <1>7, <1>8, <1>9, <1>10 DEF Next

LEMMA TypeInit == Init => TypeOK
<1> SUFFICES ASSUME Init PROVE TypeOK
  OBVIOUS
<1>1. [t \in Task |-> -1] \in [Task -> Int]
  OBVIOUS
<1>2. <<>> \in Seq(Task \cup {Hole}) /\ <<>> \in Seq(Frame)
  OBVIOUS
<1>3. fifo \in Fifo
  BY <1>1, <1>2 DEF Init
<1> QED BY <1>2, <1>3 DEF Init, TypeOK

(* Type correctness: in every reachable state the array, the cursor, the     *)
(* timers and the call stack hold values of their types.                     *)
THEOREM TypeCorrect == Spec => []TypeOK
BY TypeInit, TypeStep, PTL DEF Spec

-----------------------------------------------------------------------------
(* The strengthening of SingleFlight: while a record is between dequeue and  *)
(* start, no other record is, none of its frames runs a sink, and nothing is *)
(* in flight; whatever is in flight is announced by the running mark.        *)
FlightInv ==
    /\ TypeOK
    /\ starting = <<>> \/ \E f \in Frame : f.sink = FALSE /\ starting = <<f>>
    /\ starting # <<>> => ~running /\ inFlight = {}
    /\ inFlight # {} => running
    /\ SingleFlight

(* #runNext on a queue that has nothing in flight puts at most one record on *)
(* the stack, and never under a sink that enqueues.                          *)
LEMMA RunNextStack ==
    ASSUME TypeOK, ~SinkEnqueues, starting = <<>>,
           NEW q \in Fifo, NEW armings, NEW isRunning \in BOOLEAN,
           RunNext(q, armings, isRunning)
    PROVE  \/ starting' = <<>>
           \/ /\ ~isRunning
              /\ \E f \in Frame : f.sink = FALSE /\ starting' = <<f>>
<1>1. CASE isRunning
  BY <1>1 DEF RunNext
<1>2. CASE ~isRunning
  <2>1. PICK h \in q.head .. Len(q.slots) :
            IF RecordAt(q, h) = Hole THEN UNCHANGED starting
            ELSE Disarm(RecordAt(q, h), armings)
    BY <1>2 DEF RunNext
  <2>2. RecordAt(q, h) \in Task \cup {Hole}
    BY DequeueType
  <2>3. CASE RecordAt(q, h) = Hole
    BY <2>1, <2>3
  <2>4. CASE RecordAt(q, h) # Hole
    <3> DEFINE f == [task |-> RecordAt(q, h), sink |-> FALSE]
    <3>1. PICK cancelFails \in BOOLEAN :
            starting' = Append(starting,
               [task |-> RecordAt(q, h), sink |-> cancelFails /\ SinkEnqueues])
      BY <2>1, <2>4 DEF Disarm
    <3>2. (cancelFails /\ SinkEnqueues) = FALSE
      OBVIOUS
    <3>3. starting' = Append(starting, f)
      BY <3>1, <3>2
    <3>4. f \in Frame /\ f.sink = FALSE
      BY <2>2, <2>4
    <3> HIDE DEF f
    <3>5. starting' = <<f>>
      BY <3>3, <3>4
    <3> QED BY <1>2, <3>4, <3>5
  <2> QED BY <2>3, <2>4
<1> QED BY <1>1, <1>2

(* Each step keeps the strengthening when no sink calls back into enqueue(). *)
LEMMA FlightStep ==
    ASSUME ~SinkEnqueues, FlightInv, [Next]_vars
    PROVE  FlightInv'
<1> USE DEF FlightInv, SingleFlight
<1>1. TypeOK'
  BY TypeStep
<1>2. ~InSink
  BY DEF InSink, TurnIsFree
<1>3. CASE StartNext
  <2>1. PICK f \in Frame : f.sink = FALSE /\ starting = <<f>>
    BY <1>3 DEF StartNext, TurnIsFree
  <2>2. starting' = <<>> /\ running' /\ inFlight' = {f.task}
    BY <1>3, <2>1 DEF StartNext
  <2> QED BY <1>1, <2>2
<1>4. ASSUME NEW t \in Task, EnqueueRefused(t) PROVE FlightInv'
  BY <1>1, <1>4 DEF EnqueueRefused
<1>5. ASSUME NEW t \in Task, EnqueueIdle(t) PROVE FlightInv'
  <2>1. Push(fifo, t) \in Fifo /\ running \in BOOLEAN /\ starting = <<>>
    BY <1>2, <1>5, PushType DEF EnqueueIdle, Callable, TurnIsFree, TypeOK
  <2> QED BY <1>1, <1>5, <2>1, RunNextStack DEF EnqueueIdle
<1>6. ASSUME NEW t \in Task, EnqueueExpiresAtOnce(t) PROVE FlightInv'
  <2>1. /\ RemoveQueued(Push(fifo, t), t) \in Fifo
        /\ running \in BOOLEAN /\ starting = <<>>
    BY <1>2, <1>6, PushType, RemoveType
       DEF EnqueueExpiresAtOnce, Callable, TurnIsFree, TypeOK
  <2> QED BY <1>1, <1>6, <2>1, RunNextStack DEF EnqueueExpiresAtOnce
<1>7. ASSUME NEW t \in Task, NEW arming \in Timer, EnqueueBehindWork(t, arming)
      PROVE  FlightInv'
  <2>1. Push(fifo, t) \in Fifo /\ running \in BOOLEAN /\ starting = <<>>
    BY <1>2, <1>7, PushType DEF EnqueueBehindWork, Callable, TurnIsFree, TypeOK
  <2> QED BY <1>1, <1>7, <2>1, RunNextStack DEF EnqueueBehindWork
<1>8. ASSUME NEW t \in Task, NEW arming \in Timer, EnqueueArmFails(t, arming)
      PROVE  FlightInv'
  BY <1>1, <1>8 DEF EnqueueArmFails
<1>9. ASSUME NEW t \in Task, ExpireAdmission(t) PROVE FlightInv'
  BY <1>1, <1>9 DEF ExpireAdmission
<1>10. ASSUME NEW t \in Task, ReportAdmissionDiagnostic(t) PROVE FlightInv'
  BY <1>1, <1>10 DEF ReportAdmissionDiagnostic
<1>11. ASSUME NEW t \in Task, NEW result \in {"resolved", "failed"}, Finish(t, result)
       PROVE  FlightInv'
  <2>1. fifo \in Fifo /\ starting = <<>> /\ inFlight' = {}
    BY <1>11 DEF Finish, TurnIsFree, TypeOK
  <2>2. ~running'
    BY <1>11 DEF Finish
  <2>3. RunNext(fifo, armed, FALSE)
    BY <1>11 DEF Finish
  <2> QED BY <1>1, <2>1, <2>2, <2>3, RunNextStack
<1>12. CASE UNCHANGED vars
  BY <1>1, <1>12 DEF vars
<1> QED BY <1>3, <1>4, <1>5, <1>6, <1>7, <1>8, <1>9, <1>10, <1>11, <1>12 DEF Next

LEMMA FlightInit == Init => FlightInv
<1> SUFFICES ASSUME Init PROVE FlightInv
  OBVIOUS
<1>1. TypeOK
  BY TypeInit
<1> QED BY <1>1 DEF Init, FlightInv, SingleFlight

(* Single flight: as long as the diagnostic sink does not call enqueue(), at *)
(* no time are two tasks of one queue in flight, whatever the callers, the   *)
(* scheduler and its cancel failures do.                                     *)
THEOREM SingleFlightHolds == ASSUME ~SinkEnqueues PROVE Spec => []SingleFlight
<1>1. Init => FlightInv
  BY FlightInit
<1>2. FlightInv /\ [Next]_vars => FlightInv'
  BY FlightStep
<1>3. FlightInv => SingleFlight
  BY DEF FlightInv
<1> QED BY <1>1, <1>2, <1>3, PTL DEF Spec

-----------------------------------------------------------------------------
(* The backing array: what each of its operations does to the records.       *)

LiveOf(q) == {i \in DOMAIN q.slots : i > q.head /\ q.slots[i] # Hole}

(* Records lie behind the cursor, each where its index says, and are counted. *)
Ordered(q) ==
    /\ q.head <= Len(q.slots)
    /\ \A i \in DOMAIN q.slots :
         q.slots[i] # Hole => i > q.head /\ q.index[q.slots[i]] = i - 1
    /\ q.count = Cardinality(LiveOf(q))

(* The records an operation leaves in the array stay in order.               *)
KeepsOrder(q, p) ==
    \A s, t \in HeldBy(p) : p.index[s] < p.index[t] <=> q.index[s] < q.index[t]

(* The types of the parts of an array, in the form the provers use them.     *)
LEMMA ArrayTypes ==
    ASSUME NEW q \in Fifo
    PROVE  /\ DOMAIN q.slots = 1 .. Len(q.slots) /\ Len(q.slots) \in Nat /\ q.head \in Nat
           /\ \A i \in 1 .. Len(q.slots) : q.slots[i] \in Task \cup {Hole}
           /\ IsFiniteSet(LiveOf(q)) /\ q.index \in [Task -> Int] /\ q.count \in Int
<1>1. DOMAIN q.slots = 1 .. Len(q.slots) /\ Len(q.slots) \in Nat /\ q.head \in Nat
  BY LenProperties
<1>2. IsFiniteSet(1 .. Len(q.slots))
  BY <1>1, FS_Interval
<1>3. IsFiniteSet(LiveOf(q))
  BY <1>1, <1>2, FS_Subset DEF LiveOf
<1> QED BY <1>1, <1>3, ElementOfSeq

(* Pushing a record the array does not hold puts it, alone, at the end.      *)
LEMMA PushOrders ==
    ASSUME NEW q \in Fifo, Ordered(q), NEW t \in Task, t \notin HeldBy(q)
    PROVE  /\ Ordered(Push(q, t)) /\ Queued(Push(q, t), t)
           /\ HeldBy(Push(q, t)) = HeldBy(q) \cup {t}
           /\ \A s \in HeldBy(q) : /\ Push(q, t).index[s] = q.index[s]
                                  /\ Push(q, t).index[s] < Push(q, t).index[t]
<1> DEFINE p == Push(q, t)
           n == Len(q.slots)
<1>0. /\ DOMAIN q.slots = 1 .. n /\ n \in Nat /\ q.head \in Nat /\ q.head <= n
      /\ \A i \in 1 .. n : q.slots[i] \in Task \cup {Hole}
      /\ IsFiniteSet(LiveOf(q)) /\ q.index \in [Task -> Int] /\ t # Hole
  BY ArrayTypes, ConstantsAssumption DEF Ordered
<1>1. /\ DOMAIN p.slots = 1 .. n + 1 /\ Len(p.slots) = n + 1 /\ p.slots[n + 1] = t
      /\ \A i \in 1 .. n : p.slots[i] = q.slots[i]
      /\ p.head = q.head /\ p.count = q.count + 1 /\ p.index = [q.index EXCEPT ![t] = n]
  <2>1. p = [slots |-> Append(q.slots, t), head |-> q.head, count |-> q.count + 1,
             index |-> [q.index EXCEPT ![t] = n]]
    BY DEF Push
  <2>2. Append(q.slots, t) \in Seq(Task \cup {Hole})
    BY AppendProperties
  <2>3. DOMAIN Append(q.slots, t) = 1 .. n + 1 /\ Len(Append(q.slots, t)) = n + 1
    BY <1>0, <2>2, AppendProperties, LenProperties
  <2> QED BY <2>1, <2>3, AppendProperties
<1> HIDE DEF p, n
<1>2. \A i \in 1 .. n + 1 : i \in 1 .. n \/ i = n + 1
  BY <1>0
<1>3. HeldBy(p) = HeldBy(q) \cup {t}
  <2>1. \A x \in HeldBy(p) : x \in HeldBy(q) \/ x = t
    BY <1>0, <1>1, <1>2 DEF HeldBy
  <2>2. ASSUME NEW x \in HeldBy(q) PROVE x \in HeldBy(p)
    <3>1. PICK i \in 1 .. n : x = q.slots[i] /\ x # Hole
      BY <1>0 DEF HeldBy
    <3>2. i \in DOMAIN p.slots /\ p.slots[i] = x
      BY <1>0, <1>1, <3>1
    <3> QED BY <3>1, <3>2 DEF HeldBy
  <2>3. t \in HeldBy(p)
    <3>1. n + 1 \in DOMAIN p.slots
      BY <1>0, <1>1
    <3> QED BY <1>0, <1>1, <3>1 DEF HeldBy
  <2> QED BY <2>1, <2>2, <2>3
<1>4. LiveOf(p) = LiveOf(q) \cup {n + 1} /\ n + 1 \notin LiveOf(q)
  BY <1>0, <1>1, <1>2 DEF LiveOf
<1>5. p.count = Cardinality(LiveOf(p))
  <2>1. Cardinality(LiveOf(p)) = Cardinality(LiveOf(q)) + 1
    BY <1>0, <1>4, FS_AddElement
  <2> QED BY <1>1, <2>1 DEF Ordered
<1>6. ASSUME NEW i \in 1 .. n + 1, p.slots[i] # Hole
      PROVE  i > p.head /\ p.index[p.slots[i]] = i - 1
  <2>1. CASE i = n + 1
    BY <1>0, <1>1, <2>1
  <2>2. CASE i \in 1 .. n
    <3>1. q.slots[i] # t /\ q.slots[i] \in Task
      <4>1. q.slots[i] # Hole /\ i \in DOMAIN q.slots
        BY <1>0, <1>1, <1>6, <2>2
      <4>2. q.slots[i] \in HeldBy(q)
        BY <4>1 DEF HeldBy
      <4> QED BY <1>0, <2>2, <4>1, <4>2
    <3>2. i \in DOMAIN q.slots /\ q.slots[i] # Hole /\ p.slots[i] = q.slots[i]
      BY <1>0, <1>1, <1>6, <2>2
    <3>3. i > q.head /\ q.index[q.slots[i]] = i - 1
      BY <3>2 DEF Ordered
    <3>4. p.index[q.slots[i]] = q.index[q.slots[i]]
      BY <1>0, <1>1, <3>1
    <3> QED BY <1>1, <3>2, <3>3, <3>4
  <2> QED BY <1>2, <2>1, <2>2
<1>7. Ordered(p)
  BY <1>0, <1>1, <1>5, <1>6 DEF Ordered
<1>8. Queued(p, t)
  BY <1>0, <1>1 DEF Queued
<1>9. ASSUME NEW s \in HeldBy(q) PROVE p.index[s] = q.index[s] /\ p.index[s] < p.index[t]
  <2>1. PICK i \in 1 .. n : s = q.slots[i] /\ s # Hole
    BY <1>0 DEF HeldBy
  <2>2. q.index[s] = i - 1 /\ s \in Task /\ s # t
    BY <1>0, <2>1 DEF Ordered
  <2> QED BY <1>0, <1>1, <2>1, <2>2
<1> QED BY <1>3, <1>7, <1>8, <1>9 DEF p

(* Compaction moves the live tail to the front and re-indexes all of it.     *)
LEMMA CompactOrders ==
    ASSUME NEW q \in Fifo, Ordered(q)
    PROVE  Ordered(Compact(q)) /\ HeldBy(Compact(q)) = HeldBy(q) /\ KeepsOrder(q, Compact(q))
<1>1. CASE q.head <= CompactionFloor \/ q.head * 2 <= Len(q.slots)
  BY <1>1 DEF Compact, KeepsOrder
<1>2. CASE ~(q.head <= CompactionFloor \/ q.head * 2 <= Len(q.slots))
  <2> DEFINE kept == SubSeq(q.slots, q.head + 1, Len(q.slots))
             idx == [t \in Task |-> IF \E i \in DOMAIN kept : kept[i] = t
                                    THEN IndexOf(kept, t) ELSE q.index[t]]
             p == Compact(q)
             h == q.head
             n == Len(q.slots)
  <2>0. /\ DOMAIN q.slots = 1 .. n /\ n \in Nat /\ h \in Nat /\ h <= n
        /\ \A i \in 1 .. n : q.slots[i] \in Task \cup {Hole}
        /\ IsFiniteSet(LiveOf(q))
    BY ArrayTypes DEF Ordered
  <2>1. p = [slots |-> kept, head |-> 0, count |-> q.count, index |-> idx]
    BY <1>2 DEF Compact
  <2>2. /\ Len(kept) = n - h /\ DOMAIN kept = 1 .. n - h
        /\ \A i \in 1 .. n - h : kept[i] = q.slots[i + h]
    <3>1. /\ kept \in Seq(Task \cup {Hole})
          /\ Len(kept) = IF h + 1 <= n THEN n - (h + 1) + 1 ELSE 0
          /\ \A i \in 1 .. n - (h + 1) + 1 : kept[i] = q.slots[h + 1 + i - 1]
      BY <2>0, SubSeqProperties
    <3>2. Len(kept) = n - h
      BY <2>0, <3>1
    <3>3. DOMAIN kept = 1 .. n - h
      BY <3>1, <3>2, LenProperties
    <3>4. ASSUME NEW i \in 1 .. n - h PROVE kept[i] = q.slots[i + h]
      <4>1. i \in 1 .. n - (h + 1) + 1 /\ h + 1 + i - 1 = i + h
        BY <2>0
      <4> QED BY <3>1, <4>1
    <3> QED BY <3>2, <3>3, <3>4
  <2> HIDE DEF kept, h, n
  <2>3. /\ p.slots = kept /\ p.head = 0 /\ p.count = q.count /\ p.index = idx
    BY <2>1
  <2> HIDE DEF p
  <2>4. ASSUME NEW i \in 1 .. n, q.slots[i] # Hole
        PROVE  /\ i - h \in 1 .. n - h /\ kept[i - h] = q.slots[i]
               /\ q.index[q.slots[i]] = i - 1
    <3>1. i > h /\ q.index[q.slots[i]] = i - 1
      BY <2>0, <2>4 DEF Ordered, h
    <3>2. i - h \in 1 .. n - h /\ (i - h) + h = i
      BY <2>0, <3>1
    <3> QED BY <2>2, <3>1, <3>2
  <2>5. ASSUME NEW i \in 1 .. n - h
        PROVE  i + h \in 1 .. n /\ i + h > h /\ kept[i] = q.slots[i + h]
    BY <2>0, <2>2
  <2>6. HeldBy(p) = HeldBy(q)
    <3>1. ASSUME NEW x \in HeldBy(p) PROVE x \in HeldBy(q)
      <4>1. PICK i \in 1 .. n - h : x = kept[i] /\ x # Hole
        BY <2>2, <2>3 DEF HeldBy
      <4>2. i + h \in DOMAIN q.slots /\ x = q.slots[i + h]
        BY <2>0, <2>5, <4>1
      <4> QED BY <4>1, <4>2 DEF HeldBy
    <3>2. ASSUME NEW x \in HeldBy(q) PROVE x \in HeldBy(p)
      <4>1. PICK i \in 1 .. n : x = q.slots[i] /\ x # Hole
        BY <2>0 DEF HeldBy
      <4>2. i - h \in DOMAIN p.slots /\ x = p.slots[i - h]
        BY <2>2, <2>3, <2>4, <4>1
      <4> QED BY <4>1, <4>2 DEF HeldBy
    <3> QED BY <3>1, <3>2
  <2>7. ASSUME NEW i \in 1 .. n - h, kept[i] # Hole
        PROVE  idx[kept[i]] = i - 1
    <3>1. kept[i] \in Task
      BY <2>0, <2>5, <2>7
    <3>2. \A j \in 1 .. n - h : kept[j] = kept[i] => j = i
      <4>1. ASSUME NEW j \in 1 .. n - h, kept[j] = kept[i] PROVE j = i
        <5>1. q.index[kept[i]] = (i + h) - 1 /\ q.index[kept[j]] = (j + h) - 1
          BY <2>4, <2>5, <2>7, <4>1
        <5> QED BY <2>0, <4>1, <5>1
      <4> QED BY <4>1
    <3>3. IndexOf(kept, kept[i]) = i - 1
      BY <2>2, <3>2 DEF IndexOf
    <3> QED BY <2>2, <3>1, <3>3
  <2> HIDE DEF idx
  <2>8. Cardinality(LiveOf(p)) = Cardinality(LiveOf(q))
    <3> DEFINE f == [i \in LiveOf(q) |-> i - h]
    <3>1. LiveOf(p) = {i \in 1 .. n - h : kept[i] # Hole}
      BY <2>2, <2>3 DEF LiveOf
    <3>2. LiveOf(q) = {i \in 1 .. n : i > h /\ q.slots[i] # Hole}
      BY <2>0 DEF LiveOf, h
    <3>3. \A i \in LiveOf(q) : i - h \in LiveOf(p)
      BY <2>4, <3>1, <3>2
    <3>4. \A i \in LiveOf(p) : i + h \in LiveOf(q) /\ (i + h) - h = i
      BY <2>0, <2>5, <3>1, <3>2
    <3>5. \A i, j \in LiveOf(q) : i - h = j - h => i = j
      BY <2>0, <3>2
    <3>6. f \in Bijection(LiveOf(q), LiveOf(p))
      <4>1. f \in [LiveOf(q) -> LiveOf(p)]
        BY <3>3
      <4>2. \A i, j \in LiveOf(q) : f[i] = f[j] => i = j
        BY <3>5
      <4>3. \A t \in LiveOf(p) : \E s \in LiveOf(q) : f[s] = t
        BY <3>4
      <4> QED BY <4>1, <4>2, <4>3 DEF Bijection, Injection, Surjection, IsInjective
    <3> QED BY <2>0, <3>6, FS_Bijection DEF ExistsBijection
  <2>9. Ordered(p)
    BY <2>0, <2>2, <2>3, <2>7, <2>8 DEF Ordered
  <2>10. ASSUME NEW t \in HeldBy(p) PROVE idx[t] = q.index[t] - h /\ q.index[t] \in Int
    <3>1. PICK i \in 1 .. n : q.slots[i] = t /\ t # Hole
      BY <2>0, <2>6 DEF HeldBy
    <3>2. i - h \in 1 .. n - h /\ kept[i - h] = t /\ q.index[t] = i - 1
      BY <2>4, <3>1
    <3>3. idx[t] = (i - h) - 1
      BY <2>7, <3>1, <3>2
    <3> QED BY <2>0, <3>1, <3>2, <3>3
  <2>11. KeepsOrder(q, p)
    BY <2>0, <2>3, <2>10 DEF KeepsOrder
  <2> QED BY <2>6, <2>9, <2>11 DEF p
<1> QED BY <1>1, <1>2

(* Emptying a live slot takes that record out, and moves the cursor behind   *)
(* it at most.                                                               *)
LEMMA EmptyOrders ==
    ASSUME NEW q \in Fifo, Ordered(q), NEW k \in 1 .. Len(q.slots), q.slots[k] # Hole,
           NEW h \in Nat,
           \/ h = q.head
           \/ h = k /\ \A j \in q.head + 1 .. k - 1 : q.slots[j] = Hole
    PROVE  LET p == [slots |-> [q.slots EXCEPT ![k] = Hole], head |-> h,
                     count |-> q.count - 1, index |-> [q.index EXCEPT ![q.slots[k]] = -1]]
           IN  /\ p \in Fifo /\ Ordered(p) /\ HeldBy(p) = HeldBy(q) \ {q.slots[k]}
               /\ KeepsOrder(q, p)
<1> DEFINE n == Len(q.slots)
           e == [q.slots EXCEPT ![k] = Hole]
           x == [q.index EXCEPT ![q.slots[k]] = -1]
           p == [slots |-> e, head |-> h, count |-> q.count - 1, index |-> x]
<1>0. /\ DOMAIN q.slots = 1 .. n /\ n \in Nat /\ q.head \in Nat /\ q.head <= n
      /\ \A i \in 1 .. n : q.slots[i] \in Task \cup {Hole}
      /\ IsFiniteSet(LiveOf(q)) /\ q.index \in [Task -> Int] /\ q.count \in Int
  BY ArrayTypes DEF Ordered
<1>1. /\ e \in Seq(Task \cup {Hole}) /\ Len(e) = n /\ DOMAIN e = 1 .. n
      /\ \A j \in 1 .. n : e[j] = IF j = k THEN Hole ELSE q.slots[j]
  BY ExceptSeq, LenProperties
<1>2. /\ x \in [Task -> Int]
      /\ \A t \in Task : x[t] = IF t = q.slots[k] THEN -1 ELSE q.index[t]
  BY <1>0
<1> HIDE DEF n, e, x
<1>3. p \in Fifo
  BY <1>0, <1>1, <1>2
<1>4. /\ p.slots = e /\ p.head = h /\ p.count = q.count - 1 /\ p.index = x
  OBVIOUS
<1> HIDE DEF p
<1>5. \A i \in 1 .. n : q.slots[i] # Hole =>
        i > q.head /\ q.index[q.slots[i]] = i - 1 /\ (i # k => q.slots[i] # q.slots[k])
  <2>1. k \in 1 .. n
    BY DEF n
  <2> QED BY <1>0, <2>1 DEF Ordered
<1>6. \A i \in 1 .. n : q.slots[i] # Hole /\ i # k => i > h
  <2>1. k \in 1 .. n
    BY DEF n
  <2> QED BY <1>0, <1>5, <2>1
<1>7. HeldBy(p) = HeldBy(q) \ {q.slots[k]}
  <2>1. ASSUME NEW y \in HeldBy(p) PROVE y \in HeldBy(q) \ {q.slots[k]}
    <3>1. PICK i \in 1 .. n : y = e[i] /\ y # Hole
      BY <1>1, <1>4 DEF HeldBy
    <3>2. i # k /\ y = q.slots[i]
      BY <1>1, <3>1
    <3> QED BY <1>0, <1>5, <3>1, <3>2 DEF HeldBy
  <2>2. ASSUME NEW y \in HeldBy(q), y # q.slots[k] PROVE y \in HeldBy(p)
    <3>1. PICK i \in 1 .. n : y = q.slots[i] /\ y # Hole
      BY <1>0 DEF HeldBy
    <3>2. y = e[i] /\ i \in DOMAIN e
      BY <1>1, <2>2, <3>1
    <3> QED BY <1>4, <3>1, <3>2 DEF HeldBy
  <2> QED BY <2>1, <2>2
<1>8. LiveOf(p) = LiveOf(q) \ {k} /\ k \in LiveOf(q)
  <2>1. k \in 1 .. n /\ k > q.head
    BY <1>5 DEF n
  <2>2. LiveOf(q) = {i \in 1 .. n : i > q.head /\ q.slots[i] # Hole}
    BY <1>0 DEF LiveOf
  <2>3. LiveOf(p) = {i \in 1 .. n : i > h /\ e[i] # Hole}
    BY <1>1, <1>4 DEF LiveOf
  <2> QED BY <1>1, <1>5, <1>6, <2>1, <2>2, <2>3
<1>9. p.count = Cardinality(LiveOf(p))
  <2>1. Cardinality(LiveOf(p)) = Cardinality(LiveOf(q)) - 1
    BY <1>0, <1>8, FS_RemoveElement
  <2> QED BY <1>4, <2>1 DEF Ordered
<1>10. h <= n
  BY <1>0 DEF n
<1>11. ASSUME NEW i \in 1 .. n, e[i] # Hole PROVE i > h /\ x[e[i]] = i - 1
  BY <1>0, <1>1, <1>2, <1>5, <1>6, <1>11
<1>12. Ordered(p)
  BY <1>1, <1>4, <1>9, <1>10, <1>11 DEF Ordered
<1>13. KeepsOrder(q, p)
  <2>1. ASSUME NEW t \in HeldBy(p) PROVE x[t] = q.index[t]
    <3>1. t \in Task /\ t # q.slots[k]
      BY <1>0, <1>7 DEF HeldBy
    <3> QED BY <1>2, <3>1
  <2> QED BY <1>4, <2>1 DEF KeepsOrder
<1> QED BY <1>3, <1>7, <1>12, <1>13 DEF p, e, x

(* Two moves that keep the order keep it together.                           *)
LEMMA OrderKeptTwice ==
    ASSUME NEW q, NEW p, NEW r, KeepsOrder(q, p), KeepsOrder(p, r), HeldBy(r) = HeldBy(p)
    PROVE  KeepsOrder(q, r)
BY DEF KeepsOrder

(* #removeQueued finds a record exactly when the array holds it, and takes   *)
(* out no other.                                                             *)
LEMMA RemoveOrders ==
    ASSUME NEW q \in Fifo, Ordered(q), NEW t \in Task
    PROVE  /\ Ordered(RemoveQueued(q, t)) /\ HeldBy(RemoveQueued(q, t)) = HeldBy(q) \ {t}
           /\ KeepsOrder(q, RemoveQueued(q, t))
           /\ Queued(q, t) <=> t \in HeldBy(q)
<1>0. /\ DOMAIN q.slots = 1 .. Len(q.slots) /\ Len(q.slots) \in Nat /\ q.head \in Nat
      /\ t # Hole /\ q.index \in [Task -> Int]
  BY ArrayTypes, ConstantsAssumption
<1>1. Queued(q, t) <=> t \in HeldBy(q)
  <2>1. Queued(q, t) => t \in HeldBy(q)
    BY <1>0 DEF Queued, HeldBy
  <2>2. ASSUME NEW i \in 1 .. Len(q.slots), q.slots[i] = t PROVE Queued(q, t)
    <3>1. i > q.head /\ q.index[t] = i - 1
      BY <1>0, <2>2 DEF Ordered
    <3> QED BY <1>0, <2>2, <3>1 DEF Queued
  <2> QED BY <1>0, <2>1, <2>2 DEF HeldBy
<1>2. CASE Queued(q, t)
  <2>0. PICK k \in 1 .. Len(q.slots) : k = q.index[t] + 1 /\ q.slots[k] = t
    BY <1>0, <1>2 DEF Queued
  <2> DEFINE p == [slots |-> [q.slots EXCEPT ![k] = Hole], head |-> q.head,
                   count |-> q.count - 1, index |-> [q.index EXCEPT ![q.slots[k]] = -1]]
  <2>1. p \in Fifo /\ Ordered(p) /\ HeldBy(p) = HeldBy(q) \ {t} /\ KeepsOrder(q, p)
    <3>1. q.slots[k] # Hole /\ q.slots[k] = t /\ q.head \in Nat
      BY <1>0, <2>0
    <3>2. /\ p \in Fifo /\ Ordered(p) /\ HeldBy(p) = HeldBy(q) \ {q.slots[k]}
          /\ KeepsOrder(q, p)
      <4> HIDE DEF Fifo
      <4> QED BY <3>1, EmptyOrders
    <3> QED BY <3>1, <3>2
  <2>2. RemoveQueued(q, t) = Compact(p)
    BY <1>2, <2>0 DEF RemoveQueued
  <2> HIDE DEF p
  <2>3. /\ Ordered(Compact(p)) /\ HeldBy(Compact(p)) = HeldBy(q) \ {t}
        /\ KeepsOrder(p, Compact(p))
    <3> HIDE DEF Fifo
    <3> QED BY <2>1, CompactOrders
  <2> QED BY <1>1, <2>1, <2>2, <2>3, OrderKeptTwice
<1>3. CASE ~Queued(q, t)
  BY <1>1, <1>3 DEF RemoveQueued, KeepsOrder
<1> QED BY <1>1, <1>2, <1>3

(* A dequeue takes out the record the cursor reaches, or nothing.            *)
LEMMA DequeueOrders ==
    ASSUME NEW q \in Fifo, Ordered(q), NEW h \in q.head .. Len(q.slots), IsNext(q, h)
    PROVE  /\ Ordered(DequeueAt(q, h))
           /\ RecordAt(q, h) # Hole => RecordAt(q, h) \in HeldBy(q)
           /\ HeldBy(DequeueAt(q, h)) = HeldBy(q) \ {RecordAt(q, h)}
           /\ KeepsOrder(q, DequeueAt(q, h))
           /\ \A s \in HeldBy(DequeueAt(q, h)) : q.index[RecordAt(q, h)] < q.index[s]
<1>0. /\ DOMAIN q.slots = 1 .. Len(q.slots) /\ Len(q.slots) \in Nat /\ q.head \in Nat
      /\ h \in Nat /\ h <= Len(q.slots) /\ q.head <= h
      /\ \A i \in 1 .. Len(q.slots) : q.slots[i] \in Task \cup {Hole}
  BY ArrayTypes
<1>1. CASE RecordAt(q, h) = Hole
  <2>1. h = Len(q.slots)
    BY <1>0, <1>1 DEF RecordAt, IsNext
  <2> DEFINE p == [q EXCEPT !.head = h]
  <2>2. /\ p \in Fifo /\ p.slots = q.slots /\ p.index = q.index /\ p.count = q.count
        /\ p.head = h
    BY <1>0
  <2> HIDE DEF p
  <2>3. \A i \in 1 .. Len(q.slots) : q.slots[i] = Hole
    BY <1>0, <2>1 DEF IsNext, Ordered
  <2>4. HeldBy(q) = {} /\ HeldBy(p) = {} /\ LiveOf(q) = {} /\ LiveOf(p) = {}
    BY <1>0, <2>2, <2>3 DEF HeldBy, LiveOf
  <2>5. Ordered(p)
    BY <1>0, <2>1, <2>2, <2>3, <2>4 DEF Ordered
  <2>6. DequeueAt(q, h) = Compact(p)
    BY <1>1 DEF DequeueAt, p
  <2>7. Ordered(Compact(p)) /\ HeldBy(Compact(p)) = {}
    <3> HIDE DEF Fifo
    <3> QED BY <2>2, <2>4, <2>5, CompactOrders
  <2> QED BY <1>1, <2>4, <2>6, <2>7 DEF KeepsOrder
<1>2. CASE RecordAt(q, h) # Hole
  <2> DEFINE k == h + 1
             p == [slots |-> [q.slots EXCEPT ![k] = Hole], head |-> k,
                   count |-> q.count - 1, index |-> [q.index EXCEPT ![q.slots[k]] = -1]]
  <2>1. k \in 1 .. Len(q.slots) /\ RecordAt(q, h) = q.slots[k] /\ k \in Nat
    BY <1>0, <1>2 DEF RecordAt
  <2>2. \A j \in q.head + 1 .. k - 1 : q.slots[j] = Hole
    BY <1>0 DEF IsNext
  <2>3. DequeueAt(q, h) = Compact(p)
    BY <1>2, <2>1 DEF DequeueAt
  <2>4. /\ p \in Fifo /\ Ordered(p) /\ HeldBy(p) = HeldBy(q) \ {q.slots[k]}
        /\ KeepsOrder(q, p)
    <3> HIDE DEF k
    <3> QED BY <1>2, <2>1, <2>2, EmptyOrders
  <2>5. q.slots[k] \in HeldBy(q)
    BY <1>0, <1>2, <2>1 DEF HeldBy
  <2>6. ASSUME NEW s \in HeldBy(q), s # q.slots[k] PROVE q.index[q.slots[k]] < q.index[s]
    <3>1. PICK i \in 1 .. Len(q.slots) : s = q.slots[i] /\ s # Hole
      BY <1>0 DEF HeldBy
    <3>2. i > q.head /\ q.index[s] = i - 1 /\ q.index[q.slots[k]] = k - 1
      BY <1>0, <1>2, <2>1, <3>1 DEF Ordered
    <3>3. i # k
      BY <2>6, <3>1
    <3>4. ~(i < k)
      <4>1. q.head \in Nat /\ i \in Nat /\ k \in Nat
        BY <1>0, <2>1, <3>1
      <4>2. i \in q.head + 1 .. k - 1 => q.slots[i] = Hole
        BY <2>2
      <4> HIDE DEF k
      <4> QED BY <3>1, <3>2, <4>1, <4>2
    <3>5. i - 1 > k - 1
      <4>1. i \in Nat /\ k \in Nat
        BY <2>1, <3>1
      <4> HIDE DEF k
      <4> QED BY <3>3, <3>4, <4>1
    <3> QED BY <3>2, <3>5
  <2> HIDE DEF p, k
  <2>7. /\ Ordered(Compact(p)) /\ HeldBy(Compact(p)) = HeldBy(p)
        /\ KeepsOrder(p, Compact(p))
    <3> HIDE DEF Fifo
    <3> QED BY <2>4, CompactOrders
  <2>8. KeepsOrder(q, Compact(p))
    BY <2>4, <2>7, OrderKeptTwice
  <2> QED BY <1>2, <2>1, <2>3, <2>4, <2>5, <2>6, <2>7, <2>8
<1> QED BY <1>1, <1>2

-----------------------------------------------------------------------------
(* The tasks that have left the array and are not settled yet.               *)
Busy == Starting \cup inFlight

(* The strengthening of ArrayConsistent: the array is in order, the tasks it *)
(* holds are those whose callers wait, none of them has left the array, and  *)
(* none that left it can be submitted again.                                 *)
ArrayInv ==
    /\ TypeOK
    /\ Ordered(fifo)
    /\ \A t \in HeldBy(fifo) : outcome[t] = "pending"
    /\ \A t \in Busy : t \notin HeldBy(fifo) /\ outcome[t] # "new"

(* #runNext keeps the array in order; what it takes out is what it starts.   *)
LEMMA RunNextOrders ==
    ASSUME NEW q \in Fifo, Ordered(q), starting \in Seq(Frame), NEW armings,
           NEW isRunning \in BOOLEAN, RunNext(q, armings, isRunning)
    PROVE  /\ Ordered(fifo')
           /\ HeldBy(fifo') \subseteq HeldBy(q)
           /\ \A i \in DOMAIN starting' :
                \/ i \in DOMAIN starting /\ starting'[i] = starting[i]
                \/ /\ starting'[i].task \in HeldBy(q)
                   /\ starting'[i].task \notin HeldBy(fifo')
<1>1. CASE isRunning
  BY <1>1 DEF RunNext
<1>2. CASE ~isRunning
  <2>1. PICK h \in q.head .. Len(q.slots) :
            /\ IsNext(q, h)
            /\ fifo' = DequeueAt(q, h)
            /\ IF RecordAt(q, h) = Hole THEN UNCHANGED starting
               ELSE Disarm(RecordAt(q, h), armings)
    BY <1>2 DEF RunNext
  <2>2. /\ Ordered(fifo')
        /\ RecordAt(q, h) # Hole => RecordAt(q, h) \in HeldBy(q)
        /\ HeldBy(fifo') = HeldBy(q) \ {RecordAt(q, h)}
    BY <2>1, DequeueOrders
  <2>3. CASE RecordAt(q, h) = Hole
    BY <2>1, <2>2, <2>3
  <2>4. CASE RecordAt(q, h) # Hole
    <3>1. PICK f : starting' = Append(starting, f) /\ f.task = RecordAt(q, h) /\ f \in Frame
      <4>1. RecordAt(q, h) \in Task
        BY <2>2, <2>4, DequeueType
      <4>2. PICK cancelFails \in BOOLEAN :
              starting' = Append(starting,
                 [task |-> RecordAt(q, h), sink |-> cancelFails /\ SinkEnqueues])
        BY <2>1, <2>4 DEF Disarm
      <4>3. (cancelFails /\ SinkEnqueues) \in BOOLEAN
        BY ConstantsAssumption
      <4> DEFINE g == [task |-> RecordAt(q, h), sink |-> (cancelFails /\ SinkEnqueues)]
      <4>4. g \in Frame /\ g.task = RecordAt(q, h)
        BY <4>1, <4>3
      <4>5. starting' = Append(starting, g)
        BY <4>2
      <4> HIDE DEF g
      <4> QED BY <4>4, <4>5
    <3>2. /\ DOMAIN starting' = 1 .. Len(starting) + 1
          /\ DOMAIN starting = 1 .. Len(starting) /\ Len(starting) \in Nat
          /\ starting'[Len(starting) + 1] = f
          /\ \A i \in 1 .. Len(starting) : starting'[i] = starting[i]
      BY <3>1, AppendProperties, LenProperties
    <3>3. \A i \in 1 .. Len(starting) + 1 : i \in 1 .. Len(starting) \/ i = Len(starting) + 1
      BY <3>2
    <3> QED BY <2>2, <2>4, <3>1, <3>2, <3>3
  <2> QED BY <2>3, <2>4
<1> QED BY <1>1, <1>2

(* A step that hands the array to #runNext: what it puts in waits.           *)
LEMMA RunNextKeeps ==
    ASSUME ArrayInv, TypeOK', NEW q \in Fifo, Ordered(q), NEW armings,
           NEW isRunning \in BOOLEAN, RunNext(q, armings, isRunning),
           inFlight' \subseteq inFlight,
           \A t \in HeldBy(q) : t \notin Busy /\ outcome'[t] = "pending",
           \A t \in Busy : outcome'[t] # "new"
    PROVE  ArrayInv'
<1>1. starting \in Seq(Frame) /\ starting' \in Seq(Frame)
  BY DEF ArrayInv, TypeOK
<1>2. /\ Ordered(fifo') /\ HeldBy(fifo') \subseteq HeldBy(q)
      /\ \A i \in DOMAIN starting' :
            \/ i \in DOMAIN starting /\ starting'[i] = starting[i]
            \/ /\ starting'[i].task \in HeldBy(q)
               /\ starting'[i].task \notin HeldBy(fifo')
  <2> HIDE DEF Fifo, Frame
  <2> QED BY <1>1, RunNextOrders
<1>3. ASSUME NEW t \in Busy'
      PROVE  t \in Busy \/ (t \in HeldBy(q) /\ t \notin HeldBy(fifo'))
  BY <1>2, <1>3 DEF Busy, Starting
<1>4. \A t \in Busy' : t \notin HeldBy(fifo') /\ outcome'[t] # "new"
  BY <1>2, <1>3
<1>5. Ordered(fifo)' /\ \A t \in HeldBy(fifo)' : outcome'[t] = "pending"
  BY <1>2 DEF Ordered, HeldBy, LiveOf
<1>6. HeldBy(fifo)' = HeldBy(fifo')
  BY DEF HeldBy
<1> QED BY <1>4, <1>5, <1>6 DEF ArrayInv

(* A newly submitted task is neither in the array nor on its way.            *)
LEMMA NewIsNowhere ==
    ASSUME ArrayInv, NEW t \in Task, outcome[t] = "new"
    PROVE  t \notin HeldBy(fifo) /\ t \notin Busy
BY DEF ArrayInv

(* Every step keeps the strengthening; no assumption on the sink is needed.  *)
LEMMA ArrayStep ==
    ASSUME ArrayInv, [Next]_vars
    PROVE  ArrayInv'
<1>1. TypeOK'
  BY TypeStep DEF ArrayInv
<1>2. /\ fifo \in Fifo /\ Ordered(fifo) /\ starting \in Seq(Frame) /\ inFlight \subseteq Task
      /\ outcome \in [Task -> Outcome] /\ running \in BOOLEAN
      /\ \A t \in HeldBy(fifo) : outcome[t] = "pending"
      /\ \A t \in Busy : t \notin HeldBy(fifo) /\ outcome[t] # "new"
  BY DEF ArrayInv, TypeOK
<1>3. HeldBy(fifo) \subseteq Task
  <2> SUFFICES ASSUME NEW x \in HeldBy(fifo) PROVE x \in Task
    OBVIOUS
  <2> QED BY <1>2, ArrayTypes DEF HeldBy
<1>4. ASSUME fifo' = fifo, Busy' \subseteq Busy,
             \A t \in HeldBy(fifo) : outcome'[t] = "pending",
             \A t \in Busy : outcome'[t] # "new"
      PROVE  ArrayInv'
  <2>1. HeldBy(fifo)' = HeldBy(fifo) /\ Ordered(fifo)' /\ LiveOf(fifo)' = LiveOf(fifo)
    BY <1>2, <1>4 DEF HeldBy, Ordered, LiveOf
  <2> QED BY <1>1, <1>2, <1>4, <2>1 DEF ArrayInv
<1>5. ASSUME NEW t \in Task, outcome[t] = "new"
      PROVE  /\ Push(fifo, t) \in Fifo /\ Ordered(Push(fifo, t))
             /\ HeldBy(Push(fifo, t)) = HeldBy(fifo) \cup {t}
             /\ RemoveQueued(Push(fifo, t), t) \in Fifo
             /\ Ordered(RemoveQueued(Push(fifo, t), t))
             /\ HeldBy(RemoveQueued(Push(fifo, t), t)) = HeldBy(fifo)
             /\ t \notin HeldBy(fifo) /\ t \notin Busy
  <2>1. t \notin HeldBy(fifo) /\ t \notin Busy
    BY <1>5, NewIsNowhere
  <2>2. /\ Push(fifo, t) \in Fifo /\ Ordered(Push(fifo, t))
        /\ HeldBy(Push(fifo, t)) = HeldBy(fifo) \cup {t}
    <3> HIDE DEF Fifo
    <3> QED BY <1>2, <2>1, PushType, PushOrders
  <2>3. /\ RemoveQueued(Push(fifo, t), t) \in Fifo
        /\ Ordered(RemoveQueued(Push(fifo, t), t))
        /\ HeldBy(RemoveQueued(Push(fifo, t), t)) = HeldBy(Push(fifo, t)) \ {t}
    <3> HIDE DEF Fifo
    <3> QED BY <2>2, RemoveType, RemoveOrders
  <2> QED BY <2>1, <2>2, <2>3
<1>6. CASE StartNext
  <2> DEFINE m == Len(starting)
  <2>1. m \in Nat /\ m # 0 /\ DOMAIN starting = 1 .. m
    BY <1>2, <1>6, EmptySeq, LenProperties DEF StartNext, TurnIsFree
  <2>2. starting' = SubSeq(starting, 1, m - 1) /\ inFlight' = inFlight \cup {starting[m].task}
    BY <1>6 DEF StartNext
  <2>3. DOMAIN starting' = 1 .. m - 1 /\ \A i \in 1 .. m - 1 : starting'[i] = starting[i]
    <3>1. Len(starting') = m - 1 /\ \A i \in 1 .. m - 1 : starting'[i] = starting[i]
      BY <1>2, <2>1, <2>2, SubSeqProperties
    <3> QED BY <1>1, <3>1, LenProperties DEF TypeOK
  <2> HIDE DEF m
  <2>4. Busy' \subseteq Busy
    BY <2>1, <2>2, <2>3 DEF Busy, Starting
  <2> QED BY <1>2, <1>4, <1>6, <2>4 DEF StartNext
<1>7. ASSUME NEW t \in Task, EnqueueRefused(t) PROVE ArrayInv'
  <2>1. outcome[t] = "new" /\ outcome' = [outcome EXCEPT ![t] = "self_dependency"]
    BY <1>7 DEF EnqueueRefused, Callable
  <2>2. Busy' = Busy /\ fifo' = fifo
    BY <1>7 DEF EnqueueRefused, Busy, Starting
  <2> QED BY <1>2, <1>3, <1>4, <1>5, <2>1, <2>2
<1>8. ASSUME NEW t \in Task, outcome[t] = "new",
             outcome' = [outcome EXCEPT ![t] = "pending"], inFlight' = inFlight,
             NEW armings, RunNext(Push(fifo, t), armings, running)
      PROVE  ArrayInv'
  <2>1. \A s \in HeldBy(Push(fifo, t)) : s \notin Busy /\ outcome'[s] = "pending"
    BY <1>2, <1>3, <1>5, <1>8
  <2>2. \A s \in Busy : outcome'[s] # "new"
    BY <1>2, <1>5, <1>8
  <2> HIDE DEF Fifo
  <2> QED BY <1>1, <1>2, <1>5, <1>8, <2>1, <2>2, RunNextKeeps
<1>9. ASSUME NEW t \in Task, EnqueueIdle(t) PROVE ArrayInv'
  BY <1>8, <1>9 DEF EnqueueIdle, Callable
<1>10. ASSUME NEW t \in Task, NEW arming \in Timer, EnqueueBehindWork(t, arming)
       PROVE  ArrayInv'
  BY <1>8, <1>10 DEF EnqueueBehindWork, Callable
<1>11. ASSUME NEW t \in Task, EnqueueExpiresAtOnce(t) PROVE ArrayInv'
  <2>1. /\ outcome[t] = "new" /\ outcome' = [outcome EXCEPT ![t] = "timed_out"]
        /\ RunNext(RemoveQueued(Push(fifo, t), t), armed, running) /\ inFlight' = inFlight
    BY <1>11 DEF EnqueueExpiresAtOnce, Callable
  <2>2. \A s \in HeldBy(RemoveQueued(Push(fifo, t), t)) :
            s \notin Busy /\ outcome'[s] = "pending"
    BY <1>2, <1>3, <1>5, <2>1
  <2>3. \A s \in Busy : outcome'[s] # "new"
    BY <1>2, <1>5, <2>1
  <2> HIDE DEF Fifo
  <2> QED BY <1>1, <1>2, <1>5, <2>1, <2>2, <2>3, RunNextKeeps
<1>12. ASSUME NEW t \in Task, NEW arming \in Timer, EnqueueArmFails(t, arming)
       PROVE  ArrayInv'
  <2>1. /\ outcome[t] = "new" /\ outcome' = [outcome EXCEPT ![t] = "arm_failed"]
        /\ fifo' = RemoveQueued(Push(fifo, t), t)
        /\ inFlight' = inFlight /\ starting' = starting
    BY <1>12 DEF EnqueueArmFails, Callable
  <2>2. HeldBy(fifo)' = HeldBy(fifo) /\ Ordered(fifo)'
    <3>1. HeldBy(fifo)' = HeldBy(fifo') /\ Ordered(fifo)' = Ordered(fifo')
      BY DEF HeldBy, Ordered, LiveOf
    <3>2. Ordered(fifo') /\ HeldBy(fifo') = HeldBy(fifo)
      BY <1>5, <2>1
    <3> QED BY <3>1, <3>2
  <2>3. Busy' = Busy
    BY <2>1 DEF Busy, Starting
  <2> QED BY <1>1, <1>2, <1>3, <1>5, <2>1, <2>2, <2>3 DEF ArrayInv
<1>13. ASSUME NEW t \in Task, ExpireAdmission(t) PROVE ArrayInv'
  <2>1. /\ fifo' = RemoveQueued(fifo, t)
        /\ outcome' = IF Queued(fifo, t) THEN [outcome EXCEPT ![t] = "timed_out"]
                      ELSE outcome
        /\ inFlight' = inFlight /\ starting' = starting
    BY <1>13 DEF ExpireAdmission
  <2>2. /\ Ordered(RemoveQueued(fifo, t))
        /\ HeldBy(RemoveQueued(fifo, t)) = HeldBy(fifo) \ {t}
        /\ Queued(fifo, t) <=> t \in HeldBy(fifo)
    <3> HIDE DEF Fifo
    <3> QED BY <1>2, RemoveOrders
  <2>3. HeldBy(fifo)' = HeldBy(fifo) \ {t} /\ Ordered(fifo)'
    BY <2>1, <2>2 DEF HeldBy, Ordered, LiveOf
  <2>4. Busy' = Busy
    BY <2>1 DEF Busy, Starting
  <2>5. \A s \in HeldBy(fifo) \ {t} : outcome'[s] = "pending"
    BY <1>2, <1>3, <2>1
  <2>6. \A s \in Busy : outcome'[s] # "new"
    BY <1>2, <2>1, <2>2
  <2> QED BY <1>1, <1>2, <2>3, <2>4, <2>5, <2>6 DEF ArrayInv
<1>14. ASSUME NEW t \in Task, ReportAdmissionDiagnostic(t) PROVE ArrayInv'
  <2>1. Busy' = Busy /\ fifo' = fifo /\ outcome' = outcome
    BY <1>14 DEF ReportAdmissionDiagnostic, Busy, Starting
  <2> QED BY <1>2, <1>4, <2>1
<1>15. ASSUME NEW t \in Task, NEW result \in {"resolved", "failed"}, Finish(t, result)
       PROVE  ArrayInv'
  <2>1. /\ t \in Busy /\ outcome' = [outcome EXCEPT ![t] = result]
        /\ inFlight' \subseteq inFlight /\ RunNext(fifo, armed, FALSE)
    BY <1>15 DEF Finish, Busy, Starting
  <2>2. \A s \in HeldBy(fifo) : s \notin Busy /\ outcome'[s] = "pending"
    BY <1>2, <1>3, <2>1
  <2>3. \A s \in Busy : outcome'[s] # "new"
    BY <1>2, <2>1
  <2> HIDE DEF Fifo
  <2> QED BY <1>1, <1>2, <2>1, <2>2, <2>3, RunNextKeeps
<1>16. CASE UNCHANGED vars
  <2>1. Busy' = Busy /\ fifo' = fifo /\ outcome' = outcome
    BY <1>16 DEF vars, Busy, Starting
  <2> QED BY <1>2, <1>4, <2>1
<1> QED BY <1>6, <1>7, <1>9, <1>10, <1>11, <1>12, <1>13, <1>14, <1>15, <1>16 DEF Next

LEMMA ArrayInit == Init => ArrayInv
<1> SUFFICES ASSUME Init PROVE ArrayInv
  OBVIOUS
<1>1. DOMAIN fifo.slots = {} /\ Len(fifo.slots) = 0 /\ fifo.head = 0 /\ fifo.count = 0
  BY DEF Init
<1>2. HeldBy(fifo) = {} /\ LiveOf(fifo) = {}
  BY <1>1 DEF HeldBy, LiveOf
<1>3. Ordered(fifo)
  BY <1>1, <1>2, FS_EmptySet DEF Ordered
<1>4. Busy = {}
  BY DEF Init, Busy, Starting
<1> QED BY <1>2, <1>3, <1>4, TypeInit DEF ArrayInv

(* The array never loses or miscounts a record: after every push, removal in *)
(* the middle, dequeue and compaction, whatever user code does from inside   *)
(* #runNext, the live count and the indices are those of the live records,   *)
(* and a task still in the array is one whose caller waits.                  *)
THEOREM ArrayConsistentHolds == Spec => []ArrayConsistent
<1>1. ArrayInv => ArrayConsistent
  <2> SUFFICES ASSUME ArrayInv PROVE ArrayConsistent
    OBVIOUS
  <2>1. Ordered(fifo) /\ Live = LiveOf(fifo)
    BY DEF ArrayInv, Live, LiveOf
  <2>2. \A i \in DOMAIN fifo.slots : fifo.slots[i] # Hole => fifo.slots[i] \in HeldBy(fifo)
    BY DEF HeldBy
  <2> QED BY <2>1, <2>2 DEF ArrayInv, ArrayConsistent, Ordered
<1> QED BY <1>1, ArrayInit, ArrayStep, PTL DEF Spec

-----------------------------------------------------------------------------
(* First in, first out.  An array, seen as the abstract executor's queue:    *)
(* who waits, and in front of whom.                                          *)

OrderOf(q) ==
    [t \in Task |-> {s \in HeldBy(q) : t \in HeldBy(q) /\ q.index[s] < q.index[t]}]

(* The records of an array are tasks and have indices.                       *)
LEMMA HeldAreTasks ==
    ASSUME NEW q \in Fifo
    PROVE  HeldBy(q) \subseteq Task /\ \A t \in HeldBy(q) : q.index[t] \in Int
<1>1. HeldBy(q) \subseteq Task
  BY ArrayTypes DEF HeldBy
<1> QED BY <1>1, ArrayTypes

(* A pushed record waits behind all others.                                  *)
LEMMA PushIsLast ==
    ASSUME NEW q \in Fifo, Ordered(q), NEW t \in Task, t \notin HeldBy(q)
    PROVE  OrderOf(Push(q, t)) = [OrderOf(q) EXCEPT ![t] = HeldBy(q)]
<1> DEFINE p == Push(q, t)
<1>1. /\ HeldBy(p) = HeldBy(q) \cup {t} /\ p \in Fifo
      /\ \A s \in HeldBy(q) : p.index[s] = q.index[s] /\ p.index[s] < p.index[t]
  <2> HIDE DEF Fifo
  <2> QED BY PushOrders, PushType
<1> HIDE DEF p
<1>2. /\ \A s \in HeldBy(p) : p.index[s] \in Int
      /\ HeldBy(q) \subseteq Task
  <2> HIDE DEF Fifo
  <2> QED BY <1>1, HeldAreTasks
<1>3. ASSUME NEW u \in Task
      PROVE  OrderOf(p)[u] = IF u = t THEN HeldBy(q) ELSE OrderOf(q)[u]
  <2>1. CASE u = t
    BY <1>1, <1>2, <2>1 DEF OrderOf
  <2>2. CASE u # t
    BY <1>1, <1>2, <2>2 DEF OrderOf
  <2> QED BY <2>1, <2>2
<1> QED BY <1>3 DEF OrderOf, p

(* A removed record leaves the others in order.                              *)
LEMMA RemovalLeavesOrder ==
    ASSUME NEW q \in Fifo, Ordered(q), NEW t \in Task
    PROVE  OrderOf(RemoveQueued(q, t)) =
             [u \in Task |-> IF u = t THEN {} ELSE OrderOf(q)[u] \ {t}]
<1> DEFINE p == RemoveQueued(q, t)
<1>1. HeldBy(p) = HeldBy(q) \ {t} /\ KeepsOrder(q, p)
  <2> HIDE DEF Fifo
  <2> QED BY RemoveOrders
<1> HIDE DEF p
<1>2. ASSUME NEW u \in Task
      PROVE  OrderOf(p)[u] = IF u = t THEN {} ELSE OrderOf(q)[u] \ {t}
  <2>1. CASE u = t
    BY <1>1, <2>1 DEF OrderOf
  <2>2. CASE u # t
    BY <1>1, <2>2 DEF OrderOf, KeepsOrder
  <2> QED BY <2>1, <2>2
<1> QED BY <1>2 DEF OrderOf, p

(* A submission that is refused after the push leaves no trace in the order. *)
LEMMA PushAndRemove ==
    ASSUME NEW q \in Fifo, Ordered(q), NEW t \in Task, t \notin HeldBy(q)
    PROVE  OrderOf(RemoveQueued(Push(q, t), t)) = OrderOf(q)
<1>1. Push(q, t) \in Fifo /\ Ordered(Push(q, t))
  <2> HIDE DEF Fifo
  <2> QED BY PushOrders, PushType
<1>2. OrderOf(RemoveQueued(Push(q, t), t)) =
        [u \in Task |-> IF u = t THEN {} ELSE OrderOf(Push(q, t))[u] \ {t}]
  <2> HIDE DEF Fifo
  <2> QED BY <1>1, RemovalLeavesOrder
<1>3. OrderOf(Push(q, t)) = [OrderOf(q) EXCEPT ![t] = HeldBy(q)]
  <2> HIDE DEF Fifo
  <2> QED BY PushIsLast
<1>4. ASSUME NEW u \in Task
      PROVE  (IF u = t THEN {} ELSE OrderOf(Push(q, t))[u] \ {t}) = OrderOf(q)[u]
  <2>1. CASE u = t
    BY <2>1 DEF OrderOf
  <2>2. CASE u # t
    <3>1. OrderOf(Push(q, t))[u] = OrderOf(q)[u]
      BY <1>3, <2>2 DEF OrderOf
    <3> QED BY <2>2, <3>1 DEF OrderOf
  <2> QED BY <2>1, <2>2
<1> QED BY <1>2, <1>4 DEF OrderOf

(* Between turns the array is the queue.                                     *)
LEMMA FreeTurnQueue ==
    ASSUME starting = <<>>
    PROVE  Starting = {} /\ Waiting = HeldBy(fifo) /\ OlderTasks = OrderOf(fifo)
<1>1. Starting = {}
  BY DEF Starting
<1>2. Waiting = HeldBy(fifo)
  BY <1>1 DEF Waiting
<1>3. \A t \in Task : {s \in Waiting : Ahead(s, t)} =
        {s \in HeldBy(fifo) : t \in HeldBy(fifo) /\ fifo.index[s] < fifo.index[t]}
  BY <1>1, <1>2 DEF Ahead
<1> QED BY <1>1, <1>2, <1>3 DEF OlderTasks, OrderOf

(* The same of the state after a step.                                       *)
LEMMA FreeTurnNext ==
    ASSUME starting' = <<>>
    PROVE  Waiting' = HeldBy(fifo') /\ OlderTasks' = OrderOf(fifo')
<1>1. Starting' = {} /\ HeldBy(fifo)' = HeldBy(fifo')
  BY DEF Starting, HeldBy
<1>2. Waiting' = HeldBy(fifo')
  BY <1>1 DEF Waiting
<1>3. \A t \in Task : {s \in Waiting' : Ahead(s, t)'} =
        {s \in HeldBy(fifo') : t \in HeldBy(fifo') /\ fifo'.index[s] < fifo'.index[t]}
  BY <1>1, <1>2 DEF Ahead
<1> QED BY <1>2, <1>3 DEF OlderTasks, OrderOf

(* #runNext moves the oldest record from the array to the call stack: in the *)
(* executor's queue nothing happens.                                         *)
LEMMA RunNextStutters ==
    ASSUME starting = <<>>, NEW q \in Fifo, Ordered(q), NEW armings,
           NEW isRunning \in BOOLEAN, RunNext(q, armings, isRunning)
    PROVE  Waiting' = HeldBy(q) /\ OlderTasks' = OrderOf(q)
<1>0. HeldBy(q) \subseteq Task /\ \A t \in HeldBy(q) : q.index[t] \in Int
  <2> HIDE DEF Fifo
  <2> QED BY HeldAreTasks
<1>1. ASSUME Starting' = {}, HeldBy(fifo') = HeldBy(q), KeepsOrder(q, fifo')
      PROVE  Waiting' = HeldBy(q) /\ OlderTasks' = OrderOf(q)
  <2>1. Waiting' = HeldBy(q) /\ HeldBy(fifo)' = HeldBy(q)
    BY <1>1 DEF Waiting, HeldBy
  <2>2. \A t \in Task : {s \in Waiting' : Ahead(s, t)'} =
          {s \in HeldBy(q) : t \in HeldBy(q) /\ q.index[s] < q.index[t]}
    BY <1>1, <2>1 DEF Ahead, KeepsOrder
  <2> QED BY <2>1, <2>2 DEF OlderTasks, OrderOf
<1>2. CASE isRunning
  <2>1. fifo' = q /\ starting' = <<>>
    BY <1>2 DEF RunNext
  <2>2. Starting' = {} /\ HeldBy(fifo') = HeldBy(q) /\ KeepsOrder(q, fifo')
    BY <2>1 DEF Starting, KeepsOrder
  <2> QED BY <1>1, <2>2
<1>3. CASE ~isRunning
  <2>1. PICK h \in q.head .. Len(q.slots) :
            /\ IsNext(q, h)
            /\ fifo' = DequeueAt(q, h)
            /\ IF RecordAt(q, h) = Hole THEN UNCHANGED starting
               ELSE Disarm(RecordAt(q, h), armings)
    BY <1>3 DEF RunNext
  <2> DEFINE r == RecordAt(q, h)
  <2>2. /\ r # Hole => r \in HeldBy(q)
        /\ HeldBy(fifo') = HeldBy(q) \ {r} /\ KeepsOrder(q, fifo')
        /\ \A s \in HeldBy(fifo') : q.index[r] < q.index[s]
    <3> HIDE DEF Fifo
    <3> QED BY <2>1, DequeueOrders
  <2>3. CASE r = Hole
    <3>1. starting' = <<>>
      BY <1>3, <2>1, <2>3 DEF RunNext
    <3>2. HeldBy(fifo') = HeldBy(q)
      <4>1. Hole \notin HeldBy(q)
        BY DEF HeldBy
      <4> QED BY <2>2, <2>3, <4>1
    <3>3. Starting' = {} /\ HeldBy(fifo') = HeldBy(q)
      BY <3>1, <3>2 DEF Starting
    <3> QED BY <1>1, <2>2, <3>3
  <2>4. CASE r # Hole
    <3>1. PICK f : starting' = <<f>> /\ f.task = r
      <4>1. PICK cancelFails \in BOOLEAN :
              starting' = Append(starting,
                 [task |-> r, sink |-> cancelFails /\ SinkEnqueues])
        BY <2>1, <2>4 DEF Disarm
      <4> DEFINE g == [task |-> r, sink |-> (cancelFails /\ SinkEnqueues)]
      <4>2. starting' = Append(starting, g) /\ g.task = r
        BY <4>1
      <4> HIDE DEF g
      <4> QED BY <4>2
    <3> HIDE DEF r
    <3>2. Starting' = {r}
      BY <3>1 DEF Starting
    <3>3. Waiting' = HeldBy(q) /\ HeldBy(fifo)' = HeldBy(fifo')
      BY <2>2, <2>4, <3>2 DEF Waiting, HeldBy
    <3>4. ASSUME NEW t \in Task, NEW s \in HeldBy(q)
          PROVE  Ahead(s, t)' <=> t \in HeldBy(q) /\ q.index[s] < q.index[t]
      <4>1. CASE t \notin HeldBy(fifo')
        BY <1>0, <2>2, <2>4, <3>3, <4>1 DEF Ahead
      <4>2. CASE t \in HeldBy(fifo') /\ s = r
        BY <2>2, <3>2, <3>3, <4>2 DEF Ahead
      <4>3. CASE t \in HeldBy(fifo') /\ s # r
        BY <2>2, <3>2, <3>3, <4>3 DEF Ahead, KeepsOrder
      <4> QED BY <4>1, <4>2, <4>3
    <3>5. \A t \in Task : {s \in Waiting' : Ahead(s, t)'} =
            {s \in HeldBy(q) : t \in HeldBy(q) /\ q.index[s] < q.index[t]}
      BY <3>3, <3>4
    <3> QED BY <3>3, <3>5 DEF OlderTasks, OrderOf
  <2> QED BY <2>3, <2>4
<1> QED BY <1>2, <1>3

(* Each step of the queue is a step of the executor, or none.                *)
LEMMA ExecutorStep ==
    ASSUME ~SinkEnqueues, FlightInv, ArrayInv, [Next]_vars
    PROVE  [Abstract!Next]_(Abstract!vars)
<1> USE DEF Abstract!Next, Abstract!vars
<1>1. /\ fifo \in Fifo /\ Ordered(fifo) /\ running \in BOOLEAN /\ inFlight \subseteq Task
      /\ outcome \in [Task -> Outcome] /\ starting \in Seq(Frame)
      /\ \A t \in HeldBy(fifo) : outcome[t] = "pending"
      /\ \A t \in Busy : t \notin HeldBy(fifo) /\ outcome[t] # "new"
  BY DEF ArrayInv, TypeOK
<1>2. ~InSink
  BY DEF InSink, TurnIsFree, FlightInv
<1>3. ASSUME NEW t \in Task, outcome[t] = "new"
      PROVE  /\ t \notin HeldBy(fifo) /\ t \notin Busy
             /\ t \notin Settled /\ Abstract!Fresh(t)
  BY <1>1, <1>3 DEF Abstract!Fresh, Waiting, Busy, Settled
<1>4. ASSUME NEW t \in Task, Callable(t) PROVE starting = <<>> /\ outcome[t] = "new"
  BY <1>2, <1>4 DEF Callable, TurnIsFree
<1>5. ASSUME NEW t \in Task, outcome[t] = "new",
             NEW result \in {"self_dependency", "arm_failed", "timed_out"},
             outcome' = [outcome EXCEPT ![t] = result],
             UNCHANGED <<Waiting, OlderTasks, inFlight>>
      PROVE  Abstract!Refuse(t)
  <2>1. Settled' = Settled \cup {t}
    BY <1>1, <1>5 DEF Settled
  <2> QED BY <1>3, <1>5, <2>1 DEF Abstract!Refuse
<1>6. ASSUME NEW t \in Task, outcome[t] = "new", starting = <<>>,
             outcome' = [outcome EXCEPT ![t] = "pending"], UNCHANGED inFlight,
             NEW armings, RunNext(Push(fifo, t), armings, running)
      PROVE  Abstract!Submit(t)
  <2>1. t \notin HeldBy(fifo)
    BY <1>3, <1>6
  <2>2. /\ Push(fifo, t) \in Fifo /\ Ordered(Push(fifo, t))
        /\ HeldBy(Push(fifo, t)) = HeldBy(fifo) \cup {t}
        /\ OrderOf(Push(fifo, t)) = [OrderOf(fifo) EXCEPT ![t] = HeldBy(fifo)]
    <3> HIDE DEF Fifo
    <3> QED BY <1>1, <2>1, PushType, PushOrders, PushIsLast
  <2>3. /\ Waiting' = HeldBy(fifo) \cup {t}
        /\ OlderTasks' = [OrderOf(fifo) EXCEPT ![t] = HeldBy(fifo)]
    <3> HIDE DEF Fifo
    <3> QED BY <1>1, <1>6, <2>2, RunNextStutters
  <2>4. Settled' = Settled
    BY <1>1, <1>6 DEF Settled
  <2> QED BY <1>3, <1>6, <2>3, <2>4, FreeTurnQueue DEF Abstract!Submit
<1>7. CASE StartNext
  <2>1. PICK f \in Frame : starting = <<f>>
    BY <1>7 DEF StartNext, TurnIsFree, FlightInv
  <2> DEFINE t == f.task
  <2>2. starting' = <<>> /\ inFlight = {} /\ inFlight' = {t} /\ UNCHANGED <<fifo, outcome>>
    BY <1>7, <2>1 DEF StartNext, FlightInv
  <2>3. Starting = {t} /\ t \in Task
    BY <2>1 DEF Starting
  <2>4. t \notin HeldBy(fifo)
    BY <1>1, <2>3 DEF Busy
  <2>5. Waiting' = HeldBy(fifo) /\ OlderTasks' = OrderOf(fifo) /\ Settled' = Settled
    <3>1. Starting' = {} /\ HeldBy(fifo)' = HeldBy(fifo)
      BY <2>2 DEF Starting, HeldBy
    <3>2. \A u \in Task : {s \in HeldBy(fifo) : Ahead(s, u)'} =
            {s \in HeldBy(fifo) : u \in HeldBy(fifo) /\ fifo.index[s] < fifo.index[u]}
      BY <2>2, <3>1 DEF Ahead
    <3>3. Waiting' = HeldBy(fifo)
      BY <3>1 DEF Waiting
    <3>4. OlderTasks' = OrderOf(fifo)
      BY <3>2, <3>3 DEF OlderTasks, OrderOf
    <3> QED BY <2>2, <3>3, <3>4 DEF Settled
  <2> HIDE DEF t
  <2>6. Waiting = HeldBy(fifo) \cup {t}
    BY <2>3 DEF Waiting
  <2>7. ASSUME NEW u \in Task
        PROVE  OrderOf(fifo)[u] = IF u = t THEN {} ELSE OlderTasks[u] \ {t}
    BY <2>3, <2>4, <2>6 DEF OrderOf, OlderTasks, Ahead
  <2>8. OlderTasks[t] = {}
    BY <2>3, <2>4 DEF OlderTasks, Ahead
  <2>9. OrderOf(fifo) = [u \in Task |-> IF u = t THEN {} ELSE OlderTasks[u] \ {t}]
    BY <2>7 DEF OrderOf
  <2>10. Abstract!Start(t)
    BY <2>2, <2>4, <2>5, <2>6, <2>8, <2>9 DEF Abstract!Start, Abstract!Leave
  <2> QED BY <2>3, <2>10
<1>8. ASSUME NEW t \in Task, EnqueueRefused(t) PROVE Abstract!Next
  <2>1. UNCHANGED <<Waiting, OlderTasks, inFlight>>
    BY <1>8 DEF EnqueueRefused, Waiting, OlderTasks, Ahead, Starting, HeldBy
  <2> QED BY <1>4, <1>5, <1>8, <2>1 DEF EnqueueRefused
<1>9. ASSUME NEW t \in Task, EnqueueIdle(t) PROVE Abstract!Next
  BY <1>4, <1>6, <1>9 DEF EnqueueIdle
<1>10. ASSUME NEW t \in Task, NEW arming \in Timer, EnqueueBehindWork(t, arming)
       PROVE  Abstract!Next
  BY <1>4, <1>6, <1>10 DEF EnqueueBehindWork
<1>11. ASSUME NEW t \in Task, outcome[t] = "new", starting = <<>>
       PROVE  /\ RemoveQueued(Push(fifo, t), t) \in Fifo
              /\ Ordered(RemoveQueued(Push(fifo, t), t))
              /\ HeldBy(RemoveQueued(Push(fifo, t), t)) = Waiting
              /\ OrderOf(RemoveQueued(Push(fifo, t), t)) = OlderTasks
  <2>1. t \notin HeldBy(fifo)
    BY <1>3, <1>11
  <2>2. /\ Push(fifo, t) \in Fifo /\ Ordered(Push(fifo, t))
        /\ HeldBy(Push(fifo, t)) = HeldBy(fifo) \cup {t}
    <3> HIDE DEF Fifo
    <3> QED BY <1>1, <2>1, PushType, PushOrders
  <2>3. /\ RemoveQueued(Push(fifo, t), t) \in Fifo
        /\ Ordered(RemoveQueued(Push(fifo, t), t))
        /\ HeldBy(RemoveQueued(Push(fifo, t), t)) = HeldBy(fifo)
    <3>1. HeldBy(RemoveQueued(Push(fifo, t), t)) = HeldBy(Push(fifo, t)) \ {t}
      <4> HIDE DEF Fifo
      <4> QED BY <2>2, RemoveOrders
    <3> HIDE DEF Fifo
    <3> QED BY <2>1, <2>2, <3>1, RemoveType, RemoveOrders
  <2>4. OrderOf(RemoveQueued(Push(fifo, t), t)) = OrderOf(fifo)
    <3> HIDE DEF Fifo
    <3> QED BY <1>1, <2>1, PushAndRemove
  <2> QED BY <1>11, <2>3, <2>4, FreeTurnQueue
<1>12. ASSUME NEW t \in Task, EnqueueExpiresAtOnce(t) PROVE Abstract!Next
  <2>1. /\ starting = <<>> /\ outcome[t] = "new"
        /\ outcome' = [outcome EXCEPT ![t] = "timed_out"]
        /\ RunNext(RemoveQueued(Push(fifo, t), t), armed, running) /\ inFlight' = inFlight
    BY <1>4, <1>12 DEF EnqueueExpiresAtOnce
  <2>2. UNCHANGED <<Waiting, OlderTasks>>
    <3> HIDE DEF Fifo
    <3> QED BY <1>1, <1>11, <2>1, RunNextStutters
  <2> QED BY <1>5, <2>1, <2>2
<1>13. ASSUME NEW t \in Task, NEW arming \in Timer, EnqueueArmFails(t, arming)
       PROVE  Abstract!Next
  <2>1. /\ starting = <<>> /\ starting' = <<>> /\ outcome[t] = "new"
        /\ outcome' = [outcome EXCEPT ![t] = "arm_failed"]
        /\ fifo' = RemoveQueued(Push(fifo, t), t) /\ inFlight' = inFlight
    BY <1>4, <1>13 DEF EnqueueArmFails
  <2>2. Waiting' = HeldBy(fifo') /\ OlderTasks' = OrderOf(fifo')
    BY <2>1, FreeTurnNext
  <2>3. UNCHANGED <<Waiting, OlderTasks>>
    BY <1>11, <2>1, <2>2
  <2> QED BY <1>5, <2>1, <2>3
<1>14. ASSUME NEW t \in Task, ExpireAdmission(t) PROVE [Abstract!Next]_(Abstract!vars)
  <2>1. /\ starting = <<>> /\ starting' = <<>> /\ inFlight' = inFlight
        /\ fifo' = RemoveQueued(fifo, t)
        /\ outcome' = IF Queued(fifo, t) THEN [outcome EXCEPT ![t] = "timed_out"]
                      ELSE outcome
    BY <1>14 DEF ExpireAdmission, TurnIsFree
  <2>2. /\ HeldBy(RemoveQueued(fifo, t)) = HeldBy(fifo) \ {t}
        /\ Queued(fifo, t) <=> t \in HeldBy(fifo)
        /\ OrderOf(RemoveQueued(fifo, t)) =
             [u \in Task |-> IF u = t THEN {} ELSE OrderOf(fifo)[u] \ {t}]
    <3> HIDE DEF Fifo
    <3> QED BY <1>1, RemoveOrders, RemovalLeavesOrder
  <2>3. CASE Queued(fifo, t)
    <3>1. Waiting' = HeldBy(fifo') /\ OlderTasks' = OrderOf(fifo')
      BY <2>1, FreeTurnNext
    <3>2. Abstract!Leave(t)
      BY <2>1, <2>2, <2>3, <3>1, FreeTurnQueue DEF Abstract!Leave
    <3>3. Settled' = Settled \cup {t}
      BY <1>1, <2>1, <2>3 DEF Settled
    <3> QED BY <2>1, <3>2, <3>3 DEF Abstract!GiveUp
  <2>4. CASE ~Queued(fifo, t)
    <3>1. UNCHANGED <<fifo, starting, outcome>>
      BY <2>1, <2>4 DEF RemoveQueued
    <3>2. UNCHANGED <<Waiting, OlderTasks, Settled>>
      BY <3>1 DEF Waiting, OlderTasks, Ahead, Starting, HeldBy, Settled
    <3> QED BY <2>1, <3>2
  <2> QED BY <2>3, <2>4
<1>15. ASSUME UNCHANGED <<fifo, starting, outcome, inFlight>> PROVE UNCHANGED Abstract!vars
  BY <1>15 DEF Waiting, OlderTasks, Ahead, Starting, HeldBy, Settled
<1>16. ASSUME NEW t \in Task, ReportAdmissionDiagnostic(t) PROVE UNCHANGED Abstract!vars
  BY <1>15, <1>16 DEF ReportAdmissionDiagnostic
<1>17. ASSUME NEW t \in Task, NEW result \in {"resolved", "failed"}, Finish(t, result)
       PROVE  Abstract!Next
  <2>1. /\ starting = <<>> /\ t \in inFlight /\ inFlight' = inFlight \ {t}
        /\ outcome' = [outcome EXCEPT ![t] = result] /\ RunNext(fifo, armed, FALSE)
    BY <1>17 DEF Finish, TurnIsFree
  <2>2. UNCHANGED <<Waiting, OlderTasks>>
    <3> HIDE DEF Fifo
    <3> QED BY <1>1, <2>1, RunNextStutters, FreeTurnQueue
  <2>3. Settled' = Settled \cup {t}
    BY <1>1, <2>1 DEF Settled
  <2> QED BY <2>1, <2>2, <2>3 DEF Abstract!Settle
<1>18. CASE UNCHANGED vars
  BY <1>15, <1>18 DEF vars
<1> QED BY <1>7, <1>8, <1>9, <1>10, <1>12, <1>13, <1>14, <1>16, <1>17, <1>18 DEF Next

(* The queue implements the FIFO executor: for any set of tasks, callers,    *)
(* deadlines and scheduler failures, tasks start one at a time, the oldest   *)
(* waiting one first, and one that was refused or has given up never starts  *)
(* -- as long as the diagnostic sink does not call enqueue().                *)
THEOREM RefinesFifoExecutor == ASSUME ~SinkEnqueues PROVE Spec => ImplementsFifoExecutor
<1>1. Init => Abstract!Init
  <2> SUFFICES ASSUME Init PROVE Abstract!Init
    OBVIOUS
  <2>1. Starting = {} /\ HeldBy(fifo) = {}
    BY DEF Init, Starting, HeldBy
  <2>2. Waiting = {} /\ OlderTasks = [t \in Task |-> {}]
    BY <2>1 DEF Waiting, OlderTasks, Ahead
  <2> QED BY <2>2 DEF Init, Abstract!Init, Settled
<1>2. Init => FlightInv
  BY FlightInit
<1>3. FlightInv /\ [Next]_vars => FlightInv'
  BY FlightStep
<1>4. FlightInv /\ ArrayInv /\ [Next]_vars => [Abstract!Next]_(Abstract!vars)
  BY ExecutorStep
<1> QED BY <1>1, <1>2, <1>3, <1>4, ArrayInit, ArrayStep, PTL
       DEF Spec, ImplementsFifoExecutor, Abstract!Spec

-----------------------------------------------------------------------------
(* The generation controller: not one after the other, but only the latest.  *)

CONSTANTS MaxGeneration, BeginDuringBegin, DisposeDuringBegin

VARIABLES generation, number, observed

Latest == INSTANCE GenerationController

(* A listener that a begin() aborts calls neither begin() nor dispose().     *)
Calm == MaxBegins \in Nat \ {0} /\ ~BeginDuringBegin /\ ~DisposeDuringBegin

(* Everything that is owned, is owned for the current request.               *)
OneOwner ==
    /\ controller = current
    /\ registration = current
    /\ timer \in {Latest!None, current}

(* The scheduler holds its timer and the parent its listener, and more only  *)
(* of what a failed clean-up has left.                                       *)
Held ==
    /\ Latest!Some(timer) \subseteq timers
    /\ timers \subseteq Latest!Some(timer) \cup uncancelled
    /\ Latest!Some(registration) \subseteq listeners
    /\ listeners \subseteq Latest!Some(registration) \cup unremoved

(* At most one begin() is interrupted.  Its request is not installed yet, the *)
(* previous one is gone, and nobody has disposed the controller meanwhile.   *)
BeginsAt(i) == stack[i].op = "begin"
Beginning ==
    /\ \A i, j \in DOMAIN stack : BeginsAt(i) /\ BeginsAt(j) => i = j
    /\ \A i \in DOMAIN stack :
         BeginsAt(i) => /\ stack[i].req \in Latest!Request /\ status[stack[i].req] = "beginning"
                        /\ current = Latest!None /\ ~disposed

(* The current request is live; if its parent has aborted, the dispatch that *)
(* will invalidate it is under way.                                          *)
CurrentIsLive ==
    current # Latest!None =>
        /\ status[current] = "returned" /\ current \notin aborted \cup completed
        /\ ~disposed
        /\ parentAborted => Latest!Within("dispatch")

(* Only requests whose begin() has ended are aborted or completed.           *)
OverIsOver == \A r \in aborted \cup completed : status[r] \in {"returned", "refused"}

(* A returned request that is not current was completed or aborted.          *)
Answered ==
    \A r \in Latest!Request :
        status[r] = "returned" => r = current \/ r \in completed \/ r \in aborted

Owned == OneOwner /\ Held /\ CurrentIsLive /\ OverIsOver /\ Answered

GenInv == Latest!TypeOK /\ Beginning /\ Owned

(* The stack of operations without its innermost, and with a further one.    *)
LEMMA Popped ==
    ASSUME stack \in Seq(Latest!Frame), ~Latest!Idle, Latest!Pop
    PROVE  /\ Len(stack) \in Nat \ {0} /\ DOMAIN stack = 1 .. Len(stack)
           /\ stack' \in Seq(Latest!Frame) /\ DOMAIN stack' = 1 .. Len(stack) - 1
           /\ \A i \in DOMAIN stack' : i \in DOMAIN stack /\ stack'[i] = stack[i]
           /\ Latest!Top \in Latest!Frame
BY SubSeqProperties DEF Latest!Pop, Latest!Idle, Latest!Top

LEMMA Pushed ==
    ASSUME stack \in Seq(Latest!Frame), NEW f \in Latest!Frame,
           stack' = Append(stack, f)
    PROVE  /\ Len(stack) \in Nat /\ DOMAIN stack = 1 .. Len(stack)
           /\ stack' \in Seq(Latest!Frame) /\ DOMAIN stack' = 1 .. Len(stack) + 1
           /\ \A i \in DOMAIN stack : stack'[i] = stack[i]
           /\ stack'[Len(stack) + 1] = f
BY AppendProperties

(* What is known while the innermost operation is a begin().                 *)
LEMMA BeginFrame ==
    ASSUME Latest!TypeOK, Beginning, ~Latest!Idle, Latest!Top.op = "begin"
    PROVE  /\ Len(stack) \in DOMAIN stack
           /\ Latest!Top = stack[Len(stack)]
           /\ Latest!Top \in Latest!Frame
           /\ Latest!Top.req \in Latest!Request /\ status[Latest!Top.req] = "beginning"
           /\ current = Latest!None /\ ~disposed
BY DEF Latest!TypeOK, Beginning, BeginsAt, Latest!Idle, Latest!Top

(* A step that begins nothing keeps the interrupted begin() as it is, and so *)
(* does the end of an operation.                                             *)
LEMMA BeginningKept ==
    ASSUME Latest!TypeOK, Beginning, UNCHANGED status,
           current' \in {Latest!None, current},
           UNCHANGED disposed \/ ~Latest!Within("begin"),
           UNCHANGED stack \/ \E f \in Latest!Frame : f.op # "begin" /\ stack' = Append(stack, f)
    PROVE  /\ Beginning'
           /\ stack' \in Seq(Latest!Frame)
           /\ (Latest!Within("dispatch") => Latest!Within("dispatch")')
<1>1. CASE UNCHANGED stack
  BY <1>1 DEF Latest!TypeOK, Beginning, BeginsAt, Latest!Within
<1>2. ASSUME NEW f \in Latest!Frame, f.op # "begin", stack' = Append(stack, f)
      PROVE  /\ Beginning'
             /\ stack' \in Seq(Latest!Frame)
             /\ (Latest!Within("dispatch") => Latest!Within("dispatch")')
  <2>1. /\ Len(stack) \in Nat /\ DOMAIN stack = 1 .. Len(stack)
        /\ stack' \in Seq(Latest!Frame) /\ DOMAIN stack' = 1 .. Len(stack) + 1
        /\ \A i \in DOMAIN stack : stack'[i] = stack[i]
        /\ stack'[Len(stack) + 1] = f
    BY <1>2, Pushed DEF Latest!TypeOK
  <2>2. ASSUME NEW i \in DOMAIN stack', BeginsAt(i)'
        PROVE  i \in DOMAIN stack /\ BeginsAt(i)
    <3>1. i # Len(stack) + 1
      BY <1>2, <2>1, <2>2 DEF BeginsAt
    <3>2. i \in DOMAIN stack
      BY <2>1, <3>1
    <3> QED BY <2>1, <2>2, <3>2 DEF BeginsAt
  <2>3. Beginning'
    BY <2>1, <2>2 DEF Beginning, BeginsAt, Latest!Within
  <2> QED BY <2>1, <2>3 DEF Latest!Within
<1> QED BY <1>1, <1>2

LEMMA BeginningPopped ==
    ASSUME Latest!TypeOK, Beginning, ~Latest!Idle, Latest!Pop, UNCHANGED disposed,
           Latest!Top.op = "begin" \/ UNCHANGED <<status, current>>,
           \A r \in Latest!Request \ {Latest!Top.req} : status'[r] = status[r]
    PROVE  Beginning' /\ stack' \in Seq(Latest!Frame)
<1>1. /\ Len(stack) \in Nat \ {0} /\ DOMAIN stack = 1 .. Len(stack)
      /\ stack' \in Seq(Latest!Frame) /\ DOMAIN stack' = 1 .. Len(stack) - 1
      /\ \A i \in DOMAIN stack' : i \in DOMAIN stack /\ stack'[i] = stack[i]
  BY Popped DEF Latest!TypeOK
<1>2. CASE Latest!Top.op = "begin"
  <2>1. \A i \in DOMAIN stack' : ~BeginsAt(i)'
    BY <1>1, <1>2 DEF Beginning, BeginsAt, Latest!Top
  <2> QED BY <1>1, <2>1 DEF Beginning, BeginsAt
<1>3. CASE UNCHANGED <<status, current>>
  BY <1>1, <1>3 DEF Beginning, BeginsAt
<1> QED BY <1>2, <1>3

(* A step that leaves nothing owned and aborts or completes the request that *)
(* was current keeps the rest of the invariant.                              *)
LEMMA Released ==
    ASSUME Latest!TypeOK, OneOwner, CurrentIsLive, OverIsOver, Answered,
           current' = Latest!None, controller' = Latest!None, timer' = Latest!None,
           registration' = Latest!None, UNCHANGED status,
           \/ aborted' = aborted \cup Latest!Some(controller) /\ UNCHANGED completed
           \/ UNCHANGED aborted /\ completed' = completed \cup Latest!Some(controller)
    PROVE  OneOwner' /\ CurrentIsLive' /\ OverIsOver' /\ Answered'
BY DEF Latest!TypeOK, OneOwner, CurrentIsLive, OverIsOver, Answered, Latest!Some

(* Cleaning up leaves no timer and no listener but those it was told to keep. *)
LEMMA CleanedUp ==
    ASSUME Latest!TypeOK, Held, NEW l \in Latest!Request \cup {Latest!None},
           registration \in {Latest!None, l}, NEW cleanup, NEW fired, NEW delivered,
           Latest!CleanUp(l, cleanup, fired, delivered)
    PROVE  /\ timers' \subseteq uncancelled' /\ listeners' \subseteq unremoved'
           /\ UNION {timers', uncancelled'} \subseteq Latest!Request
           /\ UNION {listeners', unremoved'} \subseteq Latest!Request
BY DEF Held, Latest!TypeOK, Latest!CleanUp, Latest!Some

(* releaseCurrent() leaves nothing owned.                                    *)
LEMMA ReleaseOwner ==
    ASSUME Latest!TypeOK, Held, NEW abort \in BOOLEAN, NEW cleanup, NEW fired, NEW delivered,
           Latest!ReleaseCurrent(abort, cleanup, fired, delivered)
    PROVE  /\ current' = Latest!None
           /\ controller' = Latest!None
           /\ timer' = Latest!None
           /\ registration' = Latest!None
           /\ aborted' = IF abort THEN aborted \cup Latest!Some(controller) ELSE aborted
           /\ UNION {timers', listeners', uncancelled', unremoved', aborted'} \subseteq Latest!Request
           /\ Held'
<1>1. /\ timers' \subseteq uncancelled' /\ listeners' \subseteq unremoved'
      /\ UNION {timers', uncancelled'} \subseteq Latest!Request
      /\ UNION {listeners', unremoved'} \subseteq Latest!Request
  BY CleanedUp DEF Latest!ReleaseCurrent, Latest!TypeOK
<1>2. /\ current' = Latest!None /\ controller' = Latest!None /\ timer' = Latest!None
      /\ registration' = Latest!None
      /\ aborted' = IF abort THEN aborted \cup Latest!Some(controller) ELSE aborted
  BY DEF Latest!ReleaseCurrent
<1>3. aborted' \subseteq Latest!Request
  BY <1>2 DEF Latest!TypeOK, Latest!Some
<1>4. Held'
  BY <1>1, <1>2 DEF Held, Latest!Some
<1> QED BY <1>1, <1>2, <1>3, <1>4

(* A release that runs listeners stays on the stack, without being a begin(). *)
LEMMA Interrupted ==
    ASSUME Latest!InterruptedRelease, stack \in Seq(Latest!Frame)
    PROVE  /\ UNCHANGED stack \/ \E f \in Latest!Frame : f.op # "begin" /\ stack' = Append(stack, f)
           /\ stack' \in Seq(Latest!Frame)
<1> DEFINE f == [op |-> "release", req |-> Latest!None, timeout |-> "none",
                 window |-> TRUE, throws |-> FALSE]
<1>1. f \in Latest!Frame /\ f.op # "begin"
  BY DEF Latest!Frame, Latest!Timeout
<1>2. stack' = IF Latest!AbortRunsListeners THEN Append(stack, f) ELSE stack
  BY DEF Latest!InterruptedRelease
<1> HIDE DEF f
<1> QED BY <1>1, <1>2, AppendProperties

(* The variables keep their types.                                           *)
LEMMA LatestTypeStep ==
    ASSUME Calm, Latest!TypeOK, Beginning, OneOwner, Held, [Latest!Next]_(Latest!vars)
    PROVE  Latest!TypeOK'
<1>0. /\ MaxBegins \in Nat
      /\ Latest!Request \subseteq Nat \ {0}
      /\ Latest!None \notin Latest!Request
  BY DEF Calm, Latest!Request, Latest!None
<1>1. CASE Latest!BeginThrows
  <2>1. stack' \in Seq(Latest!Frame) /\ Latest!Top.req \in Latest!Request
    BY <1>1, Popped, BeginFrame DEF Latest!BeginThrows, Latest!TypeOK
  <2> QED BY <1>1, <2>1 DEF Latest!BeginThrows, Latest!TypeOK, Latest!ownership
<1>2. ASSUME NEW cleanup, Latest!BeginInvalidated(cleanup) PROVE Latest!TypeOK'
  <2>1. stack' \in Seq(Latest!Frame) /\ Latest!Top.req \in Latest!Request /\ current = Latest!None
    BY <1>2, Popped, BeginFrame DEF Latest!BeginInvalidated, Latest!TypeOK
  <2>2. number' \in [Latest!Request -> 0 .. generation']
    BY <1>2, <2>1 DEF Latest!BeginInvalidated, Latest!TypeOK
  <2>3. status' \in [Latest!Request -> {"new", "beginning", "returned", "refused"}]
    BY <1>2, <2>1 DEF Latest!BeginInvalidated, Latest!TypeOK
  <2>4. \E l \in Latest!Request \cup {Latest!None} :
           Latest!CleanUp(l, cleanup, Latest!None, Latest!None)
    BY <1>2, <2>1 DEF Latest!BeginInvalidated, Latest!TypeOK
  <2>5. UNION {timers', listeners', uncancelled', unremoved'} \subseteq Latest!Request
    BY <2>1, <2>4, CleanedUp DEF OneOwner
  <2> QED BY <1>2, <2>1, <2>2, <2>3, <2>5 DEF Latest!BeginInvalidated, Latest!TypeOK
<1>3. CASE Latest!BeginInstalls
  <2>1. stack' \in Seq(Latest!Frame) /\ Latest!Top.req \in Latest!Request
    BY <1>3, Popped, BeginFrame DEF Latest!BeginInstalls, Latest!TypeOK
  <2>2. number' \in [Latest!Request -> 0 .. generation']
    BY <1>3, <2>1 DEF Latest!BeginInstalls, Latest!TypeOK
  <2> QED BY <1>3, <2>1, <2>2 DEF Latest!BeginInstalls, Latest!TypeOK
<1>4. CASE Latest!Return
  BY <1>4, Popped DEF Latest!Return, Latest!TypeOK, Latest!ownership
<1>5. CASE Latest!ParentAborts
  <2> DEFINE f == [op |-> "dispatch", req |-> Latest!None, timeout |-> "none",
                   window |-> FALSE, throws |-> FALSE]
  <2>1. f \in Latest!Frame
    BY DEF Latest!Frame, Latest!Timeout
  <2>2. stack' = Append(stack, f)
    BY <1>5 DEF Latest!ParentAborts
  <2> QED BY <1>5, <2>1, <2>2, AppendProperties
             DEF Latest!ParentAborts, Latest!TypeOK, Latest!ownership
<1>6. ASSUME NEW r \in Latest!Request, Latest!ReadSignal(r) PROVE Latest!TypeOK'
  BY <1>6 DEF Latest!ReadSignal, Latest!TypeOK, Latest!ownership
<1>7. ASSUME NEW cleanup, Latest!Supersede(cleanup) \/ Latest!Dispose(cleanup)
      PROVE  Latest!TypeOK'
  <2>1. stack' \in Seq(Latest!Frame)
    BY <1>7, Interrupted DEF Latest!Supersede, Latest!Dispose, Latest!TypeOK
  <2>2. /\ generation \in Nat /\ generation' = generation + 1 /\ number' = number
        /\ number \in [Latest!Request -> 0 .. generation]
    BY <1>7 DEF Latest!Supersede, Latest!Dispose, Latest!TypeOK
  <2>3. generation' \in Nat /\ number' \in [Latest!Request -> 0 .. generation']
    BY <2>2
  <2>4. Latest!ReleaseCurrent(TRUE, cleanup, Latest!None, Latest!None)
    BY <1>7 DEF Latest!Supersede, Latest!Dispose
  <2>5. /\ {current', controller', timer', registration'} \subseteq Latest!Request \cup {Latest!None}
        /\ UNION {timers', listeners', uncancelled', unremoved', aborted'} \subseteq Latest!Request
    BY <2>4, ReleaseOwner
  <2>6. /\ {disposed', parentAborted'} \subseteq BOOLEAN
        /\ UNCHANGED <<observed, completed, status>>
    BY <1>7 DEF Latest!Supersede, Latest!Dispose, Latest!TypeOK
  <2> QED BY <2>1, <2>3, <2>5, <2>6 DEF Latest!TypeOK
<1>8. ASSUME NEW cleanup, NEW r \in Latest!Request, Latest!Complete(r, cleanup)
      PROVE  Latest!TypeOK'
  <2>1. Latest!ReleaseCurrent(FALSE, cleanup, Latest!None, Latest!None)
    BY <1>8 DEF Latest!Complete
  <2>2. /\ {current', controller', timer', registration'} \subseteq Latest!Request \cup {Latest!None}
        /\ UNION {timers', listeners', uncancelled', unremoved', aborted'} \subseteq Latest!Request
    BY <2>1, ReleaseOwner
  <2> QED BY <1>8, <2>2 DEF Latest!Complete, Latest!TypeOK
<1>9. ASSUME NEW cleanup, NEW r \in Latest!Request,
             Latest!TimeoutFires(r, cleanup) \/ Latest!ParentDelivers(r, cleanup)
      PROVE  Latest!TypeOK'
  <2>1. stack' \in Seq(Latest!Frame)
    BY <1>9, Interrupted DEF Latest!TimeoutFires, Latest!ParentDelivers, Latest!TypeOK
  <2>2. \E fired, delivered : Latest!ReleaseCurrent(TRUE, cleanup, fired, delivered)
    BY <1>9 DEF Latest!TimeoutFires, Latest!ParentDelivers
  <2>3. /\ {current', controller', timer', registration'} \subseteq Latest!Request \cup {Latest!None}
        /\ UNION {timers', listeners', uncancelled', unremoved', aborted'} \subseteq Latest!Request
    BY <2>2, ReleaseOwner
  <2> QED BY <1>9, <2>1, <2>3 DEF Latest!TimeoutFires, Latest!ParentDelivers, Latest!TypeOK
<1>10. ASSUME NEW cleanup, NEW r \in Latest!Request, NEW timeout \in Latest!Timeout,
              Latest!BeginCall(r, timeout, cleanup)
       PROVE  Latest!TypeOK'
  <2> DEFINE f == [op |-> "begin", req |-> r, timeout |-> timeout,
                   window |-> Latest!AbortRunsListeners, throws |-> Latest!Told(cleanup)]
  <2>1. f \in Latest!Frame
    BY DEF Latest!Frame, Latest!AbortRunsListeners, Latest!Told
  <2>2. stack' = Append(stack, f)
    BY <1>10 DEF Latest!BeginCall
  <2>3. stack' \in Seq(Latest!Frame)
    BY <2>1, <2>2, AppendProperties DEF Latest!TypeOK
  <2>4. Latest!ReleaseCurrent(TRUE, cleanup, Latest!None, Latest!None)
    BY <1>10 DEF Latest!BeginCall
  <2>5. /\ {current', controller', timer', registration'} \subseteq Latest!Request \cup {Latest!None}
        /\ UNION {timers', listeners', uncancelled', unremoved', aborted'} \subseteq Latest!Request
    BY <2>4, ReleaseOwner
  <2> HIDE DEF f
  <2> QED BY <1>10, <2>3, <2>5 DEF Latest!BeginCall, Latest!TypeOK
<1>11. CASE UNCHANGED Latest!vars
  BY <1>11 DEF Latest!vars, Latest!TypeOK
<1> QED BY <1>1, <1>2, <1>3, <1>4, <1>5, <1>6, <1>7, <1>8, <1>9, <1>10, <1>11
           DEF Latest!Next

(* Every step keeps the invariant.                                           *)
LEMMA GenStep ==
    ASSUME Calm, GenInv, [Latest!Next]_(Latest!vars)
    PROVE  GenInv'
<1>a. stack \in Seq(Latest!Frame)
  BY DEF GenInv, Latest!TypeOK
<1>0. /\ Latest!TypeOK /\ Beginning /\ Owned /\ Latest!TypeOK'
      /\ MaxBegins \in Nat
      /\ Latest!Request \subseteq Nat \ {0}
      /\ Latest!None \notin Latest!Request
  BY LatestTypeStep DEF Calm, Latest!Request, Latest!None, GenInv, Owned
<1> SUFFICES Beginning' /\ Owned'
  BY <1>0 DEF GenInv, Owned
<1> USE DEF Owned
<1>1. CASE Latest!BeginThrows
  <2>1. /\ Latest!Top.req \in Latest!Request
        /\ status[Latest!Top.req] = "beginning"
        /\ current = Latest!None
        /\ Latest!Pop
    BY <1>0, <1>1, BeginFrame DEF Latest!BeginThrows
  <2>2. Beginning'
    BY <1>0, <1>1, <2>1, BeginningPopped DEF Latest!BeginThrows, Latest!TypeOK
  <2>3. Owned'
    BY <1>0, <1>1, <2>1
       DEF Latest!BeginThrows, Latest!ownership, OneOwner, Held, Latest!Some,
           CurrentIsLive, OverIsOver, Answered, Latest!TypeOK
  <2> QED BY <2>2, <2>3
<1>2. ASSUME NEW cleanup, Latest!BeginInvalidated(cleanup) PROVE Beginning' /\ Owned'
  <2>1. /\ Latest!Top.req \in Latest!Request
        /\ status[Latest!Top.req] = "beginning"
        /\ current = Latest!None
        /\ ~disposed
        /\ Latest!Pop
    BY <1>0, <1>2, BeginFrame DEF Latest!BeginInvalidated
  <2>2. Beginning'
    BY <1>0, <1>2, <2>1, BeginningPopped DEF Latest!BeginInvalidated, Latest!TypeOK
  <2>3. OneOwner' /\ CurrentIsLive'
    BY <1>0, <1>2, <2>1
       DEF Latest!BeginInvalidated, OneOwner, CurrentIsLive, Latest!Some
  <2>4. OverIsOver' /\ Answered'
    BY <1>0, <1>2, <2>1 DEF Latest!BeginInvalidated, OverIsOver, Answered, Latest!TypeOK
  <2>5. \E l \in Latest!Request \cup {Latest!None} :
           Latest!CleanUp(l, cleanup, Latest!None, Latest!None)
    BY <1>0, <1>2, <2>1 DEF Latest!BeginInvalidated, Latest!TypeOK
  <2>6. timers' \subseteq uncancelled' /\ listeners' \subseteq unremoved'
    BY <1>0, <2>1, <2>5, CleanedUp DEF OneOwner
  <2>7. Held'
    BY <1>2, <2>6 DEF Latest!BeginInvalidated, Held, Latest!Some
  <2> QED BY <2>2, <2>3, <2>4, <2>7
<1>3. CASE Latest!BeginInstalls
  <2>1. /\ Latest!Top.req \in Latest!Request
        /\ status[Latest!Top.req] = "beginning"
        /\ current = Latest!None
        /\ ~disposed
        /\ Latest!Pop
        /\ Latest!Top.req \notin aborted \cup completed
    BY <1>0, <1>3, BeginFrame DEF Latest!BeginInstalls, OverIsOver
  <2>2. Beginning'
    BY <1>0, <1>3, <2>1, BeginningPopped DEF Latest!BeginInstalls, Latest!TypeOK
  <2>3. OneOwner' /\ CurrentIsLive'
    BY <1>0, <1>3, <2>1
       DEF Latest!BeginInstalls, OneOwner, CurrentIsLive, Latest!Some, Latest!TypeOK
  <2>4. OverIsOver' /\ Answered'
    BY <1>0, <1>3, <2>1 DEF Latest!BeginInstalls, OverIsOver, Answered, Latest!TypeOK
  <2>5. Held'
    BY <1>0, <1>3, <2>1
       DEF Latest!BeginInstalls, OneOwner, Held, Latest!Some, Latest!TypeOK
  <2> QED BY <2>2, <2>3, <2>4, <2>5
<1>4. CASE Latest!Return
  <2>1. Beginning'
    BY <1>0, <1>4, BeginningPopped DEF Latest!Return, Latest!ownership
  <2>2. OneOwner' /\ Held' /\ OverIsOver' /\ Answered'
    BY <1>0, <1>4 DEF Latest!Return, Latest!ownership, OneOwner, Held, OverIsOver, Answered,
           Latest!Some
  <2>3. CASE Latest!Top.op = "dispatch"
    BY <1>0, <1>4, <2>1, <2>2, <2>3
       DEF Latest!Return, Latest!ownership, OneOwner, Held, Latest!Some, CurrentIsLive,
           Latest!TypeOK
  <2>4. CASE Latest!Top.op # "dispatch"
    <3>1. Latest!Within("dispatch") => Latest!Within("dispatch")'
      <4>1. /\ Len(stack) \in Nat \ {0} /\ DOMAIN stack = 1 .. Len(stack)
            /\ DOMAIN stack' = 1 .. Len(stack) - 1
            /\ \A i \in DOMAIN stack' : i \in DOMAIN stack /\ stack'[i] = stack[i]
        BY <1>0, <1>4, Popped DEF Latest!Return, Latest!TypeOK
      <4> QED BY <2>4, <4>1 DEF Latest!Within, Latest!Top
    <3> QED BY <1>0, <1>4, <2>1, <2>2, <3>1
               DEF Latest!Return, Latest!ownership, CurrentIsLive
  <2> QED BY <2>3, <2>4
<1>5. CASE Latest!ParentAborts
  <2> DEFINE f == [op |-> "dispatch", req |-> Latest!None, timeout |-> "none",
                   window |-> FALSE, throws |-> FALSE]
  <2>1. f \in Latest!Frame /\ f.op = "dispatch" /\ stack' = Append(stack, f)
    BY <1>5 DEF Latest!Frame, Latest!Timeout, Latest!ParentAborts
  <2> HIDE DEF f
  <2>2. Beginning'
    BY <1>0, <1>5, <2>1, BeginningKept DEF Latest!ParentAborts, Latest!ownership
  <2>3. Latest!Within("dispatch")'
    BY <1>0, <2>1, Pushed DEF Latest!TypeOK, Latest!Within
  <2> QED BY <1>0, <1>5, <2>2, <2>3
          DEF Latest!ParentAborts, Latest!ownership, OneOwner, Held, Latest!Some, CurrentIsLive, OverIsOver, Answered
<1>6. ASSUME NEW r \in Latest!Request, Latest!ReadSignal(r) PROVE Beginning' /\ Owned'
  BY <1>0, <1>6
     DEF Latest!ReadSignal, Latest!ownership, Beginning, BeginsAt, Latest!Within,
         OneOwner, Held, Latest!Some, CurrentIsLive, OverIsOver, Answered
<1>7. ASSUME NEW cleanup, Latest!Supersede(cleanup) \/ Latest!Dispose(cleanup)
      PROVE  Beginning' /\ Owned'
  <2>1. Owned' /\ current' = Latest!None
    BY <1>0, <1>7, Released, ReleaseOwner DEF Latest!Supersede, Latest!Dispose
  <2>2. UNCHANGED disposed \/ ~Latest!Within("begin")
    BY <1>7 DEF Latest!Supersede, Latest!Dispose, Calm
  <2> QED BY <1>0, <1>a, <1>7, <2>1, <2>2, BeginningKept, Interrupted
             DEF Latest!Supersede, Latest!Dispose
<1>8. ASSUME NEW cleanup, NEW r \in Latest!Request, Latest!Complete(r, cleanup)
      PROVE  Beginning' /\ Owned'
  <2>1. completed' = completed \cup Latest!Some(controller)
    BY <1>0, <1>8 DEF Latest!Complete, OneOwner, Latest!Some
  <2>2. Owned' /\ current' = Latest!None
    BY <1>0, <1>8, <2>1, Released, ReleaseOwner DEF Latest!Complete
  <2> QED BY <1>0, <1>8, <2>2, BeginningKept DEF Latest!Complete
<1>9. ASSUME NEW cleanup, NEW r \in Latest!Request,
             Latest!TimeoutFires(r, cleanup) \/ Latest!ParentDelivers(r, cleanup)
      PROVE  Beginning' /\ Owned'
  <2>1. CASE Latest!TimeoutFires(r, cleanup)
    <3>1. Owned' /\ current' = Latest!None
      BY <1>0, <2>1, Released, ReleaseOwner DEF Latest!TimeoutFires
    <3> QED BY <1>0, <1>a, <2>1, <3>1, BeginningKept, Interrupted
               DEF Latest!TimeoutFires
  <2>2. CASE Latest!ParentDelivers(r, cleanup)
    <3>1. Owned' /\ current' = Latest!None
      BY <1>0, <2>2, Released, ReleaseOwner DEF Latest!ParentDelivers
    <3> QED BY <1>0, <1>a, <2>2, <3>1, BeginningKept, Interrupted
               DEF Latest!ParentDelivers
  <2> QED BY <1>9, <2>1, <2>2
<1>10. ASSUME NEW cleanup, NEW r \in Latest!Request, NEW timeout \in Latest!Timeout,
              Latest!BeginCall(r, timeout, cleanup)
       PROVE  Beginning' /\ Owned'
  <2> DEFINE f == [op |-> "begin", req |-> r, timeout |-> timeout,
                   window |-> Latest!AbortRunsListeners, throws |-> Latest!Told(cleanup)]
  <2>1. f \in Latest!Frame /\ f.op = "begin" /\ f.req = r /\ stack' = Append(stack, f)
    BY <1>10 DEF Latest!Frame, Latest!AbortRunsListeners, Latest!BeginCall, Latest!Told
  <2>2. /\ current' = Latest!None
        /\ controller' = Latest!None
        /\ timer' = Latest!None
        /\ registration' = Latest!None
        /\ Held' /\ aborted' = aborted \cup Latest!Some(controller)
    BY <1>0, <1>10, ReleaseOwner DEF Latest!BeginCall
  <2>3. /\ status[r] = "new" /\ status' = [status EXCEPT ![r] = "beginning"]
        /\ ~disposed /\ ~disposed' /\ UNCHANGED completed /\ ~Latest!Within("begin")
    BY <1>10 DEF Latest!BeginCall, Calm
  <2> HIDE DEF f
  <2>4. Owned'
    BY <1>0, <2>2, <2>3
       DEF OneOwner, CurrentIsLive, OverIsOver, Answered, Latest!Some, Latest!TypeOK
  <2>5. /\ Len(stack) \in Nat /\ DOMAIN stack = 1 .. Len(stack)
        /\ DOMAIN stack' = 1 .. Len(stack) + 1
        /\ \A i \in DOMAIN stack : stack'[i] = stack[i]
        /\ stack'[Len(stack) + 1] = f
    BY <1>0, <2>1, Pushed DEF Latest!TypeOK
  <2>6. \A i \in DOMAIN stack' : BeginsAt(i)' => i = Len(stack) + 1
    BY <2>3, <2>5 DEF BeginsAt, Latest!Within
  <2>7. Beginning'
    BY <1>0, <2>1, <2>2, <2>3, <2>5, <2>6 DEF Beginning, BeginsAt, Latest!TypeOK
  <2> QED BY <2>4, <2>7
<1>11. CASE UNCHANGED Latest!vars
  BY <1>0, <1>11
     DEF Latest!vars, Beginning, BeginsAt, Latest!Within, OneOwner, Held, Latest!Some,
         CurrentIsLive, OverIsOver, Answered
<1> QED BY <1>1, <1>2, <1>3, <1>4, <1>5, <1>6, <1>7, <1>8, <1>9, <1>10, <1>11
           DEF Latest!Next

(* The invariant holds initially, and says that the latest request is live.  *)
LEMMA GenInit ==
    ASSUME Calm, Latest!Init
    PROVE  GenInv
<1>1. stack \in Seq(Latest!Frame) /\ DOMAIN stack = {}
  BY DEF Latest!Init
<1>2. Latest!TypeOK
  <2>1. number \in [Latest!Request -> 0 .. generation] /\ generation \in Nat
    BY DEF Latest!Init
  <2>2. {current, controller, timer, registration} \subseteq Latest!Request \cup {Latest!None}
    BY DEF Latest!Init
  <2> QED BY <1>1, <2>1, <2>2 DEF Latest!Init, Latest!TypeOK
<1>3. Beginning
  BY <1>1 DEF Beginning
<1> QED BY <1>2, <1>3
           DEF Latest!Init, GenInv, Owned, OneOwner, Held, CurrentIsLive, OverIsOver,
               Answered, Latest!Some

LEMMA GenShows == GenInv => LatestOnly
BY DEF GenInv, Owned, Latest!TypeOK, OneOwner, CurrentIsLive, Answered,
       LatestOnly, Latest!Within, Idle, Request, None,
       Latest!Request, Latest!None

(* Whatever listeners, deadlines and the parent do between them, every request *)
(* a begin() has returned is the current one, completed or aborted, and the  *)
(* current one is live -- unless a listener that a begin() aborts calls begin() *)
(* or dispose() itself.                                                      *)
THEOREM LatestOnlyHolds == ASSUME Calm PROVE Latest!Spec => []LatestOnly
BY GenInit, GenStep, GenShows, PTL DEF Latest!Spec

(* Between operations the scheduler holds the current request's timer and the *)
(* parent signal its listener, and nothing else but what a cancel() or a     *)
(* removal that threw has left with them -- unless a listener that a begin() *)
(* aborts calls begin() or dispose() itself.                                 *)
THEOREM NothingLeaksHolds == ASSUME Calm PROVE Latest!Spec => []NothingLeaks
<1>1. GenInv => NothingLeaks
  BY DEF GenInv, Owned, OneOwner, Held, NothingLeaks, Some, None, Latest!Some, Latest!None
<1> QED BY <1>1, GenInit, GenStep, PTL DEF Latest!Spec
=============================================================================
