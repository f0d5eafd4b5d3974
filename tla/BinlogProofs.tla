---------------------------- MODULE BinlogProofs ----------------------------
(***************************************************************************)
(* Proofs about Binlog for any number of cursors, records and truncations: *)
(* a listener gets consecutive records, once each and one at a time.       *)
(*                                                                         *)
(* Whatever the two FIFOs answer, order rests on two facts about a cursor: *)
(* its running mark is set exactly while one activation of pump() is in    *)
(* progress, and its position is one behind what was delivered exactly     *)
(* while the listener runs.  They are stated for a cursor object c, its    *)
(* activations p and its deliveries d, and proved for each way a step may  *)
(* change one cursor; the steps of the specification then cite those ways. *)
(***************************************************************************)
EXTENDS Binlog, SequenceTheorems, TLAPS

Places == {"off", "read", "last", "listener"}

CursorType ==
  [from : Nat, nextSeq : Nat, active : BOOLEAN, running : BOOLEAN, wake : BOOLEAN]

Listening(p) == \E i \in Slots : p[i] = "listener"

Typed(c, p, d) == c \in CursorType /\ p \in [Slots -> Places] /\ d \in Seq(Nat)

(* One activation at a time, and running says whether there is one.        *)
Alone(c, p) ==
  /\ c.running <=> \E i \in Slots : p[i] # "off"
  /\ \A i, j \in Slots : p[i] # "off" /\ p[j] # "off" => i = j

(* The position and the deliveries.  A cursor whose listener threw is at   *)
(* the record it threw at, and is neither active nor running.              *)
Positioned(c, p, d) ==
  /\ \A j \in 1..Len(d) : d[j] = c.from + j - 1
  /\ Listening(p) => c.nextSeq = c.from + Len(d) - 1 /\ Len(d) > 0
  /\ ~Listening(p) /\ (c.active \/ c.running) => c.nextSeq = c.from + Len(d)
  /\ c.from = 0 => d = <<>> /\ ~c.active /\ ~c.running

Ordered(c, p, d) == Typed(c, p, d) /\ Alone(c, p) /\ Positioned(c, p, d)

IInv ==
  /\ last \in Nat
  /\ cur \in [Cursors -> CursorType]
  /\ pump \in [Cursors -> [Slots -> Places]]
  /\ delivered \in [Cursors -> Seq(Nat)]
  /\ \A k \in Cursors : Ordered(cur[k], pump[k], delivered[k])

USE DEF CursorType, Places

-----------------------------------------------------------------------------
(* The ways a step changes one cursor.                                     *)

(* Marks that order does not rest on.                                      *)
LEMMA MarksKeep ==
    ASSUME NEW c, NEW p, NEW d, Ordered(c, p, d),
           NEW active \in BOOLEAN, NEW wake \in BOOLEAN, active => c.active
    PROVE  Ordered([c EXCEPT !.active = active, !.wake = wake], p, d)
BY DEF Ordered, Typed, Alone, Positioned

(* pump() is called on a live cursor with no activation in progress.       *)
LEMMA StartKeeps ==
    ASSUME NEW c, NEW p, NEW d, Ordered(c, p, d), ~c.running, c.active,
           NEW i \in Slots
    PROVE  Ordered([c EXCEPT !.running = TRUE, !.wake = FALSE], [p EXCEPT ![i] = "read"], d)
<1> DEFINE q == [p EXCEPT ![i] = "read"]
<1>1. p \in [Slots -> Places] /\ \A j \in Slots : p[j] = "off"
  BY DEF Ordered, Typed, Alone
<1>2. q \in [Slots -> Places] /\ q[i] = "read" /\ \A j \in Slots : j # i => q[j] = "off"
  BY <1>1
<1>3. ~Listening(p) /\ ~Listening(q)
  BY <1>1, <1>2 DEF Listening
<1> HIDE DEF q
<1>4. Ordered([c EXCEPT !.running = TRUE, !.wake = FALSE], q, d)
  BY <1>2, <1>3 DEF Ordered, Typed, Alone, Positioned
<1> QED BY <1>4 DEF q

(* An activation goes on to another await, the listener not involved.      *)
LEMMA GoOnKeeps ==
    ASSUME NEW c, NEW p, NEW d, Ordered(c, p, d), NEW wake \in BOOLEAN,
           NEW i \in Slots, p[i] \in {"read", "last"}, NEW place \in {"read", "last"}
    PROVE  Ordered([c EXCEPT !.wake = wake], [p EXCEPT ![i] = place], d)
<1> DEFINE q == [p EXCEPT ![i] = place]
<1>1. p \in [Slots -> Places] /\ \A j \in Slots : j # i => p[j] = "off"
  BY DEF Ordered, Typed, Alone
<1>2. q \in [Slots -> Places] /\ q[i] = place /\ \A j \in Slots : j # i => q[j] = "off"
  BY <1>1
<1>3. ~Listening(p) /\ ~Listening(q) /\ c.running
  BY <1>1, <1>2 DEF Listening, Ordered, Alone
<1> HIDE DEF q
<1>4. Ordered([c EXCEPT !.wake = wake], q, d)
  BY <1>2, <1>3 DEF Ordered, Typed, Alone, Positioned
<1> QED BY <1>4 DEF q

(* An activation that is not in the listener ends.                         *)
LEMMA LeaveKeeps ==
    ASSUME NEW c, NEW p, NEW d, Ordered(c, p, d), NEW active \in BOOLEAN, active => c.active,
           NEW i \in Slots, p[i] \in {"read", "last"}
    PROVE  Ordered([c EXCEPT !.running = FALSE, !.active = active], [p EXCEPT ![i] = "off"], d)
<1> DEFINE q == [p EXCEPT ![i] = "off"]
<1>1. p \in [Slots -> Places] /\ \A j \in Slots : j # i => p[j] = "off"
  BY DEF Ordered, Typed, Alone
<1>2. q \in [Slots -> Places] /\ \A j \in Slots : q[j] = "off"
  BY <1>1
<1>3. ~Listening(p) /\ ~Listening(q)
  BY <1>1, <1>2 DEF Listening
<1> HIDE DEF q
<1>4. Ordered([c EXCEPT !.running = FALSE, !.active = active], q, d)
  BY <1>2, <1>3 DEF Ordered, Typed, Alone, Positioned
<1> QED BY <1>4 DEF q

(* The listener is called with the record at the position.                 *)
LEMMA DeliverKeeps ==
    ASSUME NEW c, NEW p, NEW d, Ordered(c, p, d),
           NEW i \in Slots, p[i] = "read"
    PROVE  Ordered(c, [p EXCEPT ![i] = "listener"], Append(d, c.nextSeq))
<1> DEFINE q == [p EXCEPT ![i] = "listener"]
<1> DEFINE e == Append(d, c.nextSeq)
<1>1. /\ c \in CursorType /\ d \in Seq(Nat)
      /\ p \in [Slots -> Places] /\ \A j \in Slots : j # i => p[j] = "off"
  BY DEF Ordered, Typed, Alone
<1>2. q \in [Slots -> Places] /\ q[i] = "listener" /\ \A j \in Slots : j # i => q[j] = "off"
  BY <1>1
<1>3. ~Listening(p) /\ Listening(q) /\ c.running
  BY <1>1, <1>2 DEF Listening, Ordered, Alone
<1>4. c.nextSeq = c.from + Len(d) /\ c.from # 0
  BY <1>3 DEF Ordered, Positioned
<1>5. /\ e \in Seq(Nat) /\ Len(e) = Len(d) + 1
      /\ \A j \in 1..Len(d) : e[j] = d[j]
      /\ e[Len(d) + 1] = c.nextSeq
  BY <1>1, AppendProperties
<1>6. \A j \in 1..Len(e) : e[j] = c.from + j - 1
  <2> SUFFICES ASSUME NEW j \in 1..Len(e) PROVE e[j] = c.from + j - 1
    OBVIOUS
  <2>1. CASE j \in 1..Len(d)
    BY <2>1, <1>5 DEF Ordered, Positioned
  <2>2. CASE j = Len(d) + 1
    BY <2>2, <1>1, <1>4, <1>5
  <2> HIDE DEF e
  <2> QED BY <2>1, <2>2, <1>1, <1>5, LenProperties
<1> HIDE DEF q, e
<1>7. Len(d) \in Nat
  BY <1>1, LenProperties
<1>8. Typed(c, q, e)
  BY <1>1, <1>2, <1>5 DEF Typed
<1>9. Alone(c, q)
  BY <1>2, <1>3 DEF Alone
<1>10. Positioned(c, q, e)
  BY <1>1, <1>3, <1>4, <1>5, <1>6, <1>7 DEF Positioned
<1>11. Ordered(c, q, e)
  BY <1>8, <1>9, <1>10 DEF Ordered
<1> QED BY <1>11 DEF q, e

(* The listener settles: the position follows, and the pump reads on, or   *)
(* leaves the cursor when it was stopped meanwhile.                        *)
LEMMA ReturnKeeps ==
    ASSUME NEW c, NEW p, NEW d, Ordered(c, p, d),
           NEW i \in Slots, p[i] = "listener",
           NEW place \in {"read", "off"}
    PROVE  Ordered([c EXCEPT !.nextSeq = d[Len(d)] + 1, !.running = (place = "read")],
                   [p EXCEPT ![i] = place], d)
<1> DEFINE q == [p EXCEPT ![i] = place]
<1>1. /\ c \in CursorType /\ d \in Seq(Nat)
      /\ p \in [Slots -> Places] /\ \A j \in Slots : j # i => p[j] = "off"
  BY DEF Ordered, Typed, Alone
<1>2. q \in [Slots -> Places] /\ q[i] = place /\ \A j \in Slots : j # i => q[j] = "off"
  BY <1>1
<1>3. Listening(p) /\ ~Listening(q) /\ c.running
  BY <1>1, <1>2 DEF Listening, Ordered, Alone
<1>4. Len(d) > 0 /\ Len(d) \in Nat /\ c.from # 0
  BY <1>1, <1>3, LenProperties DEF Ordered, Positioned
<1>5. d[Len(d)] = c.from + Len(d) - 1
  BY <1>4 DEF Ordered, Positioned
<1> HIDE DEF q
<1>6. d[Len(d)] + 1 = c.from + Len(d) /\ d[Len(d)] + 1 \in Nat
  BY <1>1, <1>4, <1>5
<1> DEFINE n == d[Len(d)] + 1
<1>7. Ordered([c EXCEPT !.nextSeq = n, !.running = (place = "read")], q, d)
  <2> HIDE DEF n
  <2>1. n = c.from + Len(d) /\ n \in Nat
    BY <1>6 DEF n
  <2> DEFINE b == [c EXCEPT !.nextSeq = n, !.running = (place = "read")]
  <2>2. b \in CursorType /\ b.from = c.from /\ b.nextSeq = n /\ b.running = (place = "read")
    BY <1>1, <2>1
  <2> HIDE DEF b
  <2>3. Typed(b, q, d)
    BY <1>1, <1>2, <2>2 DEF Typed
  <2>4. Alone(b, q)
    BY <1>2, <2>2 DEF Alone
  <2>5. Positioned(b, q, d)
    BY <1>3, <1>4, <2>1, <2>2 DEF Positioned, Ordered
  <2> QED BY <2>3, <2>4, <2>5 DEF Ordered, b
<1> QED BY <1>7 DEF q

(* The listener throws: the cursor is stopped where it is.                 *)
LEMMA ThrowKeeps ==
    ASSUME NEW c, NEW p, NEW d, Ordered(c, p, d),
           NEW i \in Slots, p[i] = "listener"
    PROVE  Ordered([c EXCEPT !.running = FALSE, !.active = FALSE], [p EXCEPT ![i] = "off"], d)
<1> DEFINE q == [p EXCEPT ![i] = "off"]
<1>1. p \in [Slots -> Places] /\ \A j \in Slots : j # i => p[j] = "off"
  BY DEF Ordered, Typed, Alone
<1>2. q \in [Slots -> Places] /\ \A j \in Slots : q[j] = "off"
  BY <1>1
<1>3. ~Listening(q)
  BY <1>2 DEF Listening
<1> HIDE DEF q
<1>4. Ordered([c EXCEPT !.running = FALSE, !.active = FALSE], q, d)
  BY <1>2, <1>3 DEF Ordered, Typed, Alone, Positioned
<1> QED BY <1>4 DEF q

-----------------------------------------------------------------------------
(* The invariant.                                                          *)

LEMMA FreeIsFree ==
    ASSUME NEW k \in Cursors, \A i \in Slots : pump[k][i] = "off"
    PROVE  Free(k) \in Slots
BY SlotsAssumption DEF Free, Pumping

LEMMA InitHolds == Init => IInv
<1> SUFFICES ASSUME Init PROVE IInv
  OBVIOUS
<1>1. \A k \in Cursors : Ordered(cur[k], pump[k], delivered[k])
  BY DEF Init, Ordered, Typed, Alone, Positioned, Listening
<1> QED BY <1>1 DEF Init, IInv

(* A step that leaves the head alone and changes at most one cursor.       *)
LEMMA OneCursor ==
    ASSUME IInv, NEW k \in Cursors, NEW c, NEW p, NEW d,
           Ordered(c, p, d), last' \in Nat,
           cur' = [cur EXCEPT ![k] = c],
           pump' = [pump EXCEPT ![k] = p],
           delivered' = [delivered EXCEPT ![k] = d]
    PROVE  IInv'
<1>1. /\ cur' \in [Cursors -> CursorType]
      /\ pump' \in [Cursors -> [Slots -> Places]]
      /\ delivered' \in [Cursors -> Seq(Nat)]
  BY DEF IInv, Ordered, Typed
<1>2. ASSUME NEW j \in Cursors PROVE Ordered(cur'[j], pump'[j], delivered'[j])
  <2>1. CASE j = k
    <3>1. cur'[j] = c /\ pump'[j] = p /\ delivered'[j] = d
      BY <2>1 DEF IInv
    <3> QED BY <3>1
  <2>2. CASE j # k
    <3>1. cur'[j] = cur[j] /\ pump'[j] = pump[j] /\ delivered'[j] = delivered[j]
      BY <2>2 DEF IInv
    <3> QED BY <3>1 DEF IInv
  <2> QED BY <2>1, <2>2
<1> QED BY <1>1, <1>2 DEF IInv

(* A step that stops cursors, and starts or delivers nothing.              *)
LEMMA Stops ==
    ASSUME IInv, NEW ks, last' = last, UNCHANGED <<pump, delivered>>,
           cur' = [k \in Cursors |-> IF k \in ks THEN [cur[k] EXCEPT !.active = FALSE] ELSE cur[k]]
    PROVE  IInv'
<1>1. ASSUME NEW k \in Cursors PROVE Ordered([cur[k] EXCEPT !.active = FALSE], pump[k], delivered[k])
  <2>1. Ordered([cur[k] EXCEPT !.active = FALSE, !.wake = cur[k].wake], pump[k], delivered[k])
    BY MarksKeep DEF IInv
  <2>2. [cur[k] EXCEPT !.active = FALSE, !.wake = cur[k].wake] = [cur[k] EXCEPT !.active = FALSE]
    BY DEF IInv
  <2> QED BY <2>1, <2>2
<1>2. \A k \in Cursors : Ordered(cur'[k], pump'[k], delivered'[k])
  BY <1>1 DEF IInv
<1>3. cur' \in [Cursors -> CursorType]
  BY DEF IInv
<1> QED BY <1>2, <1>3 DEF IInv

LEMMA Nothing ==
    ASSUME IInv, UNCHANGED <<last, cur, pump, delivered>>
    PROVE  IInv'
BY DEF IInv

(* A new cursor object; its name was not used before.                      *)
LEMMA SubscribeStep ==
    ASSUME IInv, NEW k \in Cursors, Subscribe(k)
    PROVE  IInv'
<1>1. PICK n \in 1..(last + 1) :
         cur' = [cur EXCEPT ![k] = [from |-> n, nextSeq |-> n,
                                    active |-> TRUE, running |-> FALSE, wake |-> TRUE]]
  BY DEF Subscribe
<1> DEFINE c == [from |-> n, nextSeq |-> n, active |-> TRUE, running |-> FALSE, wake |-> TRUE]
<1>2. delivered[k] = <<>> /\ ~cur[k].running
  BY DEF Subscribe, IInv, Ordered, Positioned
<1>3. \A i \in Slots : pump[k][i] = "off"
  BY <1>2 DEF IInv, Ordered, Alone
<1>4. n \in Nat /\ n # 0
  BY DEF IInv
<1>5. c \in CursorType /\ c.from = n /\ c.nextSeq = n /\ ~c.running
  BY <1>4
<1> HIDE DEF c
<1>6. Ordered(c, pump[k], delivered[k])
  BY <1>2, <1>3, <1>4, <1>5 DEF IInv, Ordered, Typed, Alone, Positioned, Listening
<1>7. /\ cur' = [cur EXCEPT ![k] = c]
      /\ pump' = [pump EXCEPT ![k] = pump[k]]
      /\ delivered' = [delivered EXCEPT ![k] = delivered[k]]
      /\ last' \in Nat
  BY <1>1 DEF Subscribe, store, IInv, c
<1> QED BY <1>6, <1>7, OneCursor

(* The notice of an append calls pump() on every registered cursor.        *)
LEMMA ServeAppendStep ==
    ASSUME IInv, ServeAppend
    PROVE  IInv'
<1> DEFINE noticed == IF source THEN Range(cursors) ELSE {}
<1>1. /\ cur' = [k \in Cursors |-> IF k \in noticed THEN Started(k, TRUE) ELSE cur[k]]
      /\ pump' = [k \in Cursors |-> IF k \in noticed /\ Starts(k)
                                      THEN [pump[k] EXCEPT ![Free(k)] = "read"] ELSE pump[k]]
      /\ delivered' = delivered /\ last' \in Nat
  BY DEF ServeAppend, IInv
<1> HIDE DEF noticed
<1>2. ASSUME NEW k \in Cursors
      PROVE  Ordered(cur'[k], pump'[k], delivered'[k])
  <2>1. Ordered(cur[k], pump[k], delivered[k])
    BY DEF IInv
  <2>2. CASE k \notin noticed
    BY <1>1, <2>1, <2>2
  <2>3. CASE k \in noticed /\ ~Starts(k)
    <3>1. cur'[k] = [cur[k] EXCEPT !.wake = TRUE] /\ pump'[k] = pump[k]
      BY <1>1, <2>3 DEF Started
    <3>2. Ordered([cur[k] EXCEPT !.active = cur[k].active, !.wake = TRUE], pump[k], delivered[k])
      BY <2>1, MarksKeep DEF Ordered, Typed
    <3>3. [cur[k] EXCEPT !.active = cur[k].active, !.wake = TRUE] = [cur[k] EXCEPT !.wake = TRUE]
      BY <2>1 DEF Ordered, Typed
    <3> QED BY <1>1, <3>1, <3>2, <3>3
  <2>4. CASE k \in noticed /\ Starts(k)
    <3>1. ~cur[k].running /\ cur[k].active
      BY <2>4 DEF Starts, Live
    <3>2. Free(k) \in Slots
      BY <2>1, <3>1, FreeIsFree DEF Ordered, Alone
    <3>3. /\ cur'[k] = [cur[k] EXCEPT !.running = TRUE, !.wake = FALSE]
          /\ pump'[k] = [pump[k] EXCEPT ![Free(k)] = "read"]
      BY <1>1, <2>4 DEF Started
    <3>4. Ordered([cur[k] EXCEPT !.running = TRUE, !.wake = FALSE],
                  [pump[k] EXCEPT ![Free(k)] = "read"], delivered[k])
      BY <2>1, <3>1, <3>2, StartKeeps
    <3>5. delivered'[k] = delivered[k]
      BY <1>1
    <3> QED BY <3>3, <3>4, <3>5
  <2> QED BY <2>2, <2>3, <2>4
<1>3. \A k \in Cursors : Typed(cur'[k], pump'[k], delivered'[k])
  BY <1>2 DEF Ordered
<1> QED BY <1>1, <1>2, <1>3 DEF IInv, Typed

(* A registration ends with the first call of pump().                      *)
LEMMA RegisteredStep ==
    ASSUME IInv, Registered
    PROVE  IInv'
<1> DEFINE k == task.cursor
<1>0. UNCHANGED <<last, delivered>>
  BY DEF Registered
<1>1. CASE ~Starts(k)
  BY <1>0, <1>1, Nothing DEF Registered
<1>2. CASE Starts(k)
  <2>1. /\ cur' = [cur EXCEPT ![k] = Started(k, TRUE)]
        /\ pump' = [pump EXCEPT ![k][Free(k)] = "read"]
    BY <1>2 DEF Registered
  <2>2. CASE k \notin Cursors
    <3>1. cur' = cur /\ pump' = pump
      BY <2>1, <2>2 DEF IInv
    <3> QED BY <1>0, <3>1, Nothing
  <2>3. CASE k \in Cursors
    <3> HIDE DEF k
    <3>1. Ordered(cur[k], pump[k], delivered[k])
      BY <2>3 DEF IInv
    <3>2. ~cur[k].running /\ cur[k].active
      BY <1>2 DEF Starts, Live
    <3>3. Free(k) \in Slots
      BY <2>3, <3>1, <3>2, FreeIsFree DEF Ordered, Alone
    <3>4. /\ cur' = [cur EXCEPT ![k] = [cur[k] EXCEPT !.running = TRUE, !.wake = FALSE]]
          /\ pump' = [pump EXCEPT ![k] = [pump[k] EXCEPT ![Free(k)] = "read"]]
          /\ delivered' = [delivered EXCEPT ![k] = delivered[k]]
          /\ last' \in Nat
      BY <1>0, <1>2, <2>1, <2>3 DEF Started, IInv
    <3>5. Ordered([cur[k] EXCEPT !.running = TRUE, !.wake = FALSE],
                  [pump[k] EXCEPT ![Free(k)] = "read"], delivered[k])
      BY <3>1, <3>2, <3>3, StartKeeps
    <3> QED BY <2>3, <3>4, <3>5, OneCursor
  <2> QED BY <2>2, <2>3
<1> QED BY <1>1, <1>2

LEMMA TruncatedStep ==
    ASSUME IInv, Truncated
    PROVE  IInv'
<1> DEFINE overtaken == {k \in Range(cursors) : cur[k].nextSeq < task.n}
<1>1. /\ cur' = [k \in Cursors |-> IF k \in overtaken THEN [cur[k] EXCEPT !.active = FALSE] ELSE cur[k]]
      /\ last' = last /\ UNCHANGED <<pump, delivered>>
  BY DEF Truncated
<1> HIDE DEF overtaken
<1> QED BY <1>1, Stops

LEMMA StopStep ==
    ASSUME IInv, Stop
    PROVE  IInv'
<1> DEFINE stopped == Range(cursors)
<1>1. /\ cur' = [k \in Cursors |-> IF k \in stopped THEN [cur[k] EXCEPT !.active = FALSE] ELSE cur[k]]
      /\ last' = last /\ UNCHANGED <<pump, delivered>>
  BY DEF Stop, store
<1> HIDE DEF stopped
<1> QED BY <1>1, Stops

LEMMA UnsubscribeStep ==
    ASSUME IInv, NEW k \in Cursors, Unsubscribe(k)
    PROVE  IInv'
<1>1. cur' = [j \in Cursors |-> IF j \in {k} THEN [cur[j] EXCEPT !.active = FALSE] ELSE cur[j]]
  BY DEF Unsubscribe, Cancel, IInv
<1>2. last' = last /\ UNCHANGED <<pump, delivered>>
  BY DEF Unsubscribe, store
<1> QED BY <1>1, <1>2, Stops

(* The steps of one activation of pump().                                  *)
LEMMA PumpStep ==
    ASSUME IInv, NEW k \in Cursors, NEW i \in Slots, Pump(k, i) \/ ListenerThrows(k, i)
    PROVE  IInv'
<1> DEFINE c == cur[k]
<1> DEFINE p == pump[k]
<1> DEFINE d == delivered[k]
<1>0. /\ Ordered(c, p, d) /\ c \in CursorType
      /\ cur = [cur EXCEPT ![k] = c] /\ pump = [pump EXCEPT ![k] = p]
      /\ delivered = [delivered EXCEPT ![k] = d]
  BY DEF IInv
<1>last. last' \in Nat
  BY DEF IInv, Pump, GotRow, GotLater, GotNothing, GotTooLate, HeadPassed, TailReached,
         ListenerReturns, ListenerThrows, store
<1>1. CASE GotRow(k, i)
  <2>1. /\ cur' = [cur EXCEPT ![k] = c]
        /\ pump' = [pump EXCEPT ![k] = [p EXCEPT ![i] = "listener"]]
        /\ delivered' = [delivered EXCEPT ![k] = Append(d, c.nextSeq)]
        /\ p[i] = "read"
    BY <1>0, <1>1 DEF GotRow, At, Goto, IInv
  <2>2. Ordered(c, [p EXCEPT ![i] = "listener"], Append(d, c.nextSeq))
    BY <1>0, <2>1, DeliverKeeps
  <2> HIDE DEF c, p, d
  <2> QED BY <1>last, <2>1, <2>2, OneCursor
<1>2. CASE GotLater(k, i) \/ HeadPassed(k, i)
  <2>1. /\ cur' = [cur EXCEPT ![k] = [c EXCEPT !.running = FALSE, !.active = FALSE]]
        /\ pump' = [pump EXCEPT ![k] = [p EXCEPT ![i] = "off"]]
        /\ delivered' = [delivered EXCEPT ![k] = d]
        /\ p[i] \in {"read", "last"}
    <3>1. LeaveTruncated(k, i) /\ UNCHANGED delivered /\ p[i] \in {"read", "last"}
      BY <1>2 DEF GotLater, HeadPassed, At
    <3>2. cur' = [cur EXCEPT ![k] = [c EXCEPT !.running = FALSE, !.active = FALSE]]
      BY <1>0, <3>1 DEF LeaveTruncated, IInv
    <3>3. pump' = [pump EXCEPT ![k] = [p EXCEPT ![i] = "off"]]
      BY <1>0, <3>1 DEF LeaveTruncated, Goto, IInv
    <3> QED BY <1>0, <3>1, <3>2, <3>3
  <2>2. Ordered([c EXCEPT !.running = FALSE, !.active = FALSE], [p EXCEPT ![i] = "off"], d)
    BY <1>0, <2>1, LeaveKeeps
  <2> HIDE DEF c, p, d
  <2> QED BY <1>last, <2>1, <2>2, OneCursor
<1>3. CASE GotNothing(k, i)
  <2>1. /\ cur' = [cur EXCEPT ![k] = [c EXCEPT !.wake = c.wake]]
        /\ pump' = [pump EXCEPT ![k] = [p EXCEPT ![i] = "last"]]
        /\ delivered' = [delivered EXCEPT ![k] = d]
        /\ p[i] = "read" /\ c.wake \in BOOLEAN
    BY <1>0, <1>3 DEF GotNothing, At, Goto, IInv
  <2>2. Ordered([c EXCEPT !.wake = c.wake], [p EXCEPT ![i] = "last"], d)
    BY <1>0, <2>1, GoOnKeeps
  <2> HIDE DEF c, p, d
  <2> QED BY <1>last, <2>1, <2>2, OneCursor
<1>4. CASE GotTooLate(k, i) \/ (TailReached(k, i) /\ ~(cur[k].wake /\ Live(k)))
  <2>1. /\ cur' = [cur EXCEPT ![k] = [c EXCEPT !.running = FALSE, !.active = c.active]]
        /\ pump' = [pump EXCEPT ![k] = [p EXCEPT ![i] = "off"]]
        /\ delivered' = [delivered EXCEPT ![k] = d]
        /\ p[i] \in {"read", "last"} /\ c.active \in BOOLEAN
    BY <1>0, <1>4 DEF GotTooLate, TailReached, Leave, At, Goto, IInv
  <2>2. Ordered([c EXCEPT !.running = FALSE, !.active = c.active], [p EXCEPT ![i] = "off"], d)
    BY <1>0, <2>1, LeaveKeeps
  <2> HIDE DEF c, p, d
  <2> QED BY <1>last, <2>1, <2>2, OneCursor
<1>5. CASE TailReached(k, i) /\ cur[k].wake /\ Live(k)
  <2>1. /\ cur' = [cur EXCEPT ![k] = [c EXCEPT !.wake = FALSE]]
        /\ pump' = [pump EXCEPT ![k] = [p EXCEPT ![i] = "read"]]
        /\ delivered' = [delivered EXCEPT ![k] = d]
        /\ p[i] = "last"
    BY <1>0, <1>5 DEF TailReached, ReadsOn, At, Goto, IInv
  <2>2. Ordered([c EXCEPT !.wake = FALSE], [p EXCEPT ![i] = "read"], d)
    BY <1>0, <2>1, GoOnKeeps
  <2> HIDE DEF c, p, d
  <2> QED BY <1>last, <2>1, <2>2, OneCursor
<1>6. CASE ListenerReturns(k, i)
  <2> DEFINE place == IF Live(k) THEN "read" ELSE "off"
  <2>1. c.running
    BY <1>0, <1>6 DEF ListenerReturns, At, Ordered, Alone
  <2>2. /\ cur' = [cur EXCEPT ![k] = [c EXCEPT !.nextSeq = d[Len(d)] + 1, !.running = (place = "read")]]
        /\ pump' = [pump EXCEPT ![k] = [p EXCEPT ![i] = place]]
        /\ delivered' = [delivered EXCEPT ![k] = d]
        /\ p[i] = "listener" /\ place \in {"read", "off"}
    <3>1. CASE Live(k)
      <4>1. cur' = [cur EXCEPT ![k] = [c EXCEPT !.nextSeq = d[Len(d)] + 1]] /\ place = "read"
        BY <1>0, <1>6, <3>1 DEF ListenerReturns, IInv
      <4>2. [c EXCEPT !.nextSeq = d[Len(d)] + 1] = [c EXCEPT !.nextSeq = d[Len(d)] + 1, !.running = TRUE]
        BY <1>0, <2>1
      <4> QED BY <1>0, <1>6, <3>1, <4>1, <4>2 DEF ListenerReturns, At, Goto, IInv
    <3>2. CASE ~Live(k)
      BY <1>0, <1>6, <3>2 DEF ListenerReturns, At, Goto, IInv
    <3> QED BY <3>1, <3>2
  <2> HIDE DEF place, c, p, d
  <2>3. Ordered([c EXCEPT !.nextSeq = d[Len(d)] + 1, !.running = (place = "read")],
                [p EXCEPT ![i] = place], d)
    <3>1. Ordered(c, p, d)
      BY <1>0
    <3>2. p[i] = "listener" /\ place \in {"read", "off"}
      BY <2>2
    <3> QED BY <3>1, <3>2, ReturnKeeps
  <2> QED BY <1>last, <2>2, <2>3, OneCursor
<1>7. CASE ListenerThrows(k, i)
  <2>1. /\ cur' = [cur EXCEPT ![k] = [c EXCEPT !.running = FALSE, !.active = FALSE]]
        /\ pump' = [pump EXCEPT ![k] = [p EXCEPT ![i] = "off"]]
        /\ delivered' = [delivered EXCEPT ![k] = d]
        /\ p[i] = "listener"
    BY <1>0, <1>7 DEF ListenerThrows, At, Goto, IInv
  <2>2. Ordered([c EXCEPT !.running = FALSE, !.active = FALSE], [p EXCEPT ![i] = "off"], d)
    BY <1>0, <2>1, ThrowKeeps
  <2> HIDE DEF c, p, d
  <2> QED BY <1>last, <2>1, <2>2, OneCursor
<1> QED BY <1>1, <1>2, <1>3, <1>4, <1>5, <1>6, <1>7 DEF Pump

LEMMA Inductive == IInv /\ [Next]_vars => IInv'
<1> SUFFICES ASSUME IInv, [Next]_vars PROVE IInv'
  OBVIOUS
<1>1. CASE OwnerAppends \/ OwnerTruncates \/ AppendRecord \/ Truncate
  BY <1>1, Nothing DEF OwnerAppends, OwnerTruncates, AppendRecord, Truncate, subs, store
<1>2. CASE ServeRead \/ ServeLast \/ ServeTruncate
  BY <1>2, Nothing DEF ServeRead, ServeLast, ServeTruncate, subs
<1>3. CASE TurnStale \/ Register \/ TurnWrites \/ Appended
  BY <1>3, Nothing DEF TurnStale, Register, TurnWrites, Appended, subs, store
<1>4. CASE UNCHANGED vars
  BY <1>4, Nothing DEF vars, subs, store
<1>5. CASE \E k \in Cursors : Subscribe(k)
  BY <1>5, SubscribeStep
<1>6. CASE \E k \in Cursors : Unsubscribe(k)
  BY <1>6, UnsubscribeStep
<1>7. CASE \E k \in Cursors, i \in Slots : Pump(k, i) \/ ListenerThrows(k, i)
  BY <1>7, PumpStep
<1> QED BY <1>1, <1>2, <1>3, <1>4, <1>5, <1>6, <1>7, ServeAppendStep, RegisteredStep,
          TruncatedStep, StopStep DEF Next, Serve, Run

(* A listener gets consecutive records from the position it asked for, one *)
(* call at a time, whatever is appended, truncated or revoked around it:   *)
(* the handoff from history to notices repeats and skips nothing.          *)
THEOREM DeliversInOrder == Spec => []InOrder
<1>1. IInv => InOrder
  <2> SUFFICES ASSUME IInv, NEW k \in Cursors
               PROVE  /\ delivered[k] = [j \in 1..Len(delivered[k]) |-> cur[k].from + j - 1]
                      /\ \A i, j \in Slots : At(k, i, "listener") /\ At(k, j, "listener") => i = j
    BY DEF InOrder
  <2>1. Ordered(cur[k], pump[k], delivered[k])
    BY DEF IInv
  <2>2. \A i, j \in Slots : At(k, i, "listener") /\ At(k, j, "listener") => i = j
    BY <2>1 DEF Ordered, Alone, At
  <2>3. /\ delivered[k] \in Seq(Nat)
        /\ \A j \in 1..Len(delivered[k]) : delivered[k][j] = cur[k].from + j - 1
    BY <2>1 DEF Ordered, Typed, Positioned
  <2>4. delivered[k] = [j \in 1..Len(delivered[k]) |-> delivered[k][j]]
    BY <2>3
  <2>5. [j \in 1..Len(delivered[k]) |-> delivered[k][j]]
          = [j \in 1..Len(delivered[k]) |-> cur[k].from + j - 1]
    BY <2>3
  <2> QED BY <2>2, <2>4, <2>5
<1> QED BY <1>1, InitHolds, Inductive, PTL DEF Spec
=============================================================================
