--------------------------- MODULE LogStoreProofs ---------------------------
(***************************************************************************)
(* Proofs about LogStore for every set of calls, every sequence limit and  *)
(* batch size, and any number of failures, crashes and reopenings: its     *)
(* types, that the file can always be opened again, that acknowledged      *)
(* appends survive, and that the store implements CommittedLog.            *)
(***************************************************************************)
EXTENDS LogStore, TLAPS

Image(last, floor, rows) == [last |-> last, floor |-> floor, rows |-> rows]

(* What the first k statements of a write make of the contents.             *)
Added(image, c, r, k) ==
  [s \in Seqs |-> IF s > image.last /\ s <= image.last + k /\ s <= image.last + r.n
                    THEN [by |-> c, state |-> "pending"]
                    ELSE image.rows[s]]

Cut(image, r) == [s \in Seqs |-> IF s < r.n THEN Absent ELSE image.rows[s]]

Partial(image, c, r, k) ==
  CASE r.kind = "append" ->
         Image(IF k = r.n + 1 THEN image.last + r.n ELSE image.last, image.floor,
               Added(image, c, r, k))
    [] r.kind = "truncate" ->
         Image(image.last, IF k = 2 THEN r.n ELSE image.floor,
               IF k >= 1 THEN Cut(image, r) ELSE image.rows)
    [] OTHER -> IF k = 1 THEN Applied(image, c, r) ELSE image

(* The call whose turn it is.                                               *)
Turn ==
  /\ step = "idle" <=> running = Nobody
  /\ step = "idle" => batch = {}
  /\ step # "idle" =>
       /\ ~failure
       /\ phase \in {"open", "draining"}
       /\ call[running].status = "running"
       /\ Admissible(index, Wanted)
       /\ Writes(index, Wanted)
       /\ batch = Assigned(index, Wanted)
  /\ \A c \in Calls : call[c].status = "running" => c = running

(* Accepted calls wait once.                                                *)
Waiting ==
  /\ \A i \in 1..Len(queue) : call[queue[i]].status = "queued"
  /\ \A i, j \in 1..Len(queue) : queue[i] = queue[j] => i = j
  /\ phase \in {"closed", "down"} => queue = <<>>

(* The index is the file, and the transaction a part of the running write.  *)
Agree ==
  /\ phase \in {"open", "draining"} /\ ~failure =>
       IF step = "committed" THEN disk = Applied(index, running, Wanted) ELSE disk = index
  /\ step = "writing" =>
       /\ ran <= Count(Wanted)
       /\ tx = Partial(index, running, Wanted, ran)

(* The sequences already handed out lie below the head of the index.        *)
HandedOut ==
  /\ \A c \in Calls : call[c].status # "ok" => call[c].seqs = {}
  /\ \A c \in Calls : \A s \in call[c].seqs :
       /\ s <= disk.last
       /\ step = "committed" => s <= index.last

IInv ==
  /\ TypeOK /\ Turn /\ Waiting /\ Agree /\ HandedOut
  /\ Recoverable /\ AcknowledgedSurvive

LEMMA RequestFacts ==
    ASSUME NEW r \in Requests
    PROVE  /\ r.kind \in {"append", "truncate", "done", "aborted", "read"}
           /\ r.n \in Nat
           /\ r.kind = "append" => r.n \in 1..MaxBatch
           /\ r.kind \in {"truncate", "done", "aborted"} => r.n \in 1..(MaxSeq + 1)
BY SizeAssumption DEF Requests, Request

LEMMA ImageFacts ==
    ASSUME NEW image \in Images
    PROVE  /\ image.last \in 0..MaxSeq /\ image.floor \in 1..(MaxSeq + 1)
           /\ image.rows \in [Seqs -> Records \cup {Absent}]
BY DEF Images

LEMMA EmptyFacts == Empty \in Images /\ Sound(Empty)
BY SizeAssumption DEF Empty, Images, Sound, Seqs

LEMMA ImageRecord ==
    ASSUME NEW image \in Images
    PROVE  image = Image(image.last, image.floor, image.rows)
BY DEF Images, Image

(* A committed write, kind by kind.                                         *)
LEMMA AppliedForms ==
    ASSUME NEW image \in Images, NEW c \in Calls, NEW r \in Requests,
           Admissible(image, r)
    PROVE  /\ r.kind = "append" =>
                /\ Applied(image, c, r) =
                     Image(image.last + r.n, image.floor, Added(image, c, r, r.n))
                /\ Assigned(image, r) = (image.last + 1)..(image.last + r.n)
                /\ image.last + r.n <= MaxSeq
           /\ r.kind = "truncate" =>
                /\ Applied(image, c, r) = Image(image.last, r.n, Cut(image, r))
                /\ Assigned(image, r) = {}
           /\ r.kind \in {"done", "aborted"} =>
                /\ r.n \in Seqs /\ image.rows[r.n] \in Records
                /\ Applied(image, c, r) =
                     Image(image.last, image.floor,
                           [image.rows EXCEPT ![r.n] = [image.rows[r.n] EXCEPT !.state = r.kind]])
                /\ Assigned(image, r) = {}
<1>a. /\ r.kind \in {"append", "truncate", "done", "aborted", "read"}
      /\ r.n \in Nat
      /\ r.kind = "append" => r.n \in 1..MaxBatch
      /\ r.kind \in {"truncate", "done", "aborted"} => r.n \in 1..(MaxSeq + 1)
  BY RequestFacts
<1>b. /\ image.last \in 0..MaxSeq /\ image.floor \in 1..(MaxSeq + 1)
      /\ image.rows \in [Seqs -> Records \cup {Absent}]
  BY ImageFacts
<1> USE <1>a, <1>b, SizeAssumption
<1>1. CASE r.kind = "append"
  <2>1. Assigned(image, r) = (image.last + 1)..(image.last + r.n) /\ image.last + r.n <= MaxSeq
    BY <1>1 DEF Assigned, Admissible
  <2>2. Applied(image, c, r)
          = [image EXCEPT !.last = image.last + r.n,
                          !.rows = [s \in Seqs |-> IF s \in Assigned(image, r)
                                                     THEN [by |-> c, state |-> "pending"]
                                                     ELSE image.rows[s]]]
    BY <1>1 DEF Applied
  <2>3. [s \in Seqs |-> IF s \in Assigned(image, r) THEN [by |-> c, state |-> "pending"]
                                                     ELSE image.rows[s]]
          = Added(image, c, r, r.n)
    BY <2>1 DEF Added, Seqs
  <2>4. Applied(image, c, r)
          = [image EXCEPT !.last = image.last + r.n, !.rows = Added(image, c, r, r.n)]
    BY <2>2, <2>3
  <2> QED BY <1>1, <2>1, <2>4 DEF Image, Images
<1>2. CASE r.kind = "truncate"
  <2>1. Applied(image, c, r) = [image EXCEPT !.floor = r.n, !.rows = Cut(image, r)]
    BY <1>2 DEF Applied, Cut
  <2> QED BY <1>2, <2>1 DEF Image, Images, Assigned
<1>3. CASE r.kind \in {"done", "aborted"}
  <2>1. r.n \in Seqs /\ image.rows[r.n] # Absent
    BY <1>3 DEF Admissible
  <2>2. Applied(image, c, r) = [image EXCEPT !.rows[r.n].state = r.kind]
    BY <1>3 DEF Applied
  <2> QED BY <1>3, <2>1, <2>2 DEF Image, Images, Assigned
<1> QED BY <1>1, <1>2, <1>3

(* The statements of a write add up to the write.                           *)
LEMMA PartialEnds ==
    ASSUME NEW image \in Images, NEW c \in Calls, NEW r \in Requests,
           Admissible(image, r), Writes(image, r)
    PROVE  /\ Partial(image, c, r, 0) = image
           /\ Partial(image, c, r, Count(r)) = Applied(image, c, r)
<1>a. /\ r.kind \in {"append", "truncate", "done", "aborted", "read"}
      /\ r.n \in Nat
      /\ r.kind = "append" => r.n \in 1..MaxBatch
      /\ r.kind \in {"truncate", "done", "aborted"} => r.n \in 1..(MaxSeq + 1)
  BY RequestFacts
<1>b. /\ image.last \in 0..MaxSeq /\ image.floor \in 1..(MaxSeq + 1)
      /\ image.rows \in [Seqs -> Records \cup {Absent}]
  BY ImageFacts
<1> USE <1>a, <1>b, SizeAssumption
<1>1. CASE r.kind = "append"
  <2>1. Added(image, c, r, 0) = image.rows
    BY DEF Added, Seqs
  <2>2. Added(image, c, r, r.n + 1) = Added(image, c, r, r.n)
    BY DEF Added, Seqs
  <2>3. Count(r) = r.n + 1
    BY <1>1 DEF Count
  <2>4. Applied(image, c, r) = Image(image.last + r.n, image.floor, Added(image, c, r, r.n))
    BY <1>1, AppliedForms
  <2>5. Partial(image, c, r, 0) = Image(image.last, image.floor, image.rows)
    BY <1>1, <2>1 DEF Partial
  <2>6. Partial(image, c, r, r.n + 1) = Image(image.last + r.n, image.floor, Added(image, c, r, r.n))
    BY <1>1, <2>2 DEF Partial
  <2> QED BY <2>3, <2>4, <2>5, <2>6, ImageRecord
<1>2. CASE r.kind = "truncate"
  <2>1. Count(r) = 2
    BY <1>2 DEF Count
  <2>2. Applied(image, c, r) = Image(image.last, r.n, Cut(image, r))
    BY <1>2, AppliedForms
  <2>3. Partial(image, c, r, 0) = Image(image.last, image.floor, image.rows)
    BY <1>2 DEF Partial
  <2>4. Partial(image, c, r, 2) = Image(image.last, r.n, Cut(image, r))
    BY <1>2 DEF Partial
  <2> QED BY <2>1, <2>2, <2>3, <2>4, ImageRecord
<1>3. CASE r.kind \in {"done", "aborted"}
  <2>1. Count(r) = 1
    BY <1>3 DEF Count
  <2> QED BY <1>3, <2>1 DEF Partial
<1>4. r.kind # "read"
  BY DEF Writes
<1> QED BY <1>1, <1>2, <1>3, <1>4

LEMMA PartialStep ==
    ASSUME NEW image \in Images, NEW c \in Calls, NEW r \in Requests, NEW k \in Nat,
           Admissible(image, r), Writes(image, r), k < Count(r)
    PROVE  Executed(Partial(image, c, r, k), StatementAt(c, r, image, k + 1))
             = Partial(image, c, r, k + 1)
<1>a. /\ r.kind \in {"append", "truncate", "done", "aborted", "read"}
      /\ r.n \in Nat
      /\ r.kind = "append" => r.n \in 1..MaxBatch
      /\ r.kind \in {"truncate", "done", "aborted"} => r.n \in 1..(MaxSeq + 1)
  BY RequestFacts
<1>b. /\ image.last \in 0..MaxSeq /\ image.floor \in 1..(MaxSeq + 1)
      /\ image.rows \in [Seqs -> Records \cup {Absent}]
  BY ImageFacts
<1> USE <1>a, <1>b, SizeAssumption
<1> DEFINE P == Partial(image, c, r, k)
           S == StatementAt(c, r, image, k + 1)
<1>1. CASE r.kind = "append" /\ k < r.n
  <2>1. S = Statement("insert", image.last + (k + 1), c, "pending")
    BY <1>1 DEF StatementAt
  <2>2. image.last + (k + 1) \in Seqs
    BY <1>1 DEF Admissible, Seqs
  <2>3. P = Image(image.last, image.floor, Added(image, c, r, k))
    BY <1>1 DEF Partial
  <2>4. Partial(image, c, r, k + 1) = Image(image.last, image.floor, Added(image, c, r, k + 1))
    BY <1>1 DEF Partial
  <2>5. Executed(P, S)
          = [P EXCEPT !.rows[image.last + (k + 1)] = [by |-> c, state |-> "pending"]]
    BY <2>1 DEF Executed, Statement
  <2>6. Added(image, c, r, k + 1)
          = [Added(image, c, r, k) EXCEPT ![image.last + (k + 1)] = [by |-> c, state |-> "pending"]]
    <3> DEFINE new == [by |-> c, state |-> "pending"]
    <3>1. ASSUME NEW s \in Seqs, s = image.last + (k + 1)
          PROVE  Added(image, c, r, k + 1)[s] = new
      BY <1>1, <3>1 DEF Added, Seqs
    <3>2. ASSUME NEW s \in Seqs, s # image.last + (k + 1)
          PROVE  Added(image, c, r, k + 1)[s] = Added(image, c, r, k)[s]
      BY <1>1, <3>2 DEF Added, Seqs
    <3>3. \A j : Added(image, c, r, j) = [s \in Seqs |-> Added(image, c, r, j)[s]]
      BY DEF Added
    <3> QED BY <2>2, <3>1, <3>2, <3>3
  <2> QED BY <2>3, <2>4, <2>5, <2>6 DEF Image
<1>2. CASE r.kind = "append" /\ k = r.n
  <2>1. S = Statement("head", image.last + r.n, c, "pending")
    BY <1>2 DEF StatementAt
  <2>2. Executed(P, S) = [P EXCEPT !.last = image.last + r.n]
    BY <2>1 DEF Executed, Statement
  <2>3. P = Image(image.last, image.floor, Added(image, c, r, k))
    BY <1>2 DEF Partial
  <2>4. Partial(image, c, r, k + 1)
          = Image(image.last + r.n, image.floor, Added(image, c, r, k + 1))
    BY <1>2 DEF Partial
  <2>5. Added(image, c, r, k + 1) = Added(image, c, r, k)
    BY <1>2 DEF Added, Seqs
  <2> QED BY <2>2, <2>3, <2>4, <2>5 DEF Image
<1>3. CASE r.kind = "truncate" /\ k = 0
  <2>1. S = Statement("delete", r.n, c, "pending")
    BY <1>3 DEF StatementAt
  <2>2. Executed(P, S) = [P EXCEPT !.rows = [q \in Seqs |-> IF q < r.n THEN Absent ELSE P.rows[q]]]
    BY <2>1 DEF Executed, Statement
  <2>3. P = Image(image.last, image.floor, image.rows)
    BY <1>3 DEF Partial
  <2>4. Partial(image, c, r, k + 1) = Image(image.last, image.floor, Cut(image, r))
    BY <1>3 DEF Partial
  <2> QED BY <2>2, <2>3, <2>4 DEF Image, Cut
<1>4. CASE r.kind = "truncate" /\ k = 1
  <2>1. S = Statement("floor", r.n, c, "pending")
    BY <1>4 DEF StatementAt
  <2>2. Executed(P, S) = [P EXCEPT !.floor = r.n]
    BY <2>1 DEF Executed, Statement
  <2>3. P = Image(image.last, image.floor, Cut(image, r))
    BY <1>4 DEF Partial
  <2>4. Partial(image, c, r, k + 1) = Image(image.last, r.n, Cut(image, r))
    BY <1>4 DEF Partial
  <2> QED BY <2>2, <2>3, <2>4 DEF Image
<1>5. CASE r.kind \in {"done", "aborted"}
  <2>1. k = 0
    BY <1>5 DEF Count
  <2>2. S = Statement("state", r.n, c, r.kind)
    BY <1>5 DEF StatementAt
  <2>3. Executed(P, S) = [P EXCEPT !.rows[r.n].state = r.kind]
    BY <2>2 DEF Executed, Statement
  <2>4. P = image
    BY <1>5, <2>1 DEF Partial
  <2>5. Partial(image, c, r, k + 1) = [image EXCEPT !.rows[r.n].state = r.kind]
    BY <1>5, <2>1 DEF Partial, Applied
  <2> QED BY <2>3, <2>4, <2>5
<1>6. r.kind # "read" /\ (r.kind = "append" => k <= r.n) /\ (r.kind = "truncate" => k \in {0, 1})
  BY DEF Writes, Count
<1> QED BY <1>1, <1>2, <1>3, <1>4, <1>5, <1>6

(* A committed write keeps the types and the shape recover() insists on.    *)
LEMMA AppliedKeeps ==
    ASSUME NEW image \in Images, NEW c \in Calls, NEW r \in Requests,
           Admissible(image, r), Writes(image, r)
    PROVE  /\ Applied(image, c, r) \in Images
           /\ Sound(image) => Sound(Applied(image, c, r))
           /\ image.last <= Applied(image, c, r).last
           /\ Assigned(image, r) \subseteq Seqs
<1>a. /\ r.kind \in {"append", "truncate", "done", "aborted", "read"}
      /\ r.n \in Nat
      /\ r.kind = "append" => r.n \in 1..MaxBatch
      /\ r.kind \in {"truncate", "done", "aborted"} => r.n \in 1..(MaxSeq + 1)
  BY RequestFacts
<1>b. /\ image.last \in 0..MaxSeq /\ image.floor \in 1..(MaxSeq + 1)
      /\ image.rows \in [Seqs -> Records \cup {Absent}]
  BY ImageFacts
<1> USE <1>a, <1>b, SizeAssumption, AbsentAssumption
<1>1. CASE r.kind = "append"
  <2>a. /\ Applied(image, c, r).last = image.last + r.n
        /\ Applied(image, c, r).floor = image.floor
        /\ Applied(image, c, r).rows = Added(image, c, r, r.n)
        /\ Applied(image, c, r) = Image(image.last + r.n, image.floor, Added(image, c, r, r.n))
        /\ Assigned(image, r) = (image.last + 1)..(image.last + r.n)
        /\ image.last + r.n <= MaxSeq
    <3>1. /\ Applied(image, c, r) = Image(image.last + r.n, image.floor, Added(image, c, r, r.n))
          /\ Assigned(image, r) = (image.last + 1)..(image.last + r.n)
          /\ image.last + r.n <= MaxSeq
      BY <1>1, AppliedForms
    <3> QED BY <3>1 DEF Image
  <2>1. Added(image, c, r, r.n) \in [Seqs -> Records \cup {Absent}]
    BY DEF Added, Records, RecordStates
  <2>2. [by |-> c, state |-> "pending"] # Absent
    BY DEF Records, RecordStates
  <2> QED BY <1>1, <2>1, <2>2, <2>a DEF Image, Images, Sound, Added, Seqs
<1>2. CASE r.kind = "truncate"
  <2>a. /\ Applied(image, c, r).last = image.last
        /\ Applied(image, c, r).floor = r.n
        /\ Applied(image, c, r).rows = Cut(image, r)
        /\ Applied(image, c, r) = Image(image.last, r.n, Cut(image, r))
        /\ Assigned(image, r) = {}
    <3>1. /\ Applied(image, c, r) = Image(image.last, r.n, Cut(image, r))
          /\ Assigned(image, r) = {}
      BY <1>2, AppliedForms
    <3> QED BY <3>1 DEF Image
  <2>1. Cut(image, r) \in [Seqs -> Records \cup {Absent}]
    BY DEF Cut
  <2>2. r.n > image.floor /\ r.n <= image.last + 1
    BY <1>2 DEF Admissible, Writes
  <2> QED BY <1>2, <2>1, <2>2, <2>a DEF Image, Images, Sound, Cut, Seqs
<1>3. CASE r.kind \in {"done", "aborted"}
  <2>a. /\ r.n \in Seqs /\ image.rows[r.n] \in Records
        /\ Applied(image, c, r).last = image.last
        /\ Applied(image, c, r).floor = image.floor
        /\ Applied(image, c, r).rows =
             [image.rows EXCEPT ![r.n] = [image.rows[r.n] EXCEPT !.state = r.kind]]
        /\ Applied(image, c, r) = Image(Applied(image, c, r).last, Applied(image, c, r).floor,
                                        Applied(image, c, r).rows)
        /\ Assigned(image, r) = {}
    BY <1>3, AppliedForms DEF Image
  <2>1. [image.rows[r.n] EXCEPT !.state = r.kind] \in Records
    BY <1>3, <2>a DEF Records, RecordStates
  <2>2. image.rows[r.n] # Absent
    BY <1>3 DEF Admissible
  <2>3. Applied(image, c, r).rows \in [Seqs -> Records \cup {Absent}]
    BY <2>1, <2>a
  <2>4. Applied(image, c, r) \in Images
    BY <2>3, <2>a DEF Image, Images
  <2>5. \A s \in Seqs : Applied(image, c, r).rows[s] = Absent <=> image.rows[s] = Absent
    BY <2>1, <2>2, <2>a
  <2>6. Sound(image) => Sound(Applied(image, c, r))
    BY <2>5, <2>a DEF Sound
  <2> QED BY <2>4, <2>6, <2>a
<1>4. r.kind # "read"
  BY DEF Writes
<1> QED BY <1>1, <1>2, <1>3, <1>4

LEMMA PartialType ==
    ASSUME NEW image \in Images, NEW c \in Calls, NEW r \in Requests, NEW k \in Nat,
           Admissible(image, r), Writes(image, r), k <= Count(r)
    PROVE  Partial(image, c, r, k) \in Images
<1>a. /\ r.kind \in {"append", "truncate", "done", "aborted", "read"}
      /\ r.n \in Nat
      /\ r.kind \in {"truncate", "done", "aborted"} => r.n \in 1..(MaxSeq + 1)
  BY RequestFacts
<1>b. /\ image.last \in 0..MaxSeq /\ image.floor \in 1..(MaxSeq + 1)
      /\ image.rows \in [Seqs -> Records \cup {Absent}]
  BY ImageFacts
<1>1. CASE r.kind = "append"
  <2>1. image.last + r.n <= MaxSeq
    BY <1>1 DEF Admissible
  <2>2. Added(image, c, r, k) \in [Seqs -> Records \cup {Absent}]
    BY <1>b DEF Added, Records, RecordStates
  <2> QED BY <1>1, <1>a, <1>b, <2>1, <2>2, SizeAssumption DEF Partial, Image, Images
<1>2. CASE r.kind = "truncate"
  <2>1. Cut(image, r) \in [Seqs -> Records \cup {Absent}]
    BY <1>b DEF Cut
  <2> QED BY <1>2, <1>a, <1>b, <2>1, SizeAssumption DEF Partial, Image, Images
<1>3. CASE r.kind \in {"done", "aborted"}
  BY <1>3, AppliedKeeps DEF Partial
<1>4. r.kind # "read"
  BY DEF Writes
<1> QED BY <1>a, <1>1, <1>2, <1>3, <1>4

(* What a write does to the records that were there.                        *)
LEMMA AppliedRows ==
    ASSUME NEW image \in Images, NEW c \in Calls, NEW r \in Requests,
           Admissible(image, r), Writes(image, r)
    PROVE  /\ image.floor <= Applied(image, c, r).floor
           /\ \A s \in 1..image.last :
                image.rows[s] # Absent =>
                  \/ s < Applied(image, c, r).floor
                  \/ /\ Applied(image, c, r).rows[s] # Absent
                     /\ Applied(image, c, r).rows[s].by = image.rows[s].by
           /\ \A s \in Assigned(image, r) :
                /\ s > image.last /\ s <= Applied(image, c, r).last
                /\ Applied(image, c, r).rows[s] # Absent
                /\ Applied(image, c, r).rows[s].by = c
<1>a. /\ r.kind \in {"append", "truncate", "done", "aborted", "read"}
      /\ r.n \in Nat
      /\ r.kind = "append" => r.n \in 1..MaxBatch
      /\ r.kind \in {"truncate", "done", "aborted"} => r.n \in 1..(MaxSeq + 1)
  BY RequestFacts
<1>b. /\ image.last \in 0..MaxSeq /\ image.floor \in 1..(MaxSeq + 1)
      /\ image.rows \in [Seqs -> Records \cup {Absent}]
  BY ImageFacts
<1> USE <1>a, <1>b, SizeAssumption, AbsentAssumption
<1>1. CASE r.kind = "append"
  <2>a. /\ Applied(image, c, r).last = image.last + r.n
        /\ Applied(image, c, r).floor = image.floor
        /\ Applied(image, c, r).rows = Added(image, c, r, r.n)
        /\ Applied(image, c, r) = Image(image.last + r.n, image.floor, Added(image, c, r, r.n))
        /\ Assigned(image, r) = (image.last + 1)..(image.last + r.n)
        /\ image.last + r.n <= MaxSeq
    <3>1. /\ Applied(image, c, r) = Image(image.last + r.n, image.floor, Added(image, c, r, r.n))
          /\ Assigned(image, r) = (image.last + 1)..(image.last + r.n)
          /\ image.last + r.n <= MaxSeq
      BY <1>1, AppliedForms
    <3> QED BY <3>1 DEF Image
  <2>1. [by |-> c, state |-> "pending"] # Absent
    BY DEF Records, RecordStates
  <2> QED BY <1>1, <2>1, <2>a DEF Added, Seqs
<1>2. CASE r.kind = "truncate"
  <2>a. /\ Applied(image, c, r).last = image.last
        /\ Applied(image, c, r).floor = r.n
        /\ Applied(image, c, r).rows = Cut(image, r)
        /\ Applied(image, c, r) = Image(image.last, r.n, Cut(image, r))
        /\ Assigned(image, r) = {}
    <3>1. /\ Applied(image, c, r) = Image(image.last, r.n, Cut(image, r))
          /\ Assigned(image, r) = {}
      BY <1>2, AppliedForms
    <3> QED BY <3>1 DEF Image
  <2>1. r.n > image.floor
    BY <1>2 DEF Writes
  <2> QED BY <1>2, <2>1, <2>a DEF Cut, Seqs
<1>3. CASE r.kind \in {"done", "aborted"}
  <2>a. /\ r.n \in Seqs /\ image.rows[r.n] \in Records
        /\ Applied(image, c, r).last = image.last
        /\ Applied(image, c, r).floor = image.floor
        /\ Applied(image, c, r).rows =
             [image.rows EXCEPT ![r.n] = [image.rows[r.n] EXCEPT !.state = r.kind]]
        /\ Applied(image, c, r) = Image(Applied(image, c, r).last, Applied(image, c, r).floor,
                                        Applied(image, c, r).rows)
        /\ Assigned(image, r) = {}
    BY <1>3, AppliedForms DEF Image
  <2>1. [image.rows[r.n] EXCEPT !.state = r.kind] \in Records
    BY <1>3, <2>a DEF Records, RecordStates
  <2>2. [image.rows[r.n] EXCEPT !.state = r.kind].by = image.rows[r.n].by
    BY <1>3, <2>a DEF Records
  <2> QED BY <1>3, <2>1, <2>2, <2>a DEF Seqs
<1>4. r.kind # "read"
  BY DEF Writes
<1> QED BY <1>1, <1>2, <1>3, <1>4

USE DEF Starts, Becomes, Idle, Poison, Wanted, AllRan, file, work, counts

LEMMA UnmadeType ==
    /\ Unmade \in [status : CallStatuses, request : Requests, seqs : SUBSET Seqs, shown : Images]
    /\ Unmade.status = "idle" /\ Unmade.seqs = {}
BY EmptyFacts DEF Unmade, Call, CallStatuses, Requests, Request

CallType == [status : CallStatuses, request : Requests, seqs : SUBSET Seqs, shown : Images]

LEMMA InitHolds == Init => IInv
<1> SUFFICES ASSUME Init PROVE IInv
  OBVIOUS
<1> USE UnmadeType, EmptyFacts, NobodyAssumption DEF Init
<1>1. TypeOK
  <2>1. call \in [Calls -> [status : CallStatuses, request : Requests,
                            seqs : SUBSET Seqs, shown : Images]]
    OBVIOUS
  <2>2. queue \in Seq(Calls) /\ batch \subseteq Seqs
    OBVIOUS
  <2> QED BY <2>1, <2>2 DEF TypeOK, Phases, Steps
<1>2. Turn /\ Waiting
  BY DEF Turn, Waiting
<1>3. Agree /\ HandedOut /\ Recoverable /\ AcknowledgedSurvive
  BY DEF Agree, HandedOut, Recoverable, AcknowledgedSurvive
<1> QED BY <1>1, <1>2, <1>3 DEF IInv

LEMMA TypeStep == TypeOK /\ Turn /\ Agree /\ [Next]_vars => TypeOK'
<1> SUFFICES ASSUME TypeOK, Turn, Agree, [Next]_vars PROVE TypeOK'
  OBVIOUS
<1> USE DEF TypeOK, CallStatuses, Phases, Steps
<1>a. call \in [Calls -> CallType]
  BY DEF CallType
<1>c. step # "idle" => running \in Calls
  BY DEF Turn
<1>d. step = "writing" => /\ Admissible(index, Wanted) /\ Writes(index, Wanted)
                          /\ Wanted \in Requests /\ ran <= Count(Wanted)
                          /\ tx = Partial(index, running, Wanted, ran)
  BY <1>c DEF Turn, Agree
<1>1. CASE UNCHANGED vars
  BY <1>1 DEF vars
<1>2. ASSUME NEW c \in Calls, NEW request \in Requests, Submit(c, request) PROVE TypeOK'
  <2>1. \A st \in {"queued", "failed"} : Call(st, request, {}, Empty) \in CallType
    BY EmptyFacts DEF Call, CallType
  <2>2. call' \in [Calls -> CallType]
    BY <1>2, <1>a, <2>1 DEF Submit
  <2>3. queue' \in Seq(Calls)
    BY <1>2 DEF Submit
  <2> QED BY <1>2, <2>2, <2>3 DEF Submit, CallType
<1>3. ASSUME NEW c \in Calls, TurnRefused(c) PROVE TypeOK'
  BY <1>3 DEF TurnRefused
<1>4. ASSUME NEW c \in Calls, TurnAnswered(c) PROVE TypeOK'
  <2>1. call' \in [Calls -> CallType]
    <3> DEFINE sees == IF call[c].request.kind = "read" THEN index ELSE Empty
    <3>1. sees \in Images
      BY EmptyFacts
    <3>2. call' = [call EXCEPT ![c].status = "ok", ![c].shown = sees]
      BY <1>4 DEF TurnAnswered
    <3> HIDE DEF sees
    <3> QED BY <1>a, <3>1, <3>2 DEF CallType
  <2> QED BY <1>4, <2>1 DEF TurnAnswered, CallType
<1>5. ASSUME NEW c \in Calls, TurnWrites(c) PROVE TypeOK'
  <2>1. call[c].request \in Requests
    OBVIOUS
  <2>2. Assigned(index, call[c].request) \subseteq Seqs
    BY <1>5, <2>1, AppliedKeeps DEF TurnWrites
  <2>3. call' \in [Calls -> CallType]
    BY <1>5, <1>a DEF TurnWrites, CallType
  <2>4. queue' \in Seq(Calls)
    BY <1>5 DEF TurnWrites
  <2> QED BY <1>5, <2>2, <2>3, <2>4 DEF TurnWrites, CallType
<1>6. CASE Execute
  <2>1. running \in Calls /\ ran \in Nat /\ Count(Wanted) \in Nat
    BY <1>6, <1>c, <1>d, RequestFacts DEF Execute, Count
  <2>2. tx' = Partial(index, running, Wanted, ran + 1)
    BY <1>6, <1>d, <2>1, PartialStep DEF Execute, NextStatement
  <2>3. tx' \in Images
    BY <1>6, <1>d, <2>1, <2>2, PartialType DEF Execute
  <2> QED BY <1>6, <2>3 DEF Execute
<1>7. CASE Fail
  <2>1. call' \in [Calls -> CallType]
    BY <1>7, <1>a, <1>c DEF Fail, CallType
  <2>2. disk' \in Images /\ faults' \in Nat
    BY <1>7 DEF Fail
  <2> QED BY <1>7, <2>1, <2>2, EmptyFacts DEF Fail, CallType
<1>8. CASE Commit
  BY <1>8, EmptyFacts DEF Commit
<1>9. CASE CommitFails
  <2>1. call' \in [Calls -> CallType]
    BY <1>9, <1>a, <1>c DEF CommitFails, CallType
  <2>2. disk' \in Images /\ faults' \in Nat
    BY <1>9 DEF CommitFails
  <2> QED BY <1>9, <2>1, <2>2, EmptyFacts DEF CommitFails, CallType
<1>10. CASE Apply
  <2>1. running \in Calls /\ Wanted \in Requests /\ Admissible(index, Wanted) /\ Writes(index, Wanted)
    BY <1>10, <1>c DEF Apply, Turn
  <2>2. index' \in Images
    BY <1>10, <2>1, AppliedKeeps DEF Apply
  <2>3. call' \in [Calls -> CallType]
    BY <1>10, <1>a, <2>1 DEF Apply, CallType
  <2> QED BY <1>10, <2>2, <2>3 DEF Apply, CallType
<1>11. CASE Dispose
  BY <1>11 DEF Dispose
<1>12. CASE Close
  BY <1>12, EmptyFacts DEF Close
<1>13. CASE Crash
  <2>1. call' \in [Calls -> CallType]
    BY <1>13, <1>a DEF Crash, CallType
  <2>2. tx' \in Images /\ index' \in Images /\ disk' \in Images
    BY <1>13, EmptyFacts DEF Crash
  <2>3. queue' \in Seq(Calls) /\ batch' \subseteq Seqs /\ running' = Nobody /\ step' = "idle"
    BY <1>13 DEF Crash
  <2>4. phase' = "down" /\ failure' = FALSE /\ ran' = 0 /\ faults' \in Nat /\ closes' \in Nat
    BY <1>13 DEF Crash
  <2> QED BY <2>1, <2>2, <2>3, <2>4 DEF CallType
<1>14. CASE Open
  BY <1>14 DEF Open
<1> QED BY <1>1, <1>2, <1>3, <1>4, <1>5, <1>6, <1>7, <1>8, <1>9, <1>10, <1>11, <1>12, <1>13, <1>14 DEF Next

LEMMA TurnStep == TypeOK /\ Turn /\ Waiting /\ [Next]_vars => Turn'
<1> SUFFICES ASSUME TypeOK, Turn, Waiting, [Next]_vars PROVE Turn'
  OBVIOUS
<1> USE NobodyAssumption DEF TypeOK, Turn
<1>1. CASE UNCHANGED vars
  BY <1>1 DEF vars
<1>2. ASSUME NEW c \in Calls, NEW request \in Requests, Submit(c, request) PROVE Turn'
  <2>1. call' = [call EXCEPT ![c] = call'[c]] /\ call'[c].status \in {"queued", "failed"}
    BY <1>2 DEF Submit, Call
  <2>2. step # "idle" => running \in Calls /\ running # c
    BY <1>2 DEF Submit
  <2>3. step # "idle" => call'[running] = call[running]
    BY <2>1, <2>2
  <2> QED BY <1>2, <2>1, <2>2, <2>3 DEF Submit
<1>3. ASSUME NEW c \in Calls, TurnRefused(c) PROVE Turn'
  BY <1>3 DEF TurnRefused
<1>4. ASSUME NEW c \in Calls, TurnAnswered(c) PROVE Turn'
  BY <1>4 DEF TurnAnswered
<1>5. ASSUME NEW c \in Calls, TurnWrites(c) PROVE Turn'
  BY <1>5 DEF TurnWrites
<1>6. CASE Execute
  BY <1>6 DEF Execute
<1>7. CASE Fail
  BY <1>7 DEF Fail
<1>8. CASE Commit
  BY <1>8 DEF Commit
<1>9. CASE CommitFails
  BY <1>9 DEF CommitFails
<1>10. CASE Apply
  BY <1>10 DEF Apply
<1>11. CASE Dispose
  BY <1>11 DEF Dispose
<1>12. CASE Close
  BY <1>12 DEF Close
<1>13. CASE Crash
  BY <1>13 DEF Crash
<1>14. CASE Open
  BY <1>14 DEF Open
<1> QED BY <1>1, <1>2, <1>3, <1>4, <1>5, <1>6, <1>7, <1>8, <1>9, <1>10, <1>11, <1>12, <1>13, <1>14 DEF Next

LEMMA WaitingStep == TypeOK /\ Turn /\ Waiting /\ [Next]_vars => Waiting'
<1> SUFFICES ASSUME TypeOK, Turn, Waiting, [Next]_vars PROVE Waiting'
  OBVIOUS
<1> USE DEF TypeOK, Turn, Waiting
<1>1. CASE UNCHANGED vars
  BY <1>1 DEF vars
<1>2. ASSUME NEW c \in Calls, NEW request \in Requests, Submit(c, request) PROVE Waiting'
  <2>1. call' = [call EXCEPT ![c] = call'[c]] /\ call[c].status = "idle"
    BY <1>2 DEF Submit
  <2>2. \A i \in 1..Len(queue) : queue[i] \in Calls /\ queue[i] # c
    BY <2>1
  <2>3. CASE phase = "open" /\ ~failure
    <3>1. call'[c].status = "queued" /\ queue' = Append(queue, c)
      BY <1>2, <2>3 DEF Submit, Call
    <3>2. /\ Len(queue') = Len(queue) + 1
          /\ \A i \in 1..Len(queue) : queue'[i] = queue[i]
          /\ queue'[Len(queue) + 1] = c
      BY <3>1
    <3> QED BY <1>2, <2>1, <2>2, <2>3, <3>1, <3>2 DEF Submit
  <2>4. CASE ~(phase = "open" /\ ~failure)
    <3>1. queue' = queue /\ phase' = phase
      BY <1>2, <2>4 DEF Submit
    <3> QED BY <2>1, <2>2, <3>1
  <2> QED BY <2>3, <2>4
<1>3. ASSUME NEW c \in Calls, TurnRefused(c) PROVE Waiting'
  <2>1. c = queue[1] /\ Len(queue) >= 1 /\ queue' = Tail(queue) /\ phase' = phase
    BY <1>3 DEF TurnRefused
  <2>2. \A i \in 1..Len(queue') : queue'[i] = queue[i + 1] /\ i + 1 \in 1..Len(queue)
    BY <2>1
  <2>3. \A i \in 1..Len(queue') : queue'[i] \in Calls /\ queue'[i] # c
    BY <2>1, <2>2
  <2>4. \A d \in Calls \ {c} : call'[d] = call[d]
    BY <1>3 DEF TurnRefused
  <2>5. phase' \notin {"closed", "down"}
    BY <1>3 DEF TurnRefused
  <2>6. \A i \in 1..Len(queue') : call'[queue'[i]].status = "queued"
    BY <2>2, <2>3, <2>4
  <2>7. \A i, j \in 1..Len(queue') : queue'[i] = queue'[j] => i = j
    <3> SUFFICES ASSUME NEW i \in 1..Len(queue'), NEW j \in 1..Len(queue'), queue'[i] = queue'[j]
                 PROVE  i = j
      OBVIOUS
    <3>1. queue[i + 1] = queue[j + 1] /\ i + 1 \in 1..Len(queue) /\ j + 1 \in 1..Len(queue)
      BY <2>2
    <3>2. i + 1 = j + 1
      BY <3>1
    <3> QED BY <3>2
  <2> QED BY <2>5, <2>6, <2>7
<1>4. ASSUME NEW c \in Calls, TurnAnswered(c) PROVE Waiting'
  <2>1. c = queue[1] /\ Len(queue) >= 1 /\ queue' = Tail(queue) /\ phase' = phase
    BY <1>4 DEF TurnAnswered
  <2>2. \A i \in 1..Len(queue') : queue'[i] = queue[i + 1] /\ i + 1 \in 1..Len(queue)
    BY <2>1
  <2>3. \A i \in 1..Len(queue') : queue'[i] \in Calls /\ queue'[i] # c
    BY <2>1, <2>2
  <2>4. \A d \in Calls \ {c} : call'[d] = call[d]
    BY <1>4 DEF TurnAnswered
  <2>5. phase' \notin {"closed", "down"}
    BY <1>4 DEF TurnAnswered
  <2>6. \A i \in 1..Len(queue') : call'[queue'[i]].status = "queued"
    BY <2>2, <2>3, <2>4
  <2>7. \A i, j \in 1..Len(queue') : queue'[i] = queue'[j] => i = j
    <3> SUFFICES ASSUME NEW i \in 1..Len(queue'), NEW j \in 1..Len(queue'), queue'[i] = queue'[j]
                 PROVE  i = j
      OBVIOUS
    <3>1. queue[i + 1] = queue[j + 1] /\ i + 1 \in 1..Len(queue) /\ j + 1 \in 1..Len(queue)
      BY <2>2
    <3>2. i + 1 = j + 1
      BY <3>1
    <3> QED BY <3>2
  <2> QED BY <2>5, <2>6, <2>7
<1>5. ASSUME NEW c \in Calls, TurnWrites(c) PROVE Waiting'
  <2>1. c = queue[1] /\ Len(queue) >= 1 /\ queue' = Tail(queue) /\ phase' = phase
    BY <1>5 DEF TurnWrites
  <2>2. \A i \in 1..Len(queue') : queue'[i] = queue[i + 1] /\ i + 1 \in 1..Len(queue)
    BY <2>1
  <2>3. \A i \in 1..Len(queue') : queue'[i] \in Calls /\ queue'[i] # c
    BY <2>1, <2>2
  <2>4. \A d \in Calls \ {c} : call'[d] = call[d]
    BY <1>5 DEF TurnWrites
  <2>5. phase' \notin {"closed", "down"}
    BY <1>5 DEF TurnWrites
  <2>6. \A i \in 1..Len(queue') : call'[queue'[i]].status = "queued"
    BY <2>2, <2>3, <2>4
  <2>7. \A i, j \in 1..Len(queue') : queue'[i] = queue'[j] => i = j
    <3> SUFFICES ASSUME NEW i \in 1..Len(queue'), NEW j \in 1..Len(queue'), queue'[i] = queue'[j]
                 PROVE  i = j
      OBVIOUS
    <3>1. queue[i + 1] = queue[j + 1] /\ i + 1 \in 1..Len(queue) /\ j + 1 \in 1..Len(queue)
      BY <2>2
    <3>2. i + 1 = j + 1
      BY <3>1
    <3> QED BY <3>2
  <2> QED BY <2>5, <2>6, <2>7
<1>6. CASE Execute
  BY <1>6 DEF Execute
<1>7. CASE Fail
  BY <1>7 DEF Fail
<1>8. CASE Commit
  BY <1>8 DEF Commit
<1>9. CASE CommitFails
  BY <1>9 DEF CommitFails
<1>10. CASE Apply
  BY <1>10 DEF Apply
<1>11. CASE Dispose
  BY <1>11 DEF Dispose
<1>12. CASE Close
  BY <1>12 DEF Close
<1>13. CASE Crash
  BY <1>13 DEF Crash
<1>14. CASE Open
  BY <1>14 DEF Open
<1> QED BY <1>1, <1>2, <1>3, <1>4, <1>5, <1>6, <1>7, <1>8, <1>9, <1>10, <1>11, <1>12, <1>13, <1>14 DEF Next

(* The call whose turn it is, as the data lemmas need it.                   *)
LEMMA RunningFacts ==
    ASSUME TypeOK, Turn, Agree, step # "idle"
    PROVE  /\ running \in Calls /\ Wanted \in Requests
           /\ Admissible(index, Wanted) /\ Writes(index, Wanted)
           /\ index \in Images /\ disk \in Images
           /\ batch = Assigned(index, Wanted)
           /\ call[running].status = "running"
           /\ step = "writing" =>
                /\ disk = index
                /\ ran \in Nat /\ ran <= Count(Wanted)
                /\ tx = Partial(index, running, Wanted, ran)
                /\ AllRan => tx = Applied(index, running, Wanted)
           /\ step = "committed" => disk = Applied(index, running, Wanted)
<1>1. /\ running \in Calls /\ Wanted \in Requests
      /\ Admissible(index, Wanted) /\ Writes(index, Wanted)
      /\ index \in Images /\ disk \in Images
      /\ batch = Assigned(index, Wanted)
      /\ call[running].status = "running"
  BY DEF TypeOK, Turn
<1>2. step = "committed" => disk = Applied(index, running, Wanted)
  BY DEF Turn, Agree
<1>3. step = "writing" =>
        /\ disk = index
        /\ ran \in Nat /\ ran <= Count(Wanted)
        /\ tx = Partial(index, running, Wanted, ran)
  BY DEF Turn, Agree, TypeOK
<1>4. step = "writing" /\ AllRan => tx = Applied(index, running, Wanted)
  BY <1>1, <1>3, PartialEnds
<1> QED BY <1>1, <1>2, <1>3, <1>4

LEMMA AgreeStep == TypeOK /\ Turn /\ Waiting /\ Agree /\ [Next]_vars => Agree'
<1> SUFFICES ASSUME TypeOK, Turn, Waiting, Agree, [Next]_vars PROVE Agree'
  OBVIOUS
<1> USE DEF Agree
<1>1. CASE UNCHANGED vars
  BY <1>1 DEF vars
<1>2. ASSUME NEW c \in Calls, NEW request \in Requests, Submit(c, request) PROVE Agree'
  <2>1. call' = [call EXCEPT ![c] = call'[c]] /\ call[c].status = "idle"
    BY <1>2 DEF Submit
  <2>2. step # "idle" => Wanted' = Wanted
    BY <1>2, <2>1, RunningFacts DEF Submit, TypeOK
  <2> QED BY <1>2, <2>2 DEF Submit, Turn, TypeOK, Steps
<1>3. ASSUME NEW c \in Calls, TurnRefused(c) PROVE Agree'
  <2>1. step = "idle" /\ UNCHANGED <<disk, index, phase, failure, step, running>>
    BY <1>3 DEF TurnRefused, Turn
  <2> QED BY <2>1
<1>4. ASSUME NEW c \in Calls, TurnAnswered(c) PROVE Agree'
  <2>1. step = "idle" /\ UNCHANGED <<disk, index, phase, failure, step, running>>
    BY <1>4 DEF TurnAnswered, Turn
  <2> QED BY <2>1
<1>5. ASSUME NEW c \in Calls, TurnWrites(c) PROVE Agree'
  <2>1. step = "idle" /\ disk = index /\ index \in Images
    BY <1>5 DEF TurnWrites, Turn, TypeOK
  <2>2. Wanted' = call[c].request /\ call[c].request \in Requests
    BY <1>5 DEF TurnWrites, TypeOK
  <2>3. /\ step' = "writing" /\ running' = c /\ ran' = 0 /\ tx' = disk
        /\ UNCHANGED <<disk, index, phase, failure>>
        /\ Admissible(index, call[c].request) /\ Writes(index, call[c].request)
    BY <1>5 DEF TurnWrites
  <2>4. tx' = Partial(index, c, call[c].request, 0)
    BY <2>1, <2>2, <2>3, PartialEnds
  <2>5. 0 <= Count(call[c].request)
    BY <2>2, RequestFacts DEF Count
  <2> QED BY <2>1, <2>2, <2>3, <2>4, <2>5
<1>6. CASE Execute
  <2>1. step = "writing" /\ ran' = ran + 1 /\ ~AllRan /\ tx' = Executed(tx, NextStatement)
        /\ UNCHANGED <<disk, index, phase, failure, running, step, call>>
    BY <1>6 DEF Execute
  <2>2. Count(Wanted) \in Nat
    BY <2>1, RunningFacts, RequestFacts DEF Count
  <2>3. tx' = Partial(index, running, Wanted, ran + 1)
    BY <2>1, <2>2, RunningFacts, PartialStep DEF NextStatement
  <2>4. ran' <= Count(Wanted)
    BY <2>1, <2>2, RunningFacts
  <2> QED BY <2>1, <2>3, <2>4
<1>7. CASE Fail
  BY <1>7 DEF Fail
<1>8. CASE Commit
  <2>1. /\ step = "writing" /\ step' = "committed" /\ AllRan /\ disk' = tx
        /\ UNCHANGED <<index, phase, failure, running, call>>
    BY <1>8 DEF Commit
  <2>2. disk' = Applied(index, running, Wanted)
    BY <2>1, RunningFacts
  <2> QED BY <2>1, <2>2
<1>9. CASE CommitFails
  BY <1>9 DEF CommitFails
<1>10. CASE Apply
  BY <1>10 DEF Apply
<1>11. CASE Dispose
  BY <1>11 DEF Dispose
<1>12. CASE Close
  <2>1. step = "idle" /\ phase' = "closed" /\ step' = step
    BY <1>12 DEF Close, Turn
  <2> QED BY <2>1
<1>13. CASE Crash
  BY <1>13 DEF Crash
<1>14. CASE Open
  <2>1. step = "idle" /\ index' = disk /\ disk' = disk /\ step' = step
    BY <1>14 DEF Open, Turn
  <2> QED BY <2>1
<1> QED BY <1>1, <1>2, <1>3, <1>4, <1>5, <1>6, <1>7, <1>8, <1>9, <1>10, <1>11, <1>12, <1>13, <1>14 DEF Next

LEMMA HandedOutStep == TypeOK /\ Turn /\ Waiting /\ Agree /\ HandedOut /\ Recoverable /\ AcknowledgedSurvive /\ [Next]_vars => HandedOut'
<1> SUFFICES ASSUME TypeOK, Turn, Waiting, Agree, HandedOut, Recoverable, AcknowledgedSurvive, [Next]_vars PROVE HandedOut'
  OBVIOUS
<1> USE DEF HandedOut
<1>1. CASE UNCHANGED vars
  BY <1>1 DEF vars
<1>2. ASSUME NEW c \in Calls, NEW request \in Requests, Submit(c, request) PROVE HandedOut'
  <2>1. /\ call[c].status = "idle" /\ call'[c].seqs = {}
        /\ \A d \in Calls \ {c} : call'[d] = call[d]
        /\ UNCHANGED <<disk, index, step>>
    BY <1>2 DEF Submit, Call, TypeOK
  <2> QED BY <2>1
<1>3. ASSUME NEW c \in Calls, TurnRefused(c) PROVE HandedOut'
  <2>1. /\ call[c].status = "queued" /\ call'[c].seqs = call[c].seqs
        /\ \A d \in Calls \ {c} : call'[d] = call[d]
        /\ UNCHANGED <<disk, index>> /\ step' # "committed"
    BY <1>3 DEF TurnRefused, TypeOK, Waiting, Turn
  <2> QED BY <2>1
<1>4. ASSUME NEW c \in Calls, TurnAnswered(c) PROVE HandedOut'
  <2>1. /\ call[c].status = "queued" /\ call'[c].seqs = call[c].seqs
        /\ \A d \in Calls \ {c} : call'[d] = call[d]
        /\ UNCHANGED <<disk, index>> /\ step' # "committed"
    <3>1. call[c].status = "queued"
      BY <1>4 DEF TurnAnswered, Waiting
    <3>2. UNCHANGED <<disk, index>> /\ step' = "idle"
      BY <1>4 DEF TurnAnswered, Turn
    <3>3. call'[c].seqs = call[c].seqs /\ \A d \in Calls \ {c} : call'[d] = call[d]
      BY <1>4 DEF TurnAnswered, TypeOK
    <3> QED BY <3>1, <3>2, <3>3
  <2> QED BY <2>1
<1>5. ASSUME NEW c \in Calls, TurnWrites(c) PROVE HandedOut'
  <2>1. /\ call[c].status = "queued" /\ call'[c].seqs = call[c].seqs
        /\ \A d \in Calls \ {c} : call'[d] = call[d]
        /\ UNCHANGED <<disk, index>> /\ step' # "committed"
    BY <1>5 DEF TurnWrites, TypeOK, Waiting, Turn
  <2> QED BY <2>1
<1>6. CASE Execute
  BY <1>6 DEF Execute
<1>7. CASE Fail
  <2>1. /\ running \in Calls /\ call[running].status = "running"
    BY <1>7, RunningFacts DEF Fail
  <2>2. /\ call'[running].seqs = call[running].seqs
        /\ \A d \in Calls \ {running} : call'[d] = call[d]
        /\ UNCHANGED disk /\ step' = "idle"
    BY <1>7, <2>1 DEF Fail, TypeOK
  <2> QED BY <2>1, <2>2
<1>8. CASE Commit
  <2>1. /\ step = "writing" /\ AllRan /\ disk' = tx /\ UNCHANGED <<index, call>>
    BY <1>8 DEF Commit
  <2>2. disk = index /\ disk.last <= disk'.last
    BY <2>1, RunningFacts, AppliedKeeps
  <2>3. \A c \in Calls : \A s \in call[c].seqs : s \in Nat /\ s <= disk.last
    BY DEF TypeOK, Seqs
  <2>4. disk.last \in Nat /\ disk'.last \in Nat
    BY <2>1, RunningFacts, AppliedKeeps, ImageFacts
  <2>5. \A c \in Calls : \A s \in call'[c].seqs : s <= disk'.last /\ s <= index'.last
    BY <2>1, <2>2, <2>3, <2>4
  <2> QED BY <2>1, <2>5
<1>9. CASE CommitFails
  <2>1. /\ step = "writing" /\ AllRan /\ disk' \in {disk, tx} /\ step' = "idle"
    BY <1>9 DEF CommitFails
  <2>2. disk.last <= disk'.last /\ disk.last \in Nat /\ disk'.last \in Nat
    BY <2>1, RunningFacts, AppliedKeeps, ImageFacts
  <2>3. /\ running \in Calls /\ call[running].status = "running"
    BY <2>1, RunningFacts
  <2>4. /\ call'[running].seqs = call[running].seqs
        /\ \A d \in Calls \ {running} : call'[d] = call[d]
    BY <1>9, <2>3 DEF CommitFails, TypeOK
  <2>5. \A c \in Calls : \A s \in call[c].seqs : s \in Nat /\ s <= disk.last
    BY DEF TypeOK, Seqs
  <2>6. \A c \in Calls : \A s \in call'[c].seqs : s <= disk'.last
    BY <2>2, <2>4, <2>5
  <2> QED BY <2>1, <2>3, <2>4, <2>6
<1>10. CASE Apply
  <2>1. /\ step = "committed" /\ running \in Calls /\ UNCHANGED disk /\ step' = "idle"
        /\ disk = Applied(index, running, Wanted) /\ batch = Assigned(index, Wanted)
    BY <1>10, RunningFacts DEF Apply
  <2>2. /\ call'[running].seqs = batch /\ call'[running].status = "ok"
        /\ \A d \in Calls \ {running} : call'[d] = call[d]
    BY <1>10, <2>1 DEF Apply, TypeOK
  <2>3. \A s \in batch : s <= disk.last
    BY <1>10, <2>1, RunningFacts, AppliedRows DEF Apply
  <2> QED BY <2>1, <2>2, <2>3
<1>11. CASE Dispose
  BY <1>11 DEF Dispose
<1>12. CASE Close
  <2>1. step' = "idle" /\ UNCHANGED <<disk, call>>
    BY <1>12 DEF Close, Turn
  <2> QED BY <2>1
<1>13. CASE Crash
  BY <1>13 DEF Crash
<1>14. CASE Open
  BY <1>14 DEF Open
<1> QED BY <1>1, <1>2, <1>3, <1>4, <1>5, <1>6, <1>7, <1>8, <1>9, <1>10, <1>11, <1>12, <1>13, <1>14 DEF Next

LEMMA RecoverableStep == TypeOK /\ Turn /\ Waiting /\ Agree /\ HandedOut /\ Recoverable /\ AcknowledgedSurvive /\ [Next]_vars => Recoverable'
<1> SUFFICES ASSUME TypeOK, Turn, Waiting, Agree, HandedOut, Recoverable, AcknowledgedSurvive, [Next]_vars PROVE Recoverable'
  OBVIOUS
<1> USE DEF Recoverable
<1>1. CASE UNCHANGED vars
  BY <1>1 DEF vars
<1>2. ASSUME NEW c \in Calls, NEW request \in Requests, Submit(c, request) PROVE Recoverable'
  BY <1>2 DEF Submit
<1>3. ASSUME NEW c \in Calls, TurnRefused(c) PROVE Recoverable'
  BY <1>3 DEF TurnRefused
<1>4. ASSUME NEW c \in Calls, TurnAnswered(c) PROVE Recoverable'
  BY <1>4 DEF TurnAnswered
<1>5. ASSUME NEW c \in Calls, TurnWrites(c) PROVE Recoverable'
  BY <1>5 DEF TurnWrites
<1>6. CASE Execute
  BY <1>6 DEF Execute
<1>7. CASE Fail
  BY <1>7 DEF Fail
<1>8. CASE Commit
  <2>1. step = "writing" /\ AllRan /\ disk' = tx
    BY <1>8 DEF Commit
  <2> QED BY <2>1, RunningFacts, AppliedKeeps
<1>9. CASE CommitFails
  <2>1. step = "writing" /\ AllRan /\ disk' \in {disk, tx}
    BY <1>9 DEF CommitFails
  <2> QED BY <2>1, RunningFacts, AppliedKeeps
<1>10. CASE Apply
  BY <1>10 DEF Apply
<1>11. CASE Dispose
  BY <1>11 DEF Dispose
<1>12. CASE Close
  BY <1>12 DEF Close
<1>13. CASE Crash
  BY <1>13 DEF Crash
<1>14. CASE Open
  BY <1>14 DEF Open
<1> QED BY <1>1, <1>2, <1>3, <1>4, <1>5, <1>6, <1>7, <1>8, <1>9, <1>10, <1>11, <1>12, <1>13, <1>14 DEF Next

(* A commit takes no acknowledged record away.                              *)
LEMMA SurvivesWrite ==
    ASSUME TypeOK, Turn, Agree, HandedOut, AcknowledgedSurvive, step = "writing", AllRan
    PROVE  \A c \in Calls : call[c].status = "ok" => \A s \in call[c].seqs :
             /\ s < disk.floor \/ (disk.rows[s] # Absent /\ disk.rows[s].by = c)
             /\ s < tx.floor \/ (tx.rows[s] # Absent /\ tx.rows[s].by = c)
<1> SUFFICES ASSUME NEW c \in Calls, call[c].status = "ok", NEW s \in call[c].seqs
             PROVE  /\ s < disk.floor \/ (disk.rows[s] # Absent /\ disk.rows[s].by = c)
                    /\ s < tx.floor \/ (tx.rows[s] # Absent /\ tx.rows[s].by = c)
  OBVIOUS
<1>1. s < disk.floor \/ (disk.rows[s] # Absent /\ disk.rows[s].by = c)
  BY DEF AcknowledgedSurvive
<1>2. /\ disk = index /\ tx = Applied(index, running, Wanted)
      /\ index \in Images /\ running \in Calls /\ Wanted \in Requests
      /\ Admissible(index, Wanted) /\ Writes(index, Wanted)
  BY RunningFacts
<1>3. s \in 1..index.last
  BY <1>2, ImageFacts, SizeAssumption DEF HandedOut, TypeOK, Seqs
<1>4. tx \in Images /\ index.floor <= tx.floor
  BY <1>2, AppliedKeeps, AppliedRows
<1>5. index.floor \in Nat /\ tx.floor \in Nat
  BY <1>2, <1>4, ImageFacts, SizeAssumption
<1>6. index.rows[s] # Absent =>
        s < tx.floor \/ (tx.rows[s] # Absent /\ tx.rows[s].by = index.rows[s].by)
  BY <1>2, <1>3, AppliedRows
<1> QED BY <1>1, <1>2, <1>3, <1>4, <1>5, <1>6

LEMMA SurviveStep == TypeOK /\ Turn /\ Waiting /\ Agree /\ HandedOut /\ Recoverable /\ AcknowledgedSurvive /\ [Next]_vars => AcknowledgedSurvive'
<1> SUFFICES ASSUME TypeOK, Turn, Waiting, Agree, HandedOut, Recoverable, AcknowledgedSurvive, [Next]_vars PROVE AcknowledgedSurvive'
  OBVIOUS
<1> USE DEF AcknowledgedSurvive
<1>1. CASE UNCHANGED vars
  BY <1>1 DEF vars
<1>2. ASSUME NEW c \in Calls, NEW request \in Requests, Submit(c, request) PROVE AcknowledgedSurvive'
  <2>1. /\ call[c].status = "idle" /\ call'[c].seqs = {} /\ call'[c].status # "ok"
        /\ \A d \in Calls \ {c} : call'[d] = call[d]
        /\ UNCHANGED disk
    BY <1>2 DEF Submit, Call, TypeOK
  <2> QED BY <2>1 DEF HandedOut
<1>3. ASSUME NEW c \in Calls, TurnRefused(c) PROVE AcknowledgedSurvive'
  <2>1. /\ call[c].status = "queued" /\ call'[c].seqs = call[c].seqs
        /\ \A d \in Calls \ {c} : call'[d] = call[d]
        /\ UNCHANGED disk
    BY <1>3 DEF TurnRefused, TypeOK, Waiting
  <2> QED BY <2>1 DEF HandedOut
<1>4. ASSUME NEW c \in Calls, TurnAnswered(c) PROVE AcknowledgedSurvive'
  <2>1. /\ call[c].status = "queued" /\ call'[c].seqs = call[c].seqs
        /\ \A d \in Calls \ {c} : call'[d] = call[d]
        /\ UNCHANGED disk
    BY <1>4 DEF TurnAnswered, TypeOK, Waiting
  <2> QED BY <2>1 DEF HandedOut
<1>5. ASSUME NEW c \in Calls, TurnWrites(c) PROVE AcknowledgedSurvive'
  <2>1. /\ call[c].status = "queued" /\ call'[c].seqs = call[c].seqs
        /\ \A d \in Calls \ {c} : call'[d] = call[d]
        /\ UNCHANGED disk
    BY <1>5 DEF TurnWrites, TypeOK, Waiting
  <2> QED BY <2>1 DEF HandedOut
<1>6. CASE Execute
  BY <1>6 DEF Execute
<1>7. CASE Fail
  BY <1>7 DEF Fail
<1>8. CASE Commit
  <2>1. /\ step = "writing" /\ AllRan /\ disk' = tx /\ UNCHANGED call
    BY <1>8 DEF Commit
  <2> QED BY <2>1, SurvivesWrite
<1>9. CASE CommitFails
  <2>1. /\ step = "writing" /\ AllRan /\ disk' \in {disk, tx}
    BY <1>9 DEF CommitFails
  <2>2. /\ running \in Calls /\ call[running].status = "running"
    BY <2>1, RunningFacts
  <2>3. /\ call'[running].seqs = call[running].seqs /\ call'[running].status = "failed"
        /\ \A d \in Calls \ {running} : call'[d] = call[d]
    BY <1>9, <2>2 DEF CommitFails, TypeOK
  <2>4. call[running].seqs = {}
    BY <2>2 DEF HandedOut
  <2>5. \A c \in Calls : call[c].status = "ok" => \A s \in call[c].seqs :
          s < disk'.floor \/ (disk'.rows[s] # Absent /\ disk'.rows[s].by = c)
    BY <2>1, SurvivesWrite
  <2> QED BY <2>2, <2>3, <2>4, <2>5
<1>10. CASE Apply
  <2>1. /\ step = "committed" /\ running \in Calls /\ UNCHANGED disk
        /\ disk = Applied(index, running, Wanted) /\ batch = Assigned(index, Wanted)
        /\ index.last \in Nat
    BY <1>10, RunningFacts, ImageFacts DEF Apply
  <2>2. /\ call'[running].seqs = batch /\ call'[running].status = "ok"
        /\ \A d \in Calls \ {running} : call'[d] = call[d]
    BY <1>10, <2>1 DEF Apply, TypeOK
  <2>3. batch \subseteq Seqs
    BY DEF TypeOK
  <2>4. \A s \in batch : s > index.last /\ disk.rows[s] # Absent /\ disk.rows[s].by = running
    BY <1>10, <2>1, RunningFacts, AppliedRows DEF Apply
  <2>5. \A d \in Calls : \A s \in call[d].seqs : s \in Seqs /\ s <= index.last
    BY <2>1 DEF HandedOut, TypeOK
  <2>6. \A d \in Calls : \A s \in call[d].seqs : s \notin batch
    BY <2>1, <2>3, <2>4, <2>5 DEF Seqs
  <2> QED BY <2>1, <2>2, <2>4, <2>6
<1>11. CASE Dispose
  BY <1>11 DEF Dispose
<1>12. CASE Close
  BY <1>12 DEF Close
<1>13. CASE Crash
  BY <1>13 DEF Crash
<1>14. CASE Open
  BY <1>14 DEF Open
<1> QED BY <1>1, <1>2, <1>3, <1>4, <1>5, <1>6, <1>7, <1>8, <1>9, <1>10, <1>11, <1>12, <1>13, <1>14 DEF Next

LEMMA Inductive == IInv /\ [Next]_vars => IInv'
BY TypeStep, TurnStep, WaitingStep, AgreeStep, HandedOutStep, RecoverableStep, SurviveStep DEF IInv

LEMMA Invariant == Spec => []IInv
<1>1. Init => IInv
  BY InitHolds
<1>2. IInv /\ [Next]_vars => IInv'
  BY Inductive
<1> QED BY <1>1, <1>2, PTL DEF Spec

(* Whatever was cut short, the file holds exactly the records its head and  *)
(* floor promise: fileLogStore never finds it corrupt.                      *)
THEOREM AlwaysRecoverable == Spec => []Recoverable
<1>1. IInv => Recoverable
  BY DEF IInv
<1> QED BY <1>1, Invariant, PTL

(* An append that was answered stays in the file until it is truncated, and *)
(* its sequences are never assigned again.                                  *)
THEOREM AcknowledgedStay == Spec => []AcknowledgedSurvive
<1>1. IInv => AcknowledgedSurvive
  BY DEF IInv
<1> QED BY <1>1, Invariant, PTL

-----------------------------------------------------------------------------
(* The view of one call.                                                    *)
LEMMA ViewFacts ==
    ASSUME TypeOK, Turn, NEW c \in Calls
    PROVE  /\ DOMAIN View = Calls
           /\ call[c].status = "queued" => View[c] = [call[c] EXCEPT !.status = "pending"]
           /\ call[c].status = "running" /\ step = "writing" =>
                View[c] = [call[c] EXCEPT !.status = "pending"]
           /\ call[c].status = "running" /\ step = "committed" =>
                View[c] = [call[c] EXCEPT !.status = "done", !.seqs = batch]
           /\ call[c].status \notin {"queued", "running"} => View[c] = call[c]
BY DEF View

(* CommittedLog has its own copy of LogImage; the two are the same.         *)
LEMMA SameImages ==
    /\ Promise!Requests = Requests
    /\ Promise!Empty = Empty
    /\ Promise!Unmade = Unmade
    /\ \A st, r, q, i : Promise!Call(st, r, q, i) = Call(st, r, q, i)
    /\ \A i, r : Promise!Admissible(i, r) <=> Admissible(i, r)
    /\ \A i, r : Promise!Writes(i, r) <=> Writes(i, r)
    /\ \A i, r : Promise!Assigned(i, r) = Assigned(i, r)
    /\ \A i, c, r : Promise!Applied(i, c, r) = Applied(i, c, r)
<1>1. Promise!Requests = Requests
  BY DEF Promise!Requests, Requests, Promise!Request, Request
<1>2. Promise!Empty = Empty
  BY DEF Promise!Empty, Empty, Promise!Seqs, Seqs
<1>3. \A st, r, q, i : Promise!Call(st, r, q, i) = Call(st, r, q, i)
  BY DEF Promise!Call, Call
<1>4. Promise!Unmade = Unmade
  BY <1>2, <1>3 DEF Promise!Unmade, Unmade, Promise!Request, Request
<1>5. \A i, r : Promise!Admissible(i, r) <=> Admissible(i, r)
  BY DEF Promise!Admissible, Admissible, Promise!Seqs, Seqs
<1>6. \A i, r : Promise!Writes(i, r) <=> Writes(i, r)
  BY DEF Promise!Writes, Writes
<1>7. \A i, r : Promise!Assigned(i, r) = Assigned(i, r)
  BY DEF Promise!Assigned, Assigned
<1>8. \A i, c, r : Promise!Applied(i, c, r) = Applied(i, c, r)
  <2> TAKE i, c, r
  <2>1. Promise!Seqs = Seqs /\ Promise!Assigned(i, r) = Assigned(i, r)
    BY <1>7 DEF Promise!Seqs, Seqs
  <2>2. CASE r.kind = "append"
    BY <2>1, <2>2 DEF Promise!Applied, Applied
  <2>3. CASE r.kind = "truncate"
    BY <2>1, <2>3 DEF Promise!Applied, Applied
  <2>4. CASE r.kind = "read"
    BY <2>4 DEF Promise!Applied, Applied
  <2>5. CASE r.kind \notin {"append", "truncate", "read"}
    BY <2>5 DEF Promise!Applied, Applied
  <2> QED BY <2>2, <2>3, <2>4, <2>5
<1> QED BY <1>1, <1>2, <1>3, <1>4, <1>5, <1>6, <1>7, <1>8

LEMMA InitRefines == Init => Promise!Init
<1> SUFFICES ASSUME Init PROVE Promise!Init
  OBVIOUS
<1>1. \A c \in Calls : call[c] = Unmade /\ call[c].status = "idle"
  BY UnmadeType DEF Init
<1>2. View = [c \in Calls |-> Unmade]
  BY <1>1 DEF View
<1> QED BY <1>2, SameImages DEF Init, Promise!Init

(* A step that changes neither the file nor any view of a call.             *)
LEMMA Stutters ==
    ASSUME disk' = disk, View' = View
    PROVE  [Promise!Next]_(Promise!logVars)
BY DEF Promise!logVars

(* A step that changes the view of one call only.                           *)
LEMMA OneView ==
    ASSUME NEW c \in Calls, NEW v,
           \A d \in Calls \ {c} : View'[d] = View[d],
           View'[c] = v
    PROVE  View' = [View EXCEPT ![c] = v]
BY DEF View

LEMMA StepRefines == IInv /\ IInv' /\ [Next]_vars => [Promise!Next]_(Promise!logVars)
<1> SUFFICES ASSUME IInv, IInv', [Next]_vars PROVE [Promise!Next]_(Promise!logVars)
  OBVIOUS
<1>a. TypeOK /\ Turn /\ Waiting /\ Agree /\ HandedOut
  BY DEF IInv
<1>b. TypeOK' /\ Turn' /\ Waiting'
  BY DEF IInv
<1>c. /\ View = [d \in Calls |-> View[d]] /\ View' = [d \in Calls |-> View'[d]]
  BY DEF View
<1>1. CASE UNCHANGED vars
  BY <1>1, Stutters DEF vars, View
<1>2. ASSUME NEW c \in Calls, NEW request \in Requests, Submit(c, request)
      PROVE  Promise!Next
  <2>1. PICK st \in {"queued", "failed"} : call' = [call EXCEPT ![c] = Call(st, request, {}, Empty)]
    BY <1>2 DEF Submit
  <2>2. call[c].status = "idle" /\ UNCHANGED <<disk, step, batch>>
    BY <1>2 DEF Submit
  <2>3. View[c] = call[c]
    BY <2>2 DEF View
  <2>4. View'[c] = Call(IF st = "queued" THEN "pending" ELSE st, request, {}, Empty)
    BY <1>a, <2>1 DEF View, Call, TypeOK
  <2>5. \A d \in Calls \ {c} : View'[d] = View[d]
    BY <1>a, <2>1, <2>2 DEF View, TypeOK
  <2>6. View' = [View EXCEPT ![c] = Call(IF st = "queued" THEN "pending" ELSE st, request, {}, Empty)]
    BY <1>c, <2>4, <2>5
  <2>7. Promise!Invoke(c)
    BY <2>2, <2>3, <2>6, SameImages DEF Promise!Invoke, Promise!Is
  <2> QED BY <2>7 DEF Promise!Next
<1>3. ASSUME NEW c \in Calls, TurnRefused(c) PROVE Promise!Next
  <2>1. call[c].status = "queued" /\ call' = [call EXCEPT ![c].status = "failed"]
        /\ UNCHANGED <<disk, step, batch>>
    BY <1>3, <1>a DEF TurnRefused, Waiting
  <2>2. View[c] = [call[c] EXCEPT !.status = "pending"]
    BY <2>1 DEF View
  <2>3. View'[c] = [View[c] EXCEPT !.status = "failed"]
    BY <1>a, <2>1, <2>2 DEF View, TypeOK
  <2>4. \A d \in Calls \ {c} : View'[d] = View[d]
    BY <1>a, <2>1 DEF View, TypeOK
  <2>5. View' = [View EXCEPT ![c].status = "failed"]
    BY <1>c, <2>3, <2>4
  <2>6. Promise!Refuse(c)
    BY <1>a, <2>1, <2>2, <2>5 DEF Promise!Refuse, Promise!Is, Promise!Becomes, TypeOK
  <2> QED BY <2>6 DEF Promise!Next
<1>4. ASSUME NEW c \in Calls, TurnAnswered(c) PROVE Promise!Next
  <2> DEFINE sees == IF call[c].request.kind = "read" THEN index ELSE Empty
  <2>1. call[c].status = "queued" /\ UNCHANGED <<disk, step, batch>>
        /\ Admissible(index, call[c].request) /\ ~Writes(index, call[c].request)
    BY <1>4, <1>a DEF TurnAnswered, Waiting
  <2>2. call' = [call EXCEPT ![c].status = "ok", ![c].shown = sees]
    BY <1>4 DEF TurnAnswered
  <2>3. disk = index
    BY <1>4, <1>a DEF TurnAnswered, Turn, Agree
  <2>4. View[c] = [call[c] EXCEPT !.status = "pending"]
    BY <2>1 DEF View
  <2> HIDE DEF sees
  <2>5. View'[c] = [View[c] EXCEPT !.status = "ok", !.shown = sees]
    <3>1. call'[c] = [call[c] EXCEPT !.status = "ok", !.shown = sees]
      BY <1>a, <2>2 DEF TypeOK
    <3>2. call'[c].status = "ok"
      BY <1>a, <3>1 DEF TypeOK
    <3>3. View'[c] = call'[c]
      BY <3>2 DEF View
    <3> QED BY <1>a, <2>4, <3>1, <3>3 DEF TypeOK
  <2>6. \A d \in Calls \ {c} : View'[d] = View[d]
    BY <1>a, <2>1, <2>2 DEF View, TypeOK
  <2>7. View' = [View EXCEPT ![c].status = "ok", ![c].shown = sees]
    BY <1>c, <2>5, <2>6
  <2>8. View[c].status = "pending" /\ View[c].request = call[c].request
    BY <1>a, <2>4 DEF TypeOK
  <2>9. sees = IF View[c].request.kind = "read" THEN disk ELSE Empty
    BY <2>3, <2>8 DEF sees
  <2>10. Promise!Look(c)
    BY <2>1, <2>3, <2>7, <2>8, <2>9, SameImages DEF Promise!Look, Promise!Is
  <2> QED BY <2>10 DEF Promise!Next
<1>5. ASSUME NEW c \in Calls, TurnWrites(c) PROVE [Promise!Next]_(Promise!logVars)
  <2>1. call[c].status = "queued" /\ call' = [call EXCEPT ![c].status = "running"]
        /\ UNCHANGED disk /\ step = "idle" /\ step' = "writing"
    BY <1>5, <1>a DEF TurnWrites, Waiting, Turn
  <2>2. \A d \in Calls : call[d].status # "running"
    BY <1>5, <1>a, NobodyAssumption DEF TurnWrites, Turn
  <2>3. View'[c] = View[c]
    BY <1>a, <2>1 DEF View, TypeOK
  <2>4. \A d \in Calls \ {c} : View'[d] = View[d]
    BY <1>a, <2>1, <2>2 DEF View, TypeOK
  <2>5. View' = View
    BY <1>c, <2>3, <2>4
  <2> QED BY <2>1, <2>5, Stutters
<1>6. CASE Execute
  BY <1>6, Stutters DEF Execute, View
<1>7. CASE Fail
  <2>1. running \in Calls /\ call[running].status = "running" /\ step = "writing"
    BY <1>7, <1>a, RunningFacts DEF Fail
  <2>2. call' = [call EXCEPT ![running].status = "failed"] /\ UNCHANGED disk
    BY <1>7 DEF Fail
  <2>3. View[running] = [call[running] EXCEPT !.status = "pending"]
    BY <2>1 DEF View
  <2>4. View'[running] = [View[running] EXCEPT !.status = "failed"]
    BY <1>a, <2>1, <2>2, <2>3 DEF View, TypeOK
  <2>5. \A d \in Calls \ {running} : View'[d] = View[d]
    BY <1>a, <2>1, <2>2 DEF View, TypeOK, Turn
  <2>6. View' = [View EXCEPT ![running].status = "failed"]
    BY <1>c, <2>4, <2>5
  <2>7. Promise!Refuse(running)
    BY <1>a, <2>1, <2>2, <2>3, <2>6 DEF Promise!Refuse, Promise!Is, Promise!Becomes, TypeOK
  <2> QED BY <2>1, <2>7 DEF Promise!Next
<1>8. CASE Commit
  <2>1. /\ step = "writing" /\ AllRan /\ disk' = tx /\ step' = "committed"
        /\ UNCHANGED <<call, running, batch>>
    BY <1>8 DEF Commit
  <2>2. /\ running \in Calls /\ call[running].status = "running"
        /\ disk = index /\ disk' = Applied(disk, running, Wanted)
        /\ Admissible(disk, Wanted) /\ Writes(disk, Wanted) /\ batch = Assigned(disk, Wanted)
    BY <1>a, <2>1, RunningFacts
  <2>3. View[running] = [call[running] EXCEPT !.status = "pending"]
    BY <2>1, <2>2 DEF View
  <2>4. View[running].status = "pending" /\ View[running].request = Wanted
    BY <1>a, <2>2, <2>3 DEF TypeOK
  <2>5. View'[running] = [View[running] EXCEPT !.status = "done", !.seqs = batch]
    BY <1>a, <2>1, <2>2, <2>3 DEF View, TypeOK
  <2>6. \A d \in Calls \ {running} : View'[d] = View[d]
    BY <1>a, <2>1, <2>2 DEF View, Turn
  <2>7. View' = [View EXCEPT ![running].status = "done", ![running].seqs = batch]
    BY <1>c, <2>5, <2>6
  <2>8. Promise!TakeEffect(running)
    BY <2>2, <2>4, <2>7, SameImages DEF Promise!TakeEffect, Promise!Effect, Promise!Is
  <2> QED BY <2>2, <2>8 DEF Promise!Next
<1>9. CASE CommitFails
  <2>1. /\ step = "writing" /\ AllRan /\ disk' \in {disk, tx}
        /\ call' = [call EXCEPT ![running].status = "failed"]
    BY <1>9 DEF CommitFails
  <2>2. /\ running \in Calls /\ call[running].status = "running"
        /\ disk = index /\ tx = Applied(disk, running, Wanted)
        /\ Admissible(disk, Wanted) /\ Writes(disk, Wanted)
    BY <1>a, <2>1, RunningFacts
  <2>3. View[running] = [call[running] EXCEPT !.status = "pending"]
    BY <2>1, <2>2 DEF View
  <2>4. View[running].status = "pending" /\ View[running].request = Wanted
    BY <1>a, <2>2, <2>3 DEF TypeOK
  <2>5. View'[running] = [View[running] EXCEPT !.status = "failed"]
    BY <1>a, <2>1, <2>2, <2>3 DEF View, TypeOK
  <2>6. \A d \in Calls \ {running} : View'[d] = View[d]
    BY <1>a, <2>1, <2>2 DEF View, Turn, TypeOK
  <2>7. View' = [View EXCEPT ![running].status = "failed"]
    BY <1>c, <2>5, <2>6
  <2>8. Promise!Doubt(running) \/ Promise!Refuse(running)
    BY <2>1, <2>2, <2>4, <2>7, SameImages
       DEF Promise!Doubt, Promise!Refuse, Promise!Effect, Promise!Is, Promise!Becomes
  <2> QED BY <2>2, <2>8 DEF Promise!Next
<1>10. CASE Apply
  <2>1. /\ step = "committed" /\ UNCHANGED disk
        /\ call' = [call EXCEPT ![running].status = "ok", ![running].seqs = batch]
    BY <1>10 DEF Apply
  <2>2. running \in Calls /\ call[running].status = "running"
    BY <1>a, <2>1, RunningFacts
  <2>3. View[running] = [call[running] EXCEPT !.status = "done", !.seqs = batch]
    BY <2>1, <2>2 DEF View
  <2>4. View'[running] = [View[running] EXCEPT !.status = "ok"]
    <3>1. call'[running] = [call[running] EXCEPT !.status = "ok", !.seqs = batch]
      BY <1>a, <2>1, <2>2 DEF TypeOK
    <3>2. call'[running].status = "ok"
      BY <1>a, <2>2, <3>1 DEF TypeOK
    <3>3. View'[running] = call'[running]
      BY <2>2, <3>2 DEF View
    <3> QED BY <1>a, <2>2, <2>3, <3>1, <3>3 DEF TypeOK
  <2>5. \A d \in Calls \ {running} : View'[d] = View[d]
    BY <1>a, <2>1, <2>2 DEF View, Turn, TypeOK
  <2>6. View' = [View EXCEPT ![running].status = "ok"]
    BY <1>c, <2>4, <2>5
  <2>7. View[running].status = "done"
    BY <1>a, <2>2, <2>3 DEF TypeOK
  <2>8. Promise!Answer(running)
    BY <2>1, <2>6, <2>7 DEF Promise!Answer, Promise!Is, Promise!Becomes
  <2> QED BY <2>2, <2>8 DEF Promise!Next
<1>11. CASE Dispose
  BY <1>11, Stutters DEF Dispose, View
<1>12. CASE Close
  BY <1>12, Stutters DEF Close, View
<1>13. CASE Crash
  <2>1. /\ UNCHANGED disk
        /\ call' = [c \in Calls |->
             IF call[c].status \in {"queued", "running"}
               THEN [call[c] EXCEPT !.status = "lost"] ELSE call[c]]
    BY <1>13 DEF Crash
  <2>2. ASSUME NEW c \in Calls
        PROVE  View'[c] = IF View[c].status \in {"pending", "done"}
                            THEN [View[c] EXCEPT !.status = "lost", !.seqs = {}] ELSE View[c]
    <3>1. call[c] \in CallType /\ (call[c].status # "ok" => call[c].seqs = {})
      BY <1>a DEF TypeOK, HandedOut, CallType
    <3>2. CASE call[c].status = "queued"
      BY <2>1, <3>1, <3>2 DEF View, CallType
    <3>3. CASE call[c].status = "running"
      BY <2>1, <3>1, <3>3 DEF View, CallType
    <3>4. CASE call[c].status \in {"idle", "ok", "failed", "lost"}
      BY <2>1, <3>1, <3>4 DEF View, CallType
    <3> QED BY <3>1, <3>2, <3>3, <3>4 DEF CallType, CallStatuses
  <2>3. View' = [c \in Calls |->
                   IF View[c].status \in {"pending", "done"}
                     THEN [View[c] EXCEPT !.status = "lost", !.seqs = {}] ELSE View[c]]
    BY <2>2 DEF View
  <2>4. Promise!CutOff
    BY <2>1, <2>3 DEF Promise!CutOff
  <2> QED BY <2>4 DEF Promise!Next
<1>14. CASE Open
  BY <1>14, Stutters DEF Open, View
<1> QED BY <1>1, <1>2, <1>3, <1>4, <1>5, <1>6, <1>7, <1>8, <1>9, <1>10, <1>11, <1>12, <1>13, <1>14
        DEF Next

(* The store keeps the promise of CommittedLog, whatever fails and whenever *)
(* it stops.                                                                *)
THEOREM StoreKeepsPromise == Spec => Implements
<1>1. Init => Promise!Init
  BY InitRefines
<1>2. IInv /\ IInv' /\ [Next]_vars => [Promise!Next]_(Promise!logVars)
  BY StepRefines
<1> QED BY <1>1, <1>2, Invariant, PTL DEF Spec, Implements, Promise!Spec
=============================================================================
