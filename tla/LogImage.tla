------------------------------ MODULE LogImage ------------------------------
(***************************************************************************)
(* The contents of a log store (log-plugin-durable/src): a high watermark, *)
(* a retained floor and the records between them, each pending until it is *)
(* completed or aborted; and the requests that change them.  A record is   *)
(* identified by the call that appended it: its payload and time are left  *)
(* out.                                                                    *)
(***************************************************************************)
EXTENDS Integers

CONSTANTS
  Calls,     \* the calls made on the store, each made once
  MaxSeq,    \* the largest sequence (Number.MAX_SAFE_INTEGER)
  MaxBatch,  \* the largest batch of one append
  Absent     \* no record under a sequence

ASSUME SizeAssumption == MaxSeq \in Nat /\ MaxBatch \in Nat \ {0}

Seqs == 1..MaxSeq

RecordStates == {"pending", "done", "aborted"}

Records == [by : Calls, state : RecordStates]

ASSUME AbsentAssumption == Absent \notin Records

\* last: the permanent high watermark; floor: the first retained sequence.
Images ==
  [last : 0..MaxSeq, floor : 1..(MaxSeq + 1), rows : [Seqs -> Records \cup {Absent}]]

Empty == [last |-> 0, floor |-> 1, rows |-> [s \in Seqs |-> Absent]]

\* append(n records), truncate(n), setState(n, done), setState(n, aborted), and
\* "read" for read(), lastSeq() and states(), which only look.
Request(kind, n) == [kind |-> kind, n |-> n]

Requests ==
  {Request("append", n) : n \in 1..MaxBatch}
    \cup {Request(k, n) : k \in {"truncate", "done", "aborted"}, n \in 1..(MaxSeq + 1)}
    \cup {Request("read", 0)}

\* What the store checks before it writes: the head has room, the prefix ends
\* at or before the next sequence, the record is retained and still pending.
Admissible(image, request) ==
  CASE request.kind = "append"   -> image.last + request.n <= MaxSeq
    [] request.kind = "truncate" -> request.n <= image.last + 1
    [] request.kind = "read"     -> TRUE
    [] OTHER -> /\ request.n \in Seqs
                /\ image.rows[request.n] # Absent
                /\ image.rows[request.n].state = "pending"

\* A truncation below the floor and a query write nothing.
Writes(image, request) ==
  CASE request.kind = "truncate" -> request.n > image.floor
    [] request.kind = "read"     -> FALSE
    [] OTHER -> TRUE

\* The sequences prepareLogAppend assigns to the batch.
Assigned(image, request) ==
  IF request.kind = "append" THEN (image.last + 1)..(image.last + request.n) ELSE {}

\* applyAppend, applyTruncate and applyState on a committed index.
Applied(image, c, request) ==
  CASE request.kind = "append" ->
         [image EXCEPT !.last = image.last + request.n,
                       !.rows = [s \in Seqs |->
                          IF s \in Assigned(image, request)
                            THEN [by |-> c, state |-> "pending"]
                            ELSE image.rows[s]]]
    [] request.kind = "truncate" ->
         [image EXCEPT !.floor = request.n,
                       !.rows = [s \in Seqs |->
                          IF s < request.n THEN Absent ELSE image.rows[s]]]
    [] request.kind = "read" -> image
    [] OTHER -> [image EXCEPT !.rows[request.n].state = request.kind]

\* snapshotLogStoreState: exactly the records floor..last, or LOG_STORE_CORRUPT.
Sound(image) ==
  /\ image.floor <= image.last + 1
  /\ \A s \in Seqs : image.rows[s] # Absent <=> s \in image.floor..image.last
=============================================================================
