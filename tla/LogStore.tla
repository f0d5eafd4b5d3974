------------------------------ MODULE LogStore ------------------------------
(***************************************************************************)
(* The durable log store (log-plugin-durable/src: store.ts, file.ts,       *)
(* committed-index.ts): a FIFO of accepted calls in front of a SQLite file *)
(* and an index of its committed contents in memory.                       *)
(*                                                                         *)
(* A write runs in one transaction, statement by statement, and changes    *)
(* the index after its COMMIT.  A statement may fail, COMMIT may fail      *)
(* without saying whether it took effect, the process may stop between any *)
(* two statements, and a store that was closed or lost is opened again and *)
(* recovers its index from the file.                                       *)
(***************************************************************************)
EXTENDS LogImage, Sequences, FiniteSets

CONSTANTS
  Nobody,     \* no call is running
  MaxFaults,  \* bound on the failed statements, failed commits and crashes
  MaxCloses   \* bound on the disposals of the store

ASSUME NobodyAssumption == Nobody \notin Calls

VARIABLES
  disk,      \* the committed contents of the file
  tx,        \* what the open transaction made of them
  ran,       \* how many of its statements ran
  index,     \* #index, and with it the pending list of states()
  phase,     \* "open", "draining" (not accepting), "closed" or "down"
  failure,   \* #failure is set
  queue,     \* the limiter's queue
  running,   \* the call whose turn it is
  step,      \* its progress: "idle", "writing" or "committed"
  batch,     \* the sequences prepareLogAppend gave it
  call,      \* each call's status, request, sequences and what it was shown
  faults,    \* failures and crashes so far
  closes     \* disposals so far

file == <<disk, tx, ran>>
work == <<queue, running, step, batch>>
counts == <<faults, closes>>
vars == <<file, index, phase, failure, work, call, counts>>

Call(status, request, seqs, shown) ==
  [status |-> status, request |-> request, seqs |-> seqs, shown |-> shown]

Unmade == Call("idle", Request("read", 0), {}, Empty)

CallStatuses == {"idle", "queued", "running", "ok", "failed", "lost"}

Phases == {"open", "draining", "closed", "down"}

Steps == {"idle", "writing", "committed"}

\* One SQL statement: insert and state name the call or the state they write.
Statement(do, seq, by, state) == [do |-> do, seq |-> seq, by |-> by, state |-> state]

\* How many statements a write runs between BEGIN and COMMIT.
Count(request) ==
  CASE request.kind = "append"   -> request.n + 1
    [] request.kind = "truncate" -> 2
    [] OTHER -> 1

\* The k-th of them: the records and then the head; the prefix and then the floor.
StatementAt(c, request, head, k) ==
  CASE request.kind = "append" ->
         IF k <= request.n THEN Statement("insert", head.last + k, c, "pending")
                           ELSE Statement("head", head.last + request.n, c, "pending")
    [] request.kind = "truncate" ->
         Statement(IF k = 1 THEN "delete" ELSE "floor", request.n, c, "pending")
    [] OTHER -> Statement("state", request.n, c, request.kind)

\* seq is the primary key of the records.
Conflicts(image, s) == s.do = "insert" /\ image.rows[s.seq] # Absent

Executed(image, s) ==
  CASE s.do = "insert" -> [image EXCEPT !.rows[s.seq] = [by |-> s.by, state |-> s.state]]
    [] s.do = "head"   -> [image EXCEPT !.last = s.seq]
    [] s.do = "delete" -> [image EXCEPT !.rows = [q \in Seqs |->
                              IF q < s.seq THEN Absent ELSE image.rows[q]]]
    [] s.do = "floor"  -> [image EXCEPT !.floor = s.seq]
    [] s.do = "state"  -> [image EXCEPT !.rows[s.seq].state = s.state]

\* The running call's request, what is left of its transaction, and the next statement.
Wanted == call[running].request

AllRan == ran = Count(Wanted)

NextStatement == StatementAt(running, Wanted, index, ran + 1)

Becomes(c, status) == call' = [call EXCEPT ![c].status = status]

Idle ==
  /\ running' = Nobody
  /\ step' = "idle"
  /\ batch' = {}

Init ==
  /\ disk = Empty
  /\ tx = Empty
  /\ ran = 0
  /\ index = Empty
  /\ phase = "open"
  /\ failure = FALSE
  /\ queue = <<>>
  /\ running = Nobody
  /\ step = "idle"
  /\ batch = {}
  /\ call = [c \in Calls |-> Unmade]
  /\ faults = 0
  /\ closes = 0

\* #admit, and the enqueue of what it accepts.
Submit(c, request) ==
  /\ phase # "down"
  /\ call[c].status = "idle"
  /\ LET admitted == phase = "open" /\ ~failure
     IN /\ call' = [call EXCEPT ![c] =
                      Call(IF admitted THEN "queued" ELSE "failed", request, {}, Empty)]
        /\ queue' = IF admitted THEN Append(queue, c) ELSE queue
  /\ UNCHANGED <<file, index, phase, failure, running, step, batch, counts>>

\* The limiter starts the next call when the one before it has settled.
Starts(c) ==
  /\ phase \in {"open", "draining"}
  /\ running = Nobody
  /\ queue # <<>>
  /\ c = Head(queue)
  /\ queue' = Tail(queue)

\* #runAccepted looks at #failure again; the check of the operation throws.
TurnRefused(c) ==
  /\ Starts(c)
  /\ failure \/ ~Admissible(index, call[c].request)
  /\ Becomes(c, "failed")
  /\ UNCHANGED <<file, index, phase, failure, running, step, batch, counts>>

TurnAnswered(c) ==
  /\ Starts(c)
  /\ ~failure
  /\ Admissible(index, call[c].request)
  /\ ~Writes(index, call[c].request)
  /\ call' = [call EXCEPT ![c].status = "ok",
                          ![c].shown = IF call[c].request.kind = "read" THEN index ELSE Empty]
  /\ UNCHANGED <<file, index, phase, failure, running, step, batch, counts>>

\* prepareLogAppend, and BEGIN.
TurnWrites(c) ==
  /\ Starts(c)
  /\ ~failure
  /\ Admissible(index, call[c].request)
  /\ Writes(index, call[c].request)
  /\ running' = c
  /\ step' = "writing"
  /\ batch' = Assigned(index, call[c].request)
  /\ tx' = disk
  /\ ran' = 0
  /\ Becomes(c, "running")
  /\ UNCHANGED <<disk, index, phase, failure, counts>>

\* Faulty variant: no BEGIN, so that every statement is durable on its own.
ExecuteOutsideTransaction ==
  /\ step = "writing"
  /\ ~AllRan
  /\ ~Conflicts(tx, NextStatement)
  /\ tx' = Executed(tx, NextStatement)
  /\ disk' = Executed(disk, NextStatement)
  /\ ran' = ran + 1
  /\ UNCHANGED <<index, phase, failure, work, call, counts>>

Execute ==
  /\ step = "writing"
  /\ ~AllRan
  /\ ~Conflicts(tx, NextStatement)
  /\ tx' = Executed(tx, NextStatement)
  /\ ran' = ran + 1
  /\ UNCHANGED <<disk, index, phase, failure, work, call, counts>>

\* Faulty variant: the write is rejected and the instance goes on.
PoisonForgotten ==
  /\ UNCHANGED failure
  /\ Becomes(running, "failed")
  /\ Idle
  /\ tx' = Empty
  /\ ran' = 0

\* The write is rejected and the instance takes no further call.
Poison ==
  /\ failure' = TRUE
  /\ Becomes(running, "failed")
  /\ Idle
  /\ tx' = Empty
  /\ ran' = 0

\* A failure before COMMIT is rolled back.
Fail ==
  /\ step = "writing"
  /\ \/ faults < MaxFaults /\ faults' = faults + 1
     \/ ~AllRan /\ Conflicts(tx, NextStatement) /\ UNCHANGED faults
  /\ Poison
  /\ UNCHANGED <<disk, index, phase, queue, closes>>

Commit ==
  /\ step = "writing"
  /\ AllRan
  /\ disk' = tx
  /\ tx' = Empty
  /\ ran' = 0
  /\ step' = "committed"
  /\ UNCHANGED <<index, phase, failure, queue, running, batch, call, counts>>

\* A failed COMMIT is not rolled back: the transaction may be in the file.
CommitFails ==
  /\ step = "writing"
  /\ AllRan
  /\ faults < MaxFaults
  /\ faults' = faults + 1
  /\ disk' \in {disk, tx}
  /\ Poison
  /\ UNCHANGED <<index, phase, queue, closes>>

\* applyAppend, applyTruncate or applyState, then the answer.
Apply ==
  /\ step = "committed"
  /\ index' = Applied(index, running, Wanted)
  /\ call' = [call EXCEPT ![running].status = "ok", ![running].seqs = batch]
  /\ Idle
  /\ UNCHANGED <<file, phase, failure, queue, counts>>

\* dispose() stops admission; what was accepted still runs.
Dispose ==
  /\ phase = "open"
  /\ closes < MaxCloses
  /\ closes' = closes + 1
  /\ phase' = "draining"
  /\ UNCHANGED <<file, index, failure, work, call, faults>>

\* whenIdle, then the index is cleared and the connection closed.
Close ==
  /\ phase = "draining"
  /\ queue = <<>>
  /\ running = Nobody
  /\ phase' = "closed"
  /\ index' = Empty
  /\ UNCHANGED <<file, failure, work, call, counts>>

\* The process stops; SQLite's journal undoes an open transaction.
Crash ==
  /\ phase # "down"
  /\ faults < MaxFaults
  /\ faults' = faults + 1
  /\ phase' = "down"
  /\ tx' = Empty
  /\ ran' = 0
  /\ index' = Empty
  /\ failure' = FALSE
  /\ queue' = <<>>
  /\ Idle
  /\ call' = [c \in Calls |->
                IF call[c].status \in {"queued", "running"}
                  THEN [call[c] EXCEPT !.status = "lost"]
                  ELSE call[c]]
  /\ UNCHANGED <<disk, closes>>

\* Faulty variant: the head is taken from the records, not from the meta row.
OpenFromRecords ==
  /\ phase \in {"closed", "down"}
  /\ Sound(disk)
  /\ index' = IF disk.floor = disk.last + 1 THEN [disk EXCEPT !.last = 0, !.floor = 1] ELSE disk
  /\ phase' = "open"
  /\ failure' = FALSE
  /\ UNCHANGED <<file, work, call, counts>>

\* fileLogStore: recover() validates what it reads and throws on anything else.
Open ==
  /\ phase \in {"closed", "down"}
  /\ Sound(disk)
  /\ index' = disk
  /\ phase' = "open"
  /\ failure' = FALSE
  /\ UNCHANGED <<file, work, call, counts>>

Next ==
  \/ \E c \in Calls :
       \/ \E request \in Requests : Submit(c, request)
       \/ TurnRefused(c)
       \/ TurnAnswered(c)
       \/ TurnWrites(c)
  \/ Execute
  \/ Fail
  \/ Commit
  \/ CommitFails
  \/ Apply
  \/ Dispose
  \/ Close
  \/ Crash
  \/ Open

Spec == Init /\ [][Next]_vars
-----------------------------------------------------------------------------
TypeOK ==
  /\ disk \in Images /\ tx \in Images /\ index \in Images
  /\ ran \in Nat
  /\ phase \in Phases
  /\ failure \in BOOLEAN
  /\ queue \in Seq(Calls)
  /\ running \in Calls \cup {Nobody}
  /\ step \in Steps
  /\ batch \subseteq Seqs
  /\ call \in [Calls -> [status : CallStatuses, request : Requests,
                         seqs : SUBSET Seqs, shown : Images]]
  /\ faults \in Nat /\ closes \in Nat

\* The file can be opened again at any moment: whatever was cut short, its
\* records are the contiguous ones its head and floor promise (recover() would
\* reject it as LOG_STORE_CORRUPT).
Recoverable == Sound(disk)

\* An append whose caller was answered stays in the file, across crashes,
\* failed commits and reopening, until it is truncated; and no sequence is
\* ever given to two of them, not even after the whole log was truncated.
AcknowledgedSurvive ==
  \A c \in Calls : call[c].status = "ok" =>
    \A s \in call[c].seqs :
      /\ s < disk.floor \/ (disk.rows[s] # Absent /\ disk.rows[s].by = c)
      /\ \A d \in Calls \ {c} : s \notin call[d].seqs

\* The store keeps the promise of CommittedLog: a write happens when its
\* COMMIT does, a query sees every write before it and no write that later
\* turns out not to have happened.
View ==
  [c \in Calls |->
     CASE call[c].status = "queued" -> [call[c] EXCEPT !.status = "pending"]
       [] call[c].status = "running" ->
            IF step = "committed" THEN [call[c] EXCEPT !.status = "done", !.seqs = batch]
                                  ELSE [call[c] EXCEPT !.status = "pending"]
       [] OTHER -> call[c]]

Promise == INSTANCE CommittedLog WITH log <- disk, call <- View

Implements == Promise!Spec
=============================================================================
