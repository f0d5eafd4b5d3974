---------------------------- MODULE MutationQueue ----------------------------
(***************************************************************************)
(* The single-flight FIFO queue of packages/lifecycle (mutation-queue.ts). *)
(*                                                                         *)
(* JavaScript runs one handler to completion, so every handler is one      *)
(* action -- except #runNext, which disarms the watchdog of the record it  *)
(* took off the queue before it marks the queue as running.  Disarming     *)
(* calls the host scheduler and, when the cancel throws, the caller's      *)
(* diagnostic sink, so user code runs inside that window.  The records     *)
(* caught in it form the call stack "starting".                            *)
(***************************************************************************)
EXTENDS Integers, Sequences, FiniteSets

CONSTANTS Task,             \* the tasks callers submit, each at most once
          Owner,            \* owner labels
          NoOwner,          \* the absent label
          ownerOf,          \* the label each task is submitted with
          Hole,             \* an emptied slot of the backing array
          CompactionFloor,  \* consumed slots below which nothing is compacted
          CancelMayFail,    \* the scheduler's cancel() may throw
          SinkEnqueues      \* onAdmissionDiagnostic may call enqueue()

ASSUME ConstantsAssumption ==
    /\ NoOwner \notin Owner
    /\ ownerOf \in [Task -> Owner \cup {NoOwner}]
    /\ Hole \notin Task
    /\ CompactionFloor \in Nat
    /\ CancelMayFail \in BOOLEAN
    /\ SinkEnqueues \in BOOLEAN

VARIABLES fifo,             \* backing array, cursor, live count and slot indices
          running,          \* #running
          runningOwner,     \* #runningOwner
          armed,            \* per task, the admission timer the scheduler holds
          outcome,          \* per task, how its promise stands
          starting,         \* #runNext frames between dequeue and start
          inFlight          \* tasks called and not yet settled

vars == <<fifo, running, runningOwner, armed, outcome, starting, inFlight>>

Timer   == {"none", "diagnostic", "reject"}
Outcome == {"new", "pending", "resolved", "failed", "self_dependency",
            "arm_failed", "timed_out"}
Fifo    == [slots : Seq(Task \cup {Hole}), head : Nat, count : Int,
            index : [Task -> Int]]
Frame   == [task : Task, sink : BOOLEAN]

-----------------------------------------------------------------------------
(* The backing array: emptied slots stay as holes until a compaction.      *)

IndexOf(slots, t) == (CHOOSE i \in DOMAIN slots : slots[i] = t) - 1

\* Faulty variant: the live tail is not re-indexed.
CompactKeepingIndices(q) ==
    IF q.head <= CompactionFloor \/ q.head * 2 <= Len(q.slots) THEN q
    ELSE [q EXCEPT !.slots = SubSeq(q.slots, q.head + 1, Len(q.slots)), !.head = 0]

Compact(q) ==
    IF q.head <= CompactionFloor \/ q.head * 2 <= Len(q.slots) THEN q
    ELSE LET kept == SubSeq(q.slots, q.head + 1, Len(q.slots))
         IN  [slots |-> kept, head |-> 0, count |-> q.count,
              index |-> [t \in Task |-> IF \E i \in DOMAIN kept : kept[i] = t
                                       THEN IndexOf(kept, t) ELSE q.index[t]]]

Push(q, t) ==
    [slots |-> Append(q.slots, t), head |-> q.head, count |-> q.count + 1,
     index |-> [q.index EXCEPT ![t] = Len(q.slots)]]

\* #removeQueued finds its record through the index the record carries.
Queued(q, t) ==
    /\ q.index[t] >= q.head
    /\ q.index[t] + 1 \in DOMAIN q.slots
    /\ q.slots[q.index[t] + 1] = t

RemoveQueued(q, t) ==
    IF ~Queued(q, t) THEN q
    ELSE Compact([slots |-> [q.slots EXCEPT ![q.index[t] + 1] = Hole],
                  head  |-> q.head, count |-> q.count - 1,
                  index |-> [q.index EXCEPT ![t] = -1]])

\* Faulty variant: the cursor goes to the newest live record.
IsNewest(q, h) ==
    /\ h < Len(q.slots) => q.slots[h + 1] # Hole
    /\ \A j \in h + 2 .. Len(q.slots) : q.slots[j] = Hole

\* The cursor skips holes to the oldest live record, or to the end.
IsNext(q, h) ==
    /\ \A j \in q.head + 1 .. h : q.slots[j] = Hole
    /\ h < Len(q.slots) => q.slots[h + 1] # Hole

RecordAt(q, h) == IF h < Len(q.slots) THEN q.slots[h + 1] ELSE Hole

DequeueAt(q, h) ==
    LET t == RecordAt(q, h)
    IN  IF t = Hole THEN Compact([q EXCEPT !.head = h])
        ELSE Compact([slots |-> [q.slots EXCEPT ![h + 1] = Hole],
                      head  |-> h + 1, count |-> q.count - 1,
                      index |-> [q.index EXCEPT ![t] = -1]])

-----------------------------------------------------------------------------
Init ==
    /\ fifo = [slots |-> <<>>, head |-> 0, count |-> 0,
               index |-> [t \in Task |-> -1]]
    /\ running = FALSE
    /\ runningOwner = NoOwner
    /\ armed = [t \in Task |-> "none"]
    /\ outcome = [t \in Task |-> "new"]
    /\ starting = <<>>
    /\ inFlight = {}

\* Code outside the queue runs between handlers, or inside a diagnostic sink.
TurnIsFree == starting = <<>>
InSink     == ~TurnIsFree /\ starting[Len(starting)].sink

\* #runNext up to the start of the record: dequeue it and disarm its watchdog.
\* A cancel that throws leaves the timer with the scheduler and calls the sink.
Disarm(t, timers) ==
    \E cancelFails \in BOOLEAN :
        /\ cancelFails => CancelMayFail /\ timers[t] # "none"
        /\ armed' = IF cancelFails THEN timers ELSE [timers EXCEPT ![t] = "none"]
        /\ starting' = Append(starting,
               [task |-> t, sink |-> cancelFails /\ SinkEnqueues])

\* Faulty variant: the running mark is not looked at.
RunNextEvenIfRunning(q, timers, isRunning) ==
    \E h \in q.head .. Len(q.slots) :
        /\ IsNext(q, h)
        /\ fifo' = DequeueAt(q, h)
        /\ IF RecordAt(q, h) = Hole THEN armed' = timers /\ UNCHANGED starting
           ELSE Disarm(RecordAt(q, h), timers)

RunNext(q, timers, isRunning) ==
    \/ /\ isRunning
       /\ fifo' = q /\ armed' = timers /\ UNCHANGED starting
    \/ /\ ~isRunning
       /\ \E h \in q.head .. Len(q.slots) :
            /\ IsNext(q, h)
            /\ fifo' = DequeueAt(q, h)
            /\ IF RecordAt(q, h) = Hole THEN armed' = timers /\ UNCHANGED starting
               ELSE Disarm(RecordAt(q, h), timers)

SelfDependent(t) ==
    ownerOf[t] # NoOwner /\ running /\ runningOwner = ownerOf[t]

BehindWork == running \/ fifo.count > 0

Callable(t) == outcome[t] = "new" /\ (TurnIsFree \/ InSink)

EnqueueRefused(t) ==
    /\ Callable(t) /\ SelfDependent(t)
    /\ outcome' = [outcome EXCEPT ![t] = "self_dependency"]
    /\ UNCHANGED <<fifo, running, runningOwner, armed, starting, inFlight>>

\* A task that waits for nobody gets no watchdog.
EnqueueIdle(t) ==
    /\ Callable(t) /\ ~SelfDependent(t) /\ ~BehindWork
    /\ outcome' = [outcome EXCEPT ![t] = "pending"]
    /\ RunNext(Push(fifo, t), armed, running)
    /\ UNCHANGED <<running, runningOwner, inFlight>>

\* timer = "none": the budget is false, or there is no sink to report to.
EnqueueBehindWork(t, timer) ==
    /\ Callable(t) /\ ~SelfDependent(t) /\ BehindWork
    /\ outcome' = [outcome EXCEPT ![t] = "pending"]
    /\ RunNext(Push(fifo, t), [armed EXCEPT ![t] = timer], running)
    /\ UNCHANGED <<running, runningOwner, inFlight>>

\* The clock or schedule() throws, or the handle is not one.  A scheduler that
\* returned a bad handle may still call back.
EnqueueArmFails(t, timer) ==
    /\ Callable(t) /\ ~SelfDependent(t) /\ BehindWork
    /\ fifo' = RemoveQueued(Push(fifo, t), t)
    /\ armed' = [armed EXCEPT ![t] = timer]
    /\ outcome' = [outcome EXCEPT ![t] = "arm_failed"]
    /\ UNCHANGED <<running, runningOwner, starting, inFlight>>

\* The scheduler fires the rejecting timer inside schedule().
EnqueueExpiresAtOnce(t) ==
    /\ Callable(t) /\ ~SelfDependent(t) /\ BehindWork
    /\ outcome' = [outcome EXCEPT ![t] = "timed_out"]
    /\ RunNext(RemoveQueued(Push(fifo, t), t), armed, running)
    /\ UNCHANGED <<running, runningOwner, inFlight>>

\* #runNext after the disarm, and the synchronous call of the task by #run.
StartNext ==
    LET t == starting[Len(starting)].task
    IN  /\ ~TurnIsFree
        /\ starting' = SubSeq(starting, 1, Len(starting) - 1)
        /\ running' = TRUE
        /\ runningOwner' = ownerOf[t]
        /\ inFlight' = inFlight \cup {t}
        /\ UNCHANGED <<fifo, armed, outcome>>

\* #run settles the record's promise, clears the running mark and goes on.
Finish(t, result) ==
    /\ TurnIsFree /\ t \in inFlight
    /\ outcome' = [outcome EXCEPT ![t] = result]
    /\ inFlight' = inFlight \ {t}
    /\ running' = FALSE
    /\ runningOwner' = NoOwner
    /\ RunNext(fifo, armed, FALSE)

\* Faulty variant: the timed-out record is removed and its promise forgotten.
ExpireWithoutRejecting(t) ==
    /\ TurnIsFree /\ armed[t] = "reject"
    /\ armed' = [armed EXCEPT ![t] = "none"]
    /\ fifo' = RemoveQueued(fifo, t)
    /\ UNCHANGED <<running, runningOwner, outcome, starting, inFlight>>

\* A rejecting timer that finds its record gone from the queue does nothing.
ExpireAdmission(t) ==
    /\ TurnIsFree /\ armed[t] = "reject"
    /\ armed' = [armed EXCEPT ![t] = "none"]
    /\ fifo' = RemoveQueued(fifo, t)
    /\ outcome' = IF Queued(fifo, t) THEN [outcome EXCEPT ![t] = "timed_out"]
                  ELSE outcome
    /\ UNCHANGED <<running, runningOwner, starting, inFlight>>

ReportAdmissionDiagnostic(t) ==
    /\ TurnIsFree /\ armed[t] = "diagnostic"
    /\ armed' = [armed EXCEPT ![t] = "none"]
    /\ UNCHANGED <<fifo, running, runningOwner, outcome, starting, inFlight>>

Next ==
    \/ StartNext
    \/ \E t \in Task :
        \/ EnqueueRefused(t)
        \/ EnqueueIdle(t)
        \/ EnqueueExpiresAtOnce(t)
        \/ ExpireAdmission(t)
        \/ ReportAdmissionDiagnostic(t)
        \/ \E timer \in Timer : EnqueueBehindWork(t, timer) \/ EnqueueArmFails(t, timer)
        \/ \E result \in {"resolved", "failed"} : Finish(t, result)

\* The handler in progress runs to its end, and every task settles.
Fairness ==
    /\ WF_vars(StartNext)
    /\ \A t \in Task : WF_vars(\E result \in {"resolved", "failed"} : Finish(t, result))

Spec     == Init /\ [][Next]_vars
FairSpec == Spec /\ Fairness

-----------------------------------------------------------------------------
\* The variables keep their types.
TypeOK ==
    /\ fifo \in Fifo
    /\ running \in BOOLEAN
    /\ runningOwner \in Owner \cup {NoOwner}
    /\ armed \in [Task -> Timer]
    /\ outcome \in [Task -> Outcome]
    /\ starting \in Seq(Frame)
    /\ inFlight \subseteq Task

\* "Strictly single-flight": two tasks are never in flight together.
SingleFlight == \A s, t \in inFlight : s = t

\* The array, its cursor, the live count and the index each record carries
\* agree: holes, compaction and removal in the middle never lose a record.
Live == {i \in DOMAIN fifo.slots : i > fifo.head /\ fifo.slots[i] # Hole}

ArrayConsistent ==
    /\ fifo.count = Cardinality(Live)
    /\ \A i \in DOMAIN fifo.slots :
        fifo.slots[i] # Hole =>
            /\ i > fifo.head
            /\ fifo.index[fifo.slots[i]] = i - 1
            /\ outcome[fifo.slots[i]] = "pending"

\* Every submitted task's promise settles, given that tasks settle.
EverySubmissionSettles ==
    \A t \in Task : outcome[t] = "pending" ~> outcome[t] # "pending"

\* The queue implements the FIFO executor: a started task is the oldest one.
\* A task waits in the array, where its index tells its place, or is starting.
HeldBy(q)  == {q.slots[i] : i \in DOMAIN q.slots} \ {Hole}
Starting   == {starting[i].task : i \in DOMAIN starting}
Waiting    == Starting \cup HeldBy(fifo)
Ahead(s, t) == t \in HeldBy(fifo) /\ (s \in Starting \/ fifo.index[s] < fifo.index[t])
OlderTasks == [t \in Task |-> {s \in Waiting : Ahead(s, t)}]
Settled    == {t \in Task : outcome[t] \notin {"new", "pending"}}

Abstract == INSTANCE FifoExecutor WITH
    waiting <- Waiting, older <- OlderTasks, active <- inFlight, settled <- Settled
ImplementsFifoExecutor == Abstract!Spec
=============================================================================
