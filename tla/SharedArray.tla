---------------------------- MODULE SharedArray ----------------------------
(***************************************************************************)
(* SharedInt32Array (store-shared/src/shared-state.ts): wrappers in        *)
(* several threads over the same cells.  Each wrapper keeps its own        *)
(* cursors and publishes remote writes to its own observers: when asked    *)
(* (sync), or by a loop that waits on the shared generation (watch).       *)
(*                                                                         *)
(* A cell is one versioned register: Seqlock implements VersionedCell, so  *)
(* reading or changing a cell is one step here.  Every other shared access *)
(* (loading and adding the generation, the native wait and notify) is a    *)
(* step of its own, and other threads run between any two.                 *)
(***************************************************************************)
EXTENDS ShownCells, Integers, FiniteSets, FiniteSetsExt

CONSTANTS
  Length,     \* the number of cells
  Observers,  \* those whose application observes cells, syncs and watches
  Values,     \* the int32 values written
  NoValue,    \* nothing shown: the cell has no observer
  MaxWrites,  \* bound on the writes of a behaviour
  MaxDead     \* bound on the threads that are terminated

ASSUME LengthAssumption == Length \in Nat \ {0}
ASSUME ObserversAssumption == Observers \subseteq Threads
ASSUME NoValueAssumption == NoValue \notin Values
ASSUME BoundAssumption == MaxWrites \in Nat /\ MaxDead \in Nat

Cells == 1..Length

VARIABLES
  scanned,  \* per wrapper and cell: #observedVersions
  cell,     \* per thread: the cell it works on
  todo,     \* per thread: the cells its scan has not reached
  loaded,   \* per thread: the generation its scan started from, or -1
  fan,      \* per thread: the cells whose observers have to run
  then,     \* per thread: where its sync returns to
  watch,    \* per wrapper: the state of its watch loop
  expected, \* per wrapper: the generation the loop waits on
  dead      \* the threads that were terminated

shared == <<value, ver, gen>>
cursors == <<cells, cursor, scanned, epoch, shown>>
work == <<cell, todo, loaded, fan>>
loop == <<then, watch, expected>>
vars == <<shared, cursors, at, work, loop, dead>>

Set2(f, a, c, x) == [f EXCEPT ![a][c] = x]

\* The thread is alive and has reached the given point.
On(a, l) == at[a] = l /\ a \notin dead

Goto(a, l) == at' = [at EXCEPT ![a] = l]

Init ==
  /\ \E v \in Values : value = [c \in Cells |-> v]
  /\ ver = [c \in Cells |-> 0]
  /\ gen = 0
  /\ cells = [a \in Threads |-> {}]
  /\ cursor = [a \in Threads |-> [c \in Cells |-> 0]]
  /\ scanned = [a \in Threads |-> [c \in Cells |-> 0]]
  /\ epoch = [a \in Threads |-> 0]
  /\ shown = [a \in Threads |-> [c \in Cells |-> NoValue]]
  /\ at = [a \in Threads |-> "idle"]
  /\ cell = [a \in Threads |-> 1]
  /\ todo = [a \in Threads |-> {}]
  /\ loaded = [a \in Threads |-> -1]
  /\ fan = [a \in Threads |-> {}]
  /\ then = [a \in Threads |-> "idle"]
  /\ watch = [a \in Threads |-> "off"]
  /\ expected = [a \in Threads |-> 0]
  /\ dead = {}

-----------------------------------------------------------------------------
(* Writing: set() and update() with the commitWrite that follows them.      *)

\* The cell changes and the writer's own cursors follow, its cell's only when
\* one is materialised.
Write(a, c, v) ==
  /\ On(a, "idle")
  /\ gen + Cardinality({b \in Threads : at[b] = "announce"}) < MaxWrites
  /\ v # value[c]
  /\ value' = [value EXCEPT ![c] = v]
  /\ ver' = [ver EXCEPT ![c] = @ + 2]
  /\ scanned' = Set2(scanned, a, c, ver'[c])
  /\ cursor' = IF c \in cells[a] THEN Set2(cursor, a, c, ver'[c]) ELSE cursor
  /\ cell' = [cell EXCEPT ![a] = c]
  /\ Goto(a, "announce")
  /\ UNCHANGED <<gen, cells, epoch, shown, todo, loaded, fan, loop, dead>>

\* Faulty variant: the writer takes its own generation as scanned.
AnnounceAsScanned(a) ==
  /\ On(a, "announce")
  /\ gen' = gen + 1
  /\ epoch' = [epoch EXCEPT ![a] = gen + 1]
  /\ Goto(a, "notify")
  /\ UNCHANGED <<value, ver, cells, cursor, scanned, shown, work, loop, dead>>

\* notifyWaiters adds to the generation; the writer does not take it as scanned.
Announce(a) ==
  /\ On(a, "announce")
  /\ gen' = gen + 1
  /\ Goto(a, "notify")
  /\ UNCHANGED <<value, ver, cursors, work, loop, dead>>

\* Atomics.notify wakes every loop that is waiting.
Wake(w) == [b \in Threads |-> IF w[b] = "waiting" THEN "woken" ELSE w[b]]

\* Then the writer's own observers run.
Notify(a) ==
  /\ On(a, "notify")
  /\ watch' = Wake(watch)
  /\ fan' = [fan EXCEPT ![a] = {cell[a]} \cap cells[a]]
  /\ Goto(a, "observers")
  /\ UNCHANGED <<shared, cursors, cell, todo, loaded, then, expected, dead>>

-----------------------------------------------------------------------------
(* Observers.  One runs cell.read(): it first brings the cell's cursor up   *)
(* to the present version and then reads the value.                         *)

ObserverSync(a) ==
  /\ On(a, "observers")
  /\ \E c \in fan[a] :
        /\ cell' = [cell EXCEPT ![a] = c]
        /\ cursor' = Set2(cursor, a, c, ver[c])
  /\ Goto(a, "read")
  /\ UNCHANGED <<shared, cells, scanned, epoch, shown, todo, loaded, fan, loop, dead>>

ObserverRead(a) ==
  /\ On(a, "read")
  /\ shown' = Set2(shown, a, cell[a], value[cell[a]])
  /\ fan' = [fan EXCEPT ![a] = @ \ {cell[a]}]
  /\ Goto(a, "observers")
  /\ UNCHANGED <<shared, cells, cursor, scanned, epoch, cell, todo, loaded, loop, dead>>

\* Where sync() returns to: the caller, the loop about to wait, or the loop
\* that waits for its timer.
Continue(a) ==
  /\ Goto(a, IF then[a] = "wait" THEN "wait" ELSE "idle")
  /\ then' = [then EXCEPT ![a] = "idle"]
  /\ watch' = IF then[a] = "timer" THEN [watch EXCEPT ![a] = "timer"] ELSE watch

\* All observers have run.  A scan ends here: only now does the wrapper take
\* the generation it started from as scanned.
ObserversDone(a) ==
  /\ On(a, "observers")
  /\ fan[a] = {}
  /\ epoch' = IF loaded[a] = -1 THEN epoch ELSE [epoch EXCEPT ![a] = loaded[a]]
  /\ loaded' = [loaded EXCEPT ![a] = -1]
  /\ Continue(a)
  /\ cell' = [cell EXCEPT ![a] = 1]
  /\ UNCHANGED <<shared, cells, cursor, scanned, shown, todo, fan, expected, dead>>

\* An observer starts to use a cell: the cell is materialised with the present
\* version as its baseline, and the observer runs for the first time.
Observe(a, c) ==
  /\ On(a, "idle")
  /\ c \notin cells[a]
  /\ cells' = [cells EXCEPT ![a] = @ \cup {c}]
  /\ cursor' = Set2(cursor, a, c, ver[c])
  /\ fan' = [fan EXCEPT ![a] = {c}]
  /\ Goto(a, "observers")
  /\ UNCHANGED <<shared, scanned, epoch, shown, cell, todo, loaded, loop, dead>>

\* The last observer of a cell leaves and the cell is released.
Unobserve(a, c) ==
  /\ On(a, "idle")
  /\ c \in cells[a]
  /\ cells' = [cells EXCEPT ![a] = @ \ {c}]
  /\ cursor' = Set2(cursor, a, c, 0)
  /\ shown' = Set2(shown, a, c, NoValue)
  /\ UNCHANGED <<shared, scanned, epoch, at, work, loop, dead>>

-----------------------------------------------------------------------------
(* Reading remote writes: sync() and sync(index).                           *)

\* sync() compares the generation before it looks at any cell.
Sync(a) ==
  /\ On(a, "idle")
  /\ Goto(a, "sync")
  /\ UNCHANGED <<shared, cursors, work, loop, dead>>

LoadGeneration(a) ==
  /\ On(a, "sync")
  /\ \/ /\ gen = epoch[a]
        /\ Continue(a)
        /\ UNCHANGED <<todo, loaded>>
     \/ /\ gen # epoch[a]
        /\ loaded' = [loaded EXCEPT ![a] = gen]
        /\ todo' = [todo EXCEPT ![a] = Cells]
        /\ Goto(a, "scan")
        /\ UNCHANGED <<then, watch>>
  /\ UNCHANGED <<shared, cursors, cell, fan, expected, dead>>

\* One cell of the scan, in index order; a changed one is recorded, and its
\* materialised cell is asked to sync.
ScanCell(a) ==
  /\ On(a, "scan")
  /\ todo[a] # {}
  /\ LET c == Min(todo[a]) IN
       /\ todo' = [todo EXCEPT ![a] = @ \ {c}]
       /\ cell' = [cell EXCEPT ![a] = c]
       /\ scanned' = Set2(scanned, a, c, ver[c])
       /\ Goto(a, IF ver[c] # scanned[a][c] /\ c \in cells[a] THEN "cell" ELSE "scan")
  /\ UNCHANGED <<shared, cells, cursor, epoch, shown, loaded, fan, loop, dead>>

\* The batch ends: the observers that were notified in it run.
ScanEnd(a) ==
  /\ On(a, "scan")
  /\ todo[a] = {}
  /\ Goto(a, "observers")
  /\ UNCHANGED <<shared, cursors, work, loop, dead>>

\* Faulty variant: the cell's cursor follows the array's before the cell syncs.
CellCursorCopied(a) ==
  /\ On(a, "cell")
  /\ cursor' = Set2(cursor, a, cell[a], ver[cell[a]])
  /\ Goto(a, IF loaded[a] = -1 THEN "observers" ELSE "scan")
  /\ UNCHANGED <<shared, cells, scanned, epoch, shown, work, loop, dead>>

\* cell.sync(): its own read of the cell, its own cursor.
CellSync(a) ==
  /\ On(a, "cell")
  /\ LET c == cell[a] IN
       /\ cursor' = Set2(cursor, a, c, ver[c])
       /\ fan' = IF ver[c] = cursor[a][c] THEN fan ELSE [fan EXCEPT ![a] = @ \cup {c}]
  /\ Goto(a, IF loaded[a] = -1 THEN "observers" ELSE "scan")
  /\ UNCHANGED <<shared, cells, scanned, epoch, shown, cell, todo, loaded, loop, dead>>

\* sync(index)
SyncIndex(a, c) ==
  /\ On(a, "idle")
  /\ ver[c] # scanned[a][c]
  /\ scanned' = Set2(scanned, a, c, ver[c])
  /\ IF c \in cells[a]
       THEN Goto(a, "cell") /\ cell' = [cell EXCEPT ![a] = c]
       ELSE UNCHANGED <<at, cell>>
  /\ UNCHANGED <<shared, cells, cursor, epoch, shown, todo, loaded, fan, loop, dead>>

-----------------------------------------------------------------------------
(* The watch loop: watchSlot over the generation.                           *)

\* A turn of the loop, at watch() or when its timer fires: the generation to
\* wait on is captured before the missed writes are pulled.
Turn(a) ==
  /\ expected' = [expected EXCEPT ![a] = gen]
  /\ watch' = [watch EXCEPT ![a] = "running"]
  /\ then' = [then EXCEPT ![a] = "wait"]
  /\ Goto(a, "sync")
  /\ UNCHANGED <<shared, cursors, work, dead>>

Watch(a) == On(a, "idle") /\ watch[a] = "off" /\ Turn(a)

TimerFires(a) == On(a, "idle") /\ watch[a] = "timer" /\ Turn(a)

\* Faulty variant: the generation to wait on is loaded after the pull.
WaitOnPresent(a) ==
  /\ On(a, "wait")
  /\ watch' = [watch EXCEPT ![a] = "waiting"]
  /\ expected' = [expected EXCEPT ![a] = gen]
  /\ Goto(a, "idle")
  /\ UNCHANGED <<shared, cursors, work, then, dead>>

\* waitAsync: not suspended when the generation has moved since the capture,
\* in which case the loop pulls again before its next turn.
WaitAsync(a) ==
  /\ On(a, "wait")
  /\ \/ /\ gen = expected[a]
        /\ watch' = [watch EXCEPT ![a] = "waiting"]
        /\ Goto(a, "idle")
        /\ UNCHANGED <<then, expected>>
     \/ /\ gen # expected[a]
        /\ then' = [then EXCEPT ![a] = "timer"]
        /\ expected' = [expected EXCEPT ![a] = 0]
        /\ Goto(a, "sync")
        /\ UNCHANGED watch
  /\ UNCHANGED <<shared, cursors, work, dead>>

\* The promise of a woken wait settles.
Woken(a) ==
  /\ On(a, "idle")
  /\ watch[a] = "woken"
  /\ watch' = [watch EXCEPT ![a] = "running"]
  /\ then' = [then EXCEPT ![a] = "timer"]
  /\ expected' = [expected EXCEPT ![a] = 0]
  /\ Goto(a, "sync")
  /\ UNCHANGED <<shared, cursors, work, dead>>

\* Stopping notifies the slot to release its own waiter, which wakes the loops
\* of the other threads as well.
StopWatching(a) ==
  /\ On(a, "idle")
  /\ watch[a] # "off"
  /\ watch' = Wake([watch EXCEPT ![a] = "off"])
  /\ expected' = [expected EXCEPT ![a] = 0]
  /\ UNCHANGED <<shared, cursors, at, work, then, dead>>

\* The thread of a writer is terminated after its cell has changed.  (Anywhere
\* else a terminated thread is one that takes no further step.)
Die(a) ==
  /\ On(a, "announce") \/ On(a, "notify")
  /\ Cardinality(dead) < MaxDead
  /\ dead' = dead \cup {a}
  /\ UNCHANGED <<shared, cursors, at, work, loop>>

-----------------------------------------------------------------------------

\* The steps of a call or a loop under way.
Step(a) ==
  \/ Announce(a)
  \/ Notify(a)
  \/ ObserverSync(a)
  \/ ObserverRead(a)
  \/ ObserversDone(a)
  \/ LoadGeneration(a)
  \/ ScanCell(a)
  \/ ScanEnd(a)
  \/ CellSync(a)
  \/ WaitAsync(a)

\* The event loop takes up the work of the watch loop.
Task(a) == TimerFires(a) \/ Woken(a)

\* What the application of the thread may do when it runs.
Use(a) ==
  \/ Sync(a)
  \/ Watch(a)
  \/ StopWatching(a)
  \/ \E c \in Cells : Observe(a, c) \/ Unobserve(a, c) \/ SyncIndex(a, c)

Next ==
  \/ \E a \in Threads : Step(a) \/ Task(a) \/ Die(a)
  \/ \E a \in Threads, c \in Cells, v \in Values : Write(a, c, v)
  \/ \E a \in Observers : Use(a)

\* A running call continues, and an event loop gets to every task that waits,
\* however often the application uses the thread in between.
Fairness == \A a \in Threads : WF_vars(Step(a)) /\ SF_vars(Task(a))

Spec == Init /\ [][Next]_vars /\ Fairness

-----------------------------------------------------------------------------
(* Properties *)

States == {"off", "running", "waiting", "woken", "timer"}

TypeOK ==
  /\ value \in [Cells -> Values] /\ ver \in [Cells -> Nat] /\ gen \in Nat
  /\ cells \in [Threads -> SUBSET Cells]
  /\ cursor \in [Threads -> [Cells -> Nat]] /\ scanned \in [Threads -> [Cells -> Nat]]
  /\ epoch \in [Threads -> Nat] /\ shown \in [Threads -> [Cells -> Values \cup {NoValue}]]
  /\ at \in [Threads -> {"idle", "announce", "notify", "observers", "read",
                         "sync", "scan", "cell", "wait"}]
  /\ cell \in [Threads -> Cells] /\ todo \in [Threads -> SUBSET Cells]
  /\ loaded \in [Threads -> Nat \cup {-1}] /\ fan \in [Threads -> SUBSET Cells]
  /\ then \in [Threads -> {"idle", "wait", "timer"}]
  /\ watch \in [Threads -> States] /\ expected \in [Threads -> Nat]
  /\ dead \subseteq Threads

\* A watching wrapper shows every committed write in the end, without anybody
\* calling sync(): the loop never sleeps through a write, unless the writer was
\* terminated before it could announce or notify.
WatcherCatchesUp ==
  \A a \in Threads, c \in Cells :
     (watch[a] # "off" /\ c \in cells[a] /\ ~Shows(a, c)) ~>
        \/ Shows(a, c)
        \/ watch[a] = "off"
        \/ c \notin cells[a]
        \/ a \in dead
        \/ \E b \in dead : at[b] \in {"announce", "notify"}
=============================================================================
