# Verification of migaia: lifecycle, supervision, shared memory, durable log

TLA+ models of the concurrent core of the migaia monorepo, TLC configurations
that check them on small instances, and TLAPS proofs about them. Paths below
are relative to the repository; `L/` is `src/packages/lifecycle/src/`, `S/` is
`src/packages/supervision/src/`, `H/` is `src/packages/store-shared/src/` and
`D/` is `src/packages/log-plugin-durable/src/`.

1. [The system](#1-the-system)
2. [The modules](#2-the-modules)
3. [What each run checks](#3-what-each-run-checks)
4. [Fairness](#4-fairness)
5. [What is proved](#5-what-is-proved)
6. [Where the code departs from what it says](#6-where-the-code-departs-from-what-it-says)
7. [What is not modelled](#7-what-is-not-modelled)
8. [Plan](#8-plan)

Check a module with `tlc -config X.cfg MCModule`, a proof with
`tlapm ModuleProofs.tla`.

## 1. The system

migaia is a TypeScript monorepo of about fifty packages: stores, RPC, storage,
logging, plugins. What the others rest on is the ownership of resources in
`lifecycle` and of running units in `supervision`; two packages besides have
concurrency of a harder kind: `store-shared`, where threads meet in shared
memory, and `log-plugin-durable`, which must survive crashes. These four are
modelled. Within one thread, three things make interleavings:

- every `await` lets callers, timers, exits and answers in;
- user code runs *inside* synchronous operations: abort listeners, property
  getters of option objects, release callbacks, schedulers and diagnostic
  sinks may all call back into the object that is calling them;
- what was decided before either of the two is used after it.

Threads over a `SharedArrayBuffer` add the interleaving of single atomic
accesses and threads that are terminated between two of them; the durable log
adds statements and commits that fail, commits whose outcome is unknown, and a
process that stops anywhere and is started again.

| Component | State it keeps | Operations | What is hard | What makes it correct |
| --- | --- | --- | --- | --- |
| mutation queue (`L/mutation-queue.ts`) | array with a cursor, holes and slot indices; running mark; watchdog timers | enqueue, run next, admission deadline | re-entrance while a watchdog is disarmed; removal in the middle; compaction | one task in flight, first in first out, no lost submission |
| generation controller (`L/generation-controller.ts`) | generation, current token, controller, timeout, parent listener | begin, complete, invalidate, supersede, dispose; timeout, parent abort | listeners that call back in the middle of begin | the latest request wins; the others are aborted; nothing leaks |
| lifecycle scope (`L/lifecycle-scope.ts`, `L/dispose-transaction.ts`, `L/errors.ts`) | live entries, dispose promise, plan, error collector, finalizers | own, release, close, dispose, finalization | getters, callbacks that hang, fail or join the dispose they block | each resource released once, in order; failures surface; dispose ends |
| provisional scope (`L/provisional-scope.ts`) | entries, state, signal, promises | own, commit, rollback | the parent closes or refuses half way | never both owners, never neither |
| synchronous scopes, disposal ledger, trackers, lifecycle unit, bounded wait (`L/`) | counts, seals, waiters | retain, whenZero, start, dispose | start racing dispose; seal racing release | see [plan](#8-plan) |
| unit budget (`S/budget.ts`, `S/timestamp-window.ts`) | slots, queue, grant times, parent lease, rate timer | acquire, tryAcquire, release, close | abort, timeout and close while the parent answers | never above capacity or rate; no slot leaks; every request is answered |
| supervisor (`S/supervisor-*.ts`) | state, active and candidate slot, attempt, failures, timers, command queue | start, stop, kill, restart, replace, dispose; exits, failures, timers | commands queued behind awaits while everything else goes on | no orphan; restart policy; stop and dispose are bounded and final |
| unit slot and teardown (`S/supervisor-slot.ts`, `S/unit-teardown.ts`) | phase promises, abandoned mark, lease | retire, force, abandon | units that ignore every signal | bounded; the lease is released only when the unit is gone |
| health monitor (`S/health.ts`) | consecutive failures, running check | check, timeout, late answer, close | a late answer after its timeout | one verdict, none after close |
| resource (`src/packages/resource/src/`) | request, attempt, value, stale mark | refetch, cancel, invalidate, mutate, hydrate | late answers over a generation controller | only the latest request settles the value |
| shared cells (`H/shared-state.ts`: `readConsistent`, `acquire`, `writeLocked`) | per cell, a value word and a sequence word that is odd while a writer holds it | read, set, update | torn reads, lost updates, a thread terminated while it holds a cell | an atomic versioned register; no call spins for ever |
| shared array (`H/shared-state.ts`: `SharedInt32Array`, `watchSlot`) | the cells and a generation; per wrapper two cursors for each cell and one for the generation; a watch loop | set, update, get, sync, watch | a write is a cell, a generation and a wake-up; two cursors of one cell; captures before waits | observers of a cell never miss a write |
| log store (`D/store.ts`, `D/file.ts`, `D/committed-index.ts`) | a SQLite file, an index of it in memory, one FIFO, a poison mark | append, truncate, setState, read, states, dispose, open | crashes between statements; an uncertain commit; calls accepted before a failure | whole batches only; what was answered stays; an answered call took effect once |
| binlog subscriptions (`D/binlog.ts`, `D/plugin-runtime.ts`) | cursors with position, activity, running and wake marks; a FIFO of its own | subscribe, append, truncate, unsubscribe, revoke | each read is queued in the store's FIFO behind anything | records in order, once, none missed at the tail |

How they interact: a supervisor runs its commands as tasks of one mutation
queue, its attempts carry tokens of a generation controller, a slot owns its
monitors and attachments in lifecycle scopes, and its lease comes from a unit
budget, which serves its own waiters through another mutation queue and may ask
a parent budget. A provisional scope commits into a lifecycle scope. A shared
array is made of shared cells, and its watch loop sleeps on the generation its
writers count up. A binlog borrows a log store: two FIFOs, the plugin's and the
store's, of which a cursor waits in the second while the first goes on. The
other packages (plugin host, capability, tray, resource, RPC) use these primitives
through the same interfaces. `PROJECT.json` lists every component, and the
hazards with the line each one bites at.

## 2. The modules

| Module | Models | Instance |
| --- | --- | --- |
| `FifoExecutor` | what a mutation queue promises (abstract) | |
| `MutationQueue` | the mutation queue; implements `FifoExecutor` | `MCMutationQueue` |
| `LatestRequest` | what a generation controller holds and its safety properties | |
| `GenerationController` | the generation controller, over `LatestRequest` | `MCGenerationController` |
| `ReleaseLedger` | what an owner of resources promises (abstract) | |
| `LifecycleScope` | the scope and its release loop; implements `ReleaseLedger` | `MCLifecycleScope` |
| `ProvisionalScope` | the provisional scope and its parent; implements `ReleaseLedger` | `MCProvisionalScope` |
| `UnitBudget` | the budget and its parent | `MCUnitBudget` |
| `Supervisor` | one supervisor, its commands, units and timers | `MCSupervisor` |
| `UnitSlot` | what the teardown of a unit promises the supervisor and the budget (abstract) | |
| `UnitTeardown` | one slot and its teardown; implements `UnitSlot` | itself: it has no constants |
| `VersionedCell` | what a shared cell promises: an atomic versioned register (abstract) | |
| `Seqlock` | a cell, one atomic access per step; implements `VersionedCell` | `MCSeqlock` |
| `ShownCells` | what a wrapper knows and shows of shared cells and its safety properties | |
| `SharedArray` | wrappers in several threads over atomic cells, over `ShownCells` | `MCSharedArray` |
| `LogImage` | the contents of a log and what a request does to them (no state) | |
| `CommittedLog` | what a log store promises, crashes included (abstract) | |
| `LogStore` | the store, its file, crashes and reopening; implements `CommittedLog` | `MCLogStore` |
| `Binlog` | the subscriptions over a borrowed store | `MCBinlog` |
| `OneAtATimeProofs` | the theorems of `MutationQueue` and, as `Latest`, of `GenerationController` | |
| `UnitLeaseProofs` | the theorems of `UnitBudget` and, as `Unit`, of `UnitTeardown` | |
| `SharedStoreProofs` | the theorems of `Seqlock` and, as `Array`, of `SharedArray` | |
| other `*Proofs` | the theorems of the module they are named after | |

Three of the proof modules hold the theorems of two components: they extend one
and take the other with a named `INSTANCE`, so that its definitions are read as
`Latest!Spec`, `Unit!Spec` or `Array!Spec`. The state that a safety property
speaks of and the property itself are in a module that component and proof both
extend (`LatestRequest`, `ShownCells`), so that the theorem is about the very
definition that TLC checks.

Definitions called "Faulty variant" in the modules are plausible mistakes in
the code (a dropped guard, a missing reset). No specification uses them; each
replaces one definition when one asks whether a property would notice.

**Granularity.** An action is the code between two points where something else
can run: a whole handler or the segment between two awaits. Where user code
runs inside a synchronous operation, the operation is cut there and a variable
holds the interrupted calls: `starting` in `MutationQueue`, `stack` in
`GenerationController`, `admitting` in the two scopes. A guard (`UserRuns`,
`Turn`) keeps everything that needs an empty call stack out of those windows.

**`MutationQueue`.** `fifo` is the array with its cursor, live count and the
index each record carries; `Push`, `RemoveQueued`, `DequeueAt` and `Compact` are
the private methods on it. One action per handler: the ways an
enqueue can go (refused, idle, behind work, deadline that cannot be armed or has
passed), `StartNext`, `Finish`, and the two watchdogs. A started record stays on
`starting` while its timer is cancelled, because the scheduler's `cancel` may
throw into the caller's diagnostic sink.

**`GenerationController`.** `begin` is cut at the abort of the request before
it, whose listeners run; every other operation that aborts ends with its abort,
but stays on `stack` while the listeners run. A request's signal is created
when it is first read, so that an abort before that runs no listener. The
scheduler may fire inside `schedule` and refuse. Each `cancel` of a timer and each
`removeEventListener` on the parent may throw, with or without having taken
effect (`Cleanup`): the release goes on, its caller or the reporter is told
(`Told`), and `uncancelled` and `unremoved` keep what was left behind. The timer or
listener of an older request that is left behind releases whatever is current.

**`LifecycleScope`.** A registration is numbered when it is pushed. `plan` is the
snapshot of `dispose`, released one item at a time in the order of
`disposal-order.ts`; an item calls the phases of its degrade chain. A callback
returns, throws, waits, or joins the dispose it is part of, which the disposer
context answers at once. The collector and the four error policies are as in
`errors.ts`; a failed force is besides reported the moment it fails, under every
policy (`diagnosed`). Dropping the scope lets the finalization registry release what it
watches.

**`ProvisionalScope`.** Of the parent, the model keeps whether it is open and
what it owns. `commit` offers the entries oldest first and stops at the first
refusal; `rollback`, and the compensation of a commit, release newest first.

**`UnitBudget`.** The head holds the queue across two awaits (the wait for
capacity or rate, and the parent's answer); `phase` says in which it is. The
window of grant times is two counters, the stored grants and how many of those
have expired: the order of the expiries is the order of the grants, so the
times themselves are not needed.

**`Supervisor`.** `queue` and `running` are the command queue (its order and
single flight are what `MutationQueue` establishes); `step` is the await the
running command is at:

| `step` | The running command |
| --- | --- |
| `budget` | waits for a lease |
| `starting` | waits for the launch, the attachments and readiness |
| `promoted` | has promoted its unit and is about to resume `replaceUnit` |
| `rollback` | waits for the teardown of the failed candidate |
| `retiring` | waits for the teardown of `target` |
| `switch` | has a ready candidate and is about to resume `replaceUnit` |
| `previous` | waits for the teardown of the replaced unit |
| `ended` | is over; the queue takes the next one in a microtask |

`attempt.authority` is what the code gets by asking the attempt's token: still
current, advanced by the attempt's own timeout, or lost to a command. The
policy counts failures up to one above the limit, which is all it tells apart.
`retry` counts the live backoff timers and whether the newest one is still
held, since the code overwrites the handle. Timers do not fire between two
microtasks (`TimerTurn`). A replacement is in progress until `replaceUnit` resumes
(`ReplaceReturns`, `Switch`): a unit that ends before that has its failure held
back.

**`UnitTeardown`.** `at` is what the slot's scope is releasing (monitors, unit,
attachments, lease, in that order) and, while it is the unit's turn, the phase:
`launch`, `drain`, `exit`, `force`. `forcing` is the promise that everybody who
asks for force shares, and `late` the releases that an abandoned teardown leaves
to the `gone` promise. The options and what the launcher can observe are chosen
at the start. A unit's `exited` never rejects
(`src/packages/supervision/README.en.md:159`). A deadline and the microtasks it
sets off are one step.

`UnitSlot` is the specification, and what `Supervisor` takes a retired slot to
be: its retirement ends when the unit is gone or given up (`TornDown` there); a
unit that is given up has been forced, or is forced when it appears; the lease
comes back after the unit, once, and soon.

**`Seqlock`.** `seq` and `mem` are the two words of a cell; every load, store and
compare-exchange is a step, and `pc` says at which one a thread is. The spins of
a call, the waits of `backOffContention` and its clock are one choice: as long
as a call cannot go on it tries again, or gives up (`Contention`, the
`CONTENTION_LIMIT` error); it may give up only where the code does, in front of
the cell and never while it holds it. `update` computes from the value its own
read returned, writes with that expectation, and reads again when it fails. A
thread may be terminated at any step (`Die`) and leave the sequence odd. The value words are 32
bits wide and versions 64: the code's versions do not wrap within any feasible
run.

`VersionedCell` is the specification: a call is invoked, takes effect in one
step, and returns. A read and a write that changes nothing do not advance the
version; a write advances it by two.

**`SharedArray`.** Cells are atomic here, because `Seqlock` implements
`VersionedCell`. A write is three steps: the cell with the cursors of its own
wrapper, the generation, the wake-up followed by the local observers. The
wrapper keeps `scanned` (the array's cursor of a cell), `cursor` (the
materialised cell's own) and `epoch` (the generation of its last whole scan).
Observers run at the end of the batch, and what they read is `shown`. The watch
loop captures the generation, pulls, and only then waits; between two turns it
yields to a timer.

**`LogStore`.** `disk` is what SQLite has committed and `tx` the open transaction;
`index` is the instance's memory. A call waits in the FIFO, starts its turn,
executes its statements one at a time, commits, applies the effect to the index
and is answered. Any statement may fail (the transaction rolls back), and so may
the commit, with the effect in the file or without it; either failure poisons
the instance, and every call that was accepted before is refused when its turn
comes. `Crash` stops the process at any step: the file keeps what was committed,
and whoever was waiting never learns the outcome. `Open` recovers the index from
the file, head and floor included.

`CommittedLog` is the specification: one log, which a call changes or looks at
in one instant. A call that was answered took effect exactly once; one that was
refused or cut off took effect at most once. `LogStore` implements it with the
contents of the file as the log: the instant is the commit.

**`Binlog`.** The store is abstracted to its FIFO, its floor and its head, which
is all a cursor sees of it. The owner of the store writes to it directly, so its
entries interleave with the plugin's. `pump[k]` has one slot for each activation
of `#pump` that could be in progress; `running` is what keeps the second one
empty. Every action of a cursor is the code between two of its awaits.

## 3. What each run checks

| Run | States | Shows |
| --- | --- | --- |
| `mutation_queue` | 68 k | `SingleFlight`; `ArrayConsistent`: array, cursor, count and indices agree through holes and compaction; `EverySubmissionSettles`; `ImplementsFifoExecutor` |
| `generation` | 874 k | `LatestOnly`: the current request is live and every other one is completed or aborted; `NothingLeaks`: no timer and no parent listener outlives its request, unless the call that should have removed it threw |
| `scope` | 267 k | `OnePlace`, `DegradeChain`, `FailuresSurface`, `DisposeSettles`, `ImplementsReleaseLedger` |
| `provisional` | 3 k | `NeverBothNeverNeither`, `CommitTellsTheTruth`, `Settles`, `ImplementsReleaseLedger` |
| `budget` | 99 k | `CapacityHolds`, `RateHolds`, `LeasesMatch`, `FifoAdmission`, `CloseIsFinal`, `EveryRequestAnswered` |
| `supervisor` | 745 k | `NoOrphan`, `ServingConsistent`, `RetryPlanned`, `TimersFollowState`, `DisposedIsFinal`, `ShutdownSettles` |
| `unit_teardown` | 1 k | `Implements` (`UnitSlot`): safety, and both of its leads-to properties |
| `seqlock` | 75 k | `Exclusion`; `Implements` (`VersionedCell`): no torn read, no lost update; `CallsEnd`: no call spins for ever, not even on a cell a terminated thread holds |
| `shared_array` | 172 k | `FreshMeansShown`: a wrapper whose cursor is at a cell's version has shown that version to the observers; `ScannedMeansShown`: the generation shortcut of `sync` hides nothing; `WatcherCatchesUp` |
| `log_store` | 478 k | `Recoverable`, `AcknowledgedSurvive`, `Implements` (`CommittedLog`) |
| `binlog` | 432 k | `InOrder`: consecutive records, one listener call at a time; `KeepsUp`: no notice is lost |
| `binlog_tail_append` | | the finding of section 6 |

The comment above each property says what it is about. Deadlock is not checked
where the system may rest: once the bounded calls are used up and all work is
done, nothing has to happen.

**Bounds, and why they are enough.**

- `MutationQueue`: four tasks, two with one owner. One runs, one starts and two
  wait, so that one is removed in the middle; with `CompactionFloor = 1` (1024 in
  the code) two consumed slots compact the array.
- `GenerationController`: three requests, so that a request can be superseded
  by one that is itself superseded inside the abort; `MaxGeneration = 4` leaves
  room for an invalidation besides. Nothing compares generations other than for
  equality.
- `LifecycleScope`: three registrations of two resources with two orders, one
  descriptor per degrade chain: ties, precedence and a hand-back between them.
- `ProvisionalScope`: four registrations: some accepted, one refused, and two
  left to release in order.
- `UnitBudget`: two slots, up to two grants per window and three requests: one
  waits while two hold slots, or while the parent answers the head.
- `Supervisor`: two units (one in service, one that replaces it), three calls,
  one automatic restart. A `stop` or `start` behind a replacement behind a
  `start` takes all three calls. A failure report that waits is not repeated.
- `UnitTeardown`: none. One slot, every combination of its options; nothing in it
  is counted.
- `Seqlock`: two threads, three values and sequence numbers up to four, that is
  two writes: a reader can see the version of the first and the value of the
  second, and an update can be overtaken by a write and by one that puts its
  value back. `SharedStoreProofs` removes the bound on threads and values.
- `SharedArray`: two wrappers, two cells, two writes. One thread observes, syncs
  and watches and writes as well; the other only writes. Two cells are what a
  scan needs to be in the middle; two writes let one be scanned while the other
  is on its way. Wrappers do not see each other but through the shared words.
  `SharedStoreProofs` removes these bounds for the safety properties.
- `LogStore`: three calls, batches of up to two records, sequences up to three,
  two faults (statements, commits and crashes together), one dispose. A batch of
  two can be half written; an append, a truncation of everything and an append
  after reopening take three calls; a call accepted behind a failing one and
  then a crash take two faults. `LogStoreProofs` removes these bounds.
- `Binlog`: two cursors (one may be waiting for its registration while the other
  is pumped), two records, and one of the cuts (truncation, revocation,
  unsubscription, throwing listener); two slots per cursor, so that a second
  activation has room to be wrong in.

**Orders a passing run leaves out.** Each is a named constant, so that the
assumption is visible, and each is a case in which the code departs from what
it says (section 6). The constants bring the orders back:

| Constant | Leaves out |
| --- | --- |
| `SinkEnqueues = FALSE` | the diagnostic sink of a failing cancel enqueues a task into the same queue: two tasks run together |
| `BeginDuringBegin`, `DisposeDuringBegin` | a listener aborted by `begin` calls `begin` or `dispose` |
| `GetterMay = {}` | a getter read by `own` disposes the scope |
| `GetterRollsBack = FALSE` | a getter read by `own` settles the provisional scope: the entry is in neither owner |
| `Races = {}` | `start_behind_launch`: a start queued behind a command that launches, too; `retry_behind_command`: a retry planned, or its timer fired, behind a waiting command; `exit_in_switch`: the candidate of a start-then-switch exits in the microtasks before `replaceUnit` resumes; `fail_in_promotion`: the unit of a stop-then-start fails or exits in them |


## 4. Fairness

Safety needs none. For liveness, weak fairness is given to what the runtime
runs by itself, and to nothing a caller or a unit decides:

- `MutationQueue`: the interrupted handler goes on, and a started task settles.
  Tasks are the caller's; a task that never settles holds the queue in the code
  as well.
- `LifecycleScope`, `ProvisionalScope`: the release loop goes on, a bounded
  graceful phase runs out of time (it has a timer), and callbacks without a
  budget settle. A bounded graceful phase need not settle.
- `UnitBudget`: microtasks run, time passes and the rate timer fires, the
  parent answers, and units that hold a slot exit. No caller has to cancel, and
  no request has to time out: `EveryRequestAnswered` is about lost wakes.
- `Seqlock`: a call that runs goes on, and one that keeps failing to get at the
  cell gives up in the end: strong fairness of `Contention`, because the deadline
  of `backOffContention` is a clock, while the cell may be free in between. A
  terminated thread is owed nothing.
- `SharedArray`: a running call goes on, and an event loop gets to its timers and
  settled promises (strong fairness of `Task`: the application may use the thread
  in between, as often as it likes, but not for ever). Nobody has to write, sync
  or watch.
- `LogStore`: only safety; an operation of the store is synchronous once its turn
  comes.
- `Binlog`: both FIFOs and the continuations of a cursor run; a listener settles.
  A listener that never does holds its own cursor in the code as well.
- `UnitTeardown`: promises that are settled are followed up, monitors and
  attachments are released, and the deadlines of the phases pass. No launch has
  to settle, no drain to end by itself and no unit to exit.
- `Supervisor`: microtasks run, the startup timeout fires, a budget answers (its
  queue has a timeout), and the reap deadline of a retired unit fires. No
  launch has to settle and no unit has to become ready, fail or exit, so
  `ShutdownSettles` holds for units that ignore everything. A `stop` behind a
  `restart` waits for the restart's own launch, which it could not supersede,
  and thus for the budget's answer.

## 5. What is proved

| Theorem | States | Assumes |
| --- | --- | --- |
| `OneAtATimeProofs!TypeCorrect` | `Spec => []TypeOK` | |
| `OneAtATimeProofs!SingleFlightHolds` | `Spec => []SingleFlight` | `~SinkEnqueues` |
| `OneAtATimeProofs!ArrayConsistentHolds` | `Spec => []ArrayConsistent` | |
| `OneAtATimeProofs!RefinesFifoExecutor` | `Spec => ImplementsFifoExecutor` | `~SinkEnqueues` |
| `OneAtATimeProofs!LatestOnlyHolds` | `Latest!Spec => []LatestOnly` | `Calm` |
| `OneAtATimeProofs!NothingLeaksHolds` | `Latest!Spec => []NothingLeaks` | `Calm` |
| `LifecycleScopeProofs!NothingLostOrDoubled` | `Spec => []OnePlace` | `GetterMay = {}` |
| `LifecycleScopeProofs!DegradeChainHolds` | `Spec => []DegradeChain` | `GetterMay = {}` |
| `LifecycleScopeProofs!FailuresSurfaceHolds` | `Spec => []FailuresSurface` | `GetterMay = {}` |
| `LifecycleScopeProofs!RefinesReleaseLedger` | `Spec => ImplementsReleaseLedger` | `GetterMay = {}` |
| `ProvisionalScopeProofs!OwnershipTransfers` | `Spec => []NeverBothNeverNeither` | `~GetterRollsBack` |
| `ProvisionalScopeProofs!CommitIsTruthful` | `Spec => []CommitTellsTheTruth` | `~GetterRollsBack` |
| `ProvisionalScopeProofs!RefinesReleaseLedger` | `Spec => ImplementsReleaseLedger` | `~GetterRollsBack` |
| `UnitLeaseProofs!CapacityTheorem` | `Spec => []CapacityHolds` | |
| `UnitLeaseProofs!LeasesTheorem` | `Spec => []LeasesMatch` | |
| `UnitLeaseProofs!RateTheorem` | `Spec => []RateHolds` | |
| `UnitLeaseProofs!FifoAdmissionHolds` | `Spec => FifoAdmission` | |
| `UnitLeaseProofs!CloseIsFinalHolds` | `Spec => CloseIsFinal` | |
| `UnitLeaseProofs!TypeCorrect` | `Spec => []TypeOK` | |
| `UnitLeaseProofs!TeardownIsSlot` | `Unit!Spec => Unit!Slot!Init /\ [][Unit!Slot!Next]_(Unit!Slot!vars)` (`UnitSlot`) | |
| `SupervisorProofs!TypeCorrect` | `Spec => []TypeOK` | `QuietRaces` |
| `SupervisorProofs!NoOrphanHolds` | `Spec => []NoOrphan` | `QuietRaces` |
| `SupervisorProofs!RetryPlannedHolds` | `Spec => []RetryPlanned` | `QuietRaces` |
| `SupervisorProofs!TimersFollowStateHolds` | `Spec => []TimersFollowState` | `QuietRaces` |
| `SupervisorProofs!DisposedIsFinalHolds` | `Spec => DisposedIsFinal` | `QuietRaces` |
| `SupervisorProofs!ServingConsistentHolds` | `Spec => []ServingConsistent` | `Races = {}` |
| `SharedStoreProofs!WritersExclude` | `Spec => []Exclusion` | |
| `SharedStoreProofs!CellIsRegister` | `Spec => Implements` (`VersionedCell`) | |
| `SharedStoreProofs!FreshMeansShownHolds` | `Array!Spec => []FreshMeansShown` | `Sized` |
| `SharedStoreProofs!ScannedMeansShownHolds` | `Array!Spec => []ScannedMeansShown` | `Sized` |
| `LogStoreProofs!AlwaysRecoverable` | `Spec => []Recoverable` | |
| `LogStoreProofs!AcknowledgedStay` | `Spec => []AcknowledgedSurvive` | |
| `LogStoreProofs!StoreKeepsPromise` | `Spec => Implements` (`CommittedLog`) | |
| `BinlogProofs!DeliversInOrder` | `Spec => []InOrder` | |

They hold for every value of the constants that satisfies the module's named
`ASSUME`: any number of tasks, registrations, requests, slots, threads, cells, calls
and records. Of an instanced module the assumptions are hypotheses of the theorem:
`Calm` is its `MaxBegins \in Nat \ {0}` and no re-entrance out of `begin`
(section 6 has what happens with it), `Sized` is `Length \in Nat \ {0}` and
`Observers \subseteq Threads`.

- *Single flight.* `SingleFlight` is not inductive: a record in the window of
  `starting` has not marked the queue as running. `FlightInv` adds that a task
  is in flight only while the queue is marked as running, and that at most one
  record is ever starting, and only while nothing runs. The assumption is what
  keeps that stack at one record; with `SinkEnqueues` it is false.
- *The array of a queue.* `ArrayConsistent` does not say who may be pushed.
  `ArrayInv` adds that a task which has left the array (`Busy`: starting or in
  flight) is not in it and is not new, so that nothing is pushed twice and no
  result is written over a waiting one. `PushOrders`, `EmptyOrders` and
  `CompactOrders` say what the array's operations do to its records, their
  indices and their number; a removal and a dequeue are an emptied slot and a
  compaction. The re-entrance of `SinkEnqueues` does not hurt the array: the
  record is out of it before the window opens.
- *The FIFO executor.* The abstract executor keeps, for each waiting task, the
  set of those submitted before it. The mapping reads these sets off the array:
  a task is ahead of another if it is starting or its index is smaller
  (`Ahead`); so no sequence of live records has to be computed from the slots.
  A compaction shifts all indices and keeps their order (`KeepsOrder`), a push
  comes last (`PushIsLast`), a removal takes one task out of every set
  (`RemovalLeavesOrder`). `RunNext` takes the record with the smallest index to
  the call stack, where it is still ahead of everything: a stutter
  (`RunNextStutters`). `StartNext` is the abstract `Start`, and finds no older
  task: only records of the array have others ahead of them, and the starting
  one has left it.
- *The latest request.* `LatestOnly` and `NothingLeaks` speak of moments between
  operations; the invariant `GenInv` has to say what is true on the way.
  `OneOwner`: token, controller, timer and listener are those of the current
  request or none. `Beginning`: at most one `begin` is interrupted, and while it
  is there is no current request and the controller is not disposed.
  `CurrentIsLive`, `OverIsOver` and `Answered` say what the status of a request
  allows. An operation that releases the current request leaves nothing owned before any listener runs
  (`ReleaseOwner`), so whatever a listener calls finds a controller without a
  request; that is why the order token, then abort, matters. `Held` says
  of the scheduler and the parent signal that they hold nothing else but what a
  call that threw has left behind.
- *One place.* `IInv` of the scope adds to the disjointness of the six places
  that the counters are sequences, that no `own` is interrupted once `dispose`
  was called (the assumption), and that a finalizer is armed for live
  registrations only and runs only for a dropped scope; otherwise a finalizer
  and the release loop could both take one.
- *Release of a scope.* `ChainInv` follows each registration's phases: nothing
  is called before its item, the calls of an item fit its chain (`Fits`), and an
  item that is over has nothing waiting and nothing due. `FailureInv` is the
  balance of the error collector: what was reported and what was kept are,
  disjointly, the failures of the released items, and once the dispose has ended
  the kept ones were delivered; what was diagnosed are the failed forces. `ToKeep` keeps each failure of an item once
  (`Divided`).
- *Release ledgers.* Both scopes implement `ReleaseLedger` step by step: an
  `own` that is admitted is its `Take`, the begin and the end of an item its
  `Release` and `Released`, an accepted hand-over its `HandBack`; the phases of
  an item and everything about promises stutter. `CountInv` and `MadeInv` say
  that calls of `own` in progress count against the bound, so that what they
  register stays within it.
- *Ownership.* `PlaceInv` puts every registration of a provisional scope in one
  place, and an offered entry among the remaining ones; `PhaseInv` says that a
  settled scope holds no entries and an ended operation has none left.
  `CommitInv` adds that the parent owns a prefix of the registrations (entries
  are offered oldest first), that a settled promise belongs to an operation that
  is over, and that `commit` resolves only if nothing failed.
- *Shared cell.* `IInv` ties the local variables of each thread (`Local`) to
  shared memory: who holds the cell knows its sequence (`seq = base + 1`), who is
  about to store has seen the present value and its expectation matched, and
  who is about to compare holds the value of the version it loaded first, if
  that version still stands. The last one is what a torn read would break. The
  refinement keeps the old value and the old version in the register until the
  sequence is published, so that the step of `Publish` is the instant of a write
  and the step of `ReadStable` that of a read; everything else stutters. Nothing
  in it depends on how many threads there are or which of them died.
- *Shared array.* Neither property is inductive: both speak of idle wrappers
  only. `Wrapper` follows one through its scan. `FreshOrDue`: a cell whose cursor
  is at the present version has shown its value or is still to be fanned out;
  `CellsFollow`: the array's own cursor is ahead of a cell's only between the
  record of a version and the cell's `sync`; `ReachedIsFresh`: if the generation
  the scan started from still counts everything written, the cells it has
  reached are at their present version; when the scan is over this becomes
  `ScannedIsFresh`, which is what the shortcut of `sync` relies on. The work of
  other threads enters through `Growth` alone: versions and the generation only
  grow, and no step makes an older generation count everything written, because
  a writer adds to it after its cell has changed.
- *Log.* `Agree` says that the index is the file, except between COMMIT and
  `Apply`, where the file is ahead by exactly the running request, and that the
  open transaction is the running request's first `ran` statements (`Partial`);
  `Turn` that the running call was admissible when its turn came and that nothing
  else runs; `HandedOut` that assigned sequences stay below the head, on which
  `AcknowledgedSurvive` rests when everything else has been truncated.
  `AppliedRows` and `PartialStep` reduce statements to sets of records. `failure`
  makes `Agree` void for the rest of an instance's life, which is why the poison
  is needed: without it the next request would be admitted against a stale index.
  In the refinement a call is pending until its commit and done after it; an
  uncertain commit is the abstract `Doubt`, a crash `CutOff`.
- *Subscriptions.* `Ordered` says of each cursor that its running mark is set
  exactly while one activation of `pump()` is in progress (`Alone`), and that
  its position is one behind its deliveries exactly while its listener runs
  (`Positioned`). A cursor whose listener threw stays at the record it threw at,
  so the position is claimed for active or running cursors only. The answers of
  the store play no part: `pump` delivers only the row at its position. There is
  a lemma for each way a step changes one cursor, and `OneCursor` and `Stops`
  lift them to the steps.
- *Capacity and leases.* `CapacityInv` adds finiteness, for the cardinality of
  a union. `LeaseInv` adds that calls are numbered in order and that the head in
  front of its parent is pending or was just refused, never granted;
  `AdmitKeeps` proves one pass of the admission loop for all callers of it.
- *Admission.* `Waiters` says where a pending request is: behind the head in the
  queue, in the head's task, or about to be refused; nobody is pending once the
  budget is closed. The action properties follow from what each step does to the
  granted and the pending (`GrantStep`). `Room` says of the rate window that a
  head which asks its parent has a place in it, which is what keeps a grant after
  the parent's answer within the rate: the window only empties meanwhile.
- *Teardown.* The slot's force, abandonment and lease are variables of the
  teardown, and a unit is `launching` until its launch resolves. `TeardownInv`
  says why each step is allowed there: nothing is given up, forced or owed
  before `retire` (`Started`); while the launch is pending nothing has been
  forced, so that a late unit appears with exactly the force the slot asks for;
  and who waits for a forced unit waits for one that is still there (`Phases`),
  so that its reap deadline is the slot's giving up.
- *Supervisor.* `NoOrphan` says nothing of the command in progress, so it is far
  from inductive. `IInv` has one part for each reason why a command may proceed
  as the code does:
  `Shape` (what the step of the running command implies for the attempt, the
  target and the slots), `Accounted` (every launched unit is retired, active or
  the candidate), `StateFits` (the state goes with the active unit and the step),
  `Disposing` (nothing but failure reports comes behind `dispose`),
  `RestartFirst` and `LaunchOnce` (what can wait in front of a restart or a
  launch), `RestartSettled`, `LaunchSettled` and `StopBehindSwitch` (while they
  wait, nothing that could plan a retry goes on), `Timers` (one backoff timer at
  most, and it has its handle), and the `Planned` parts (a state that promises a
  change has an attempt, a timer or a command that will make it). The key to
  `NoOrphan` is `LaunchSettled`: a launch begins only when nothing is active, so
  its unit never takes the place of a living one. Each part has a lemma that a
  step keeps it, with one case per action.
- *Its assumptions.* `QuietRaces` leaves out `start_behind_launch` and
  `retry_behind_command`. They are the departures of section 6, and with either of
  them `NoOrphan` is false (TLC finds it for the first with the cfg's bounds, for
  the second with `MaxUnits = 4`). `retry_behind_command` is a wide exclusion: it
  takes out every `restart` called while a command other than a stop waits, or
  while a switch or a failure report runs, and every exit of the active unit
  while a restart waits. `Races = {}` also takes out what can happen to a new unit
  in the microtasks before `replaceUnit` resumes, in which the code ends with
  `ready` and no live unit: `exit_in_switch` is what `Killed` needs,
  `fail_in_promotion` what `PlannedStart` needs.

Only model-checked: liveness and everything under fairness
(`EverySubmissionSettles`, `ShutdownSettles`, `WatcherCatchesUp` and their like, and
the `Prompt` half of `UnitTeardown`'s `Implements`), which is out of the prover's
reach.

## 6. Where the code departs from what it says

The run `binlog_tail_append` checks a property that TLC refutes;
`PROJECT.json` "findings" has the details and the quotation: an append served
between a cursor's empty read and its question for the head is taken for a
truncation; the subscription stops with `LOG_SUBSCRIPTION_TRUNCATED` and misses
the record (`D/binlog.ts:113`).

Ten more come back when a constant of section 3 is changed in a passing cfg and
the property is added to it, if it is not there already:

| Departure | Constant | Property |
| --- | --- | --- |
| `stop(); restart(); start()` launches two units: `start` joins `pendingStart` only (`S/supervisor-owner.ts:178`), which a restart's own launch does not set (`:346`), and the queued task launches without a look at the active unit (`:280`). The second one replaces the first as `active`; the first keeps running and holds its lease, and no command reaches it. `S/supervisor-owner.ts:152` says "Starts once or joins the original in-flight command without creating a new attempt". | `Races = {"start_behind_launch"}` | `NoOrphan` |
| A request begun by an abort listener of `begin` is overwritten without being aborted (`L/generation-controller.ts:311`), although "Each `begin()` [...] makes the previous request stale by aborting its signal". | `BeginDuringBegin = TRUE` | `LatestOnly` |
| `begin` hands out a live request after one of its abort listeners disposed the controller (`L/generation-controller.ts:307`), although "After `dispose()`, `begin()` throws". | `DisposeDuringBegin = TRUE` | `NoRequestAfterDispose` |
| A descriptor getter that disposes the scope leaves a registration that nobody will release (`L/lifecycle-scope.ts:199`), although "After `close()` or `dispose()`, `own()` throws". | `GetterMay = {"dispose"}` | `NothingOwnedAfterDispose` |
| A diagnostic sink that is told of a failing `cancel` and enqueues into the same queue starts a second task beside the one that is about to start (`L/mutation-queue.ts:230`), although the class calls itself a "Strictly single-flight FIFO queue" (`:103`). | `SinkEnqueues = TRUE` | `SingleFlight` |
| A getter read by `own` that commits or rolls back leaves its entry in a settled scope, owned by nobody (`L/provisional-scope.ts:130`), although the scope hands over or releases, "never both, never neither" (`:350`). | `GetterRollsBack = TRUE` | `NeverBothNeverNeither` |
| The unit of a stop-then-start replacement that fails from within `onReady`, or exits before `replaceUnit` resumes, finds the replacement still in progress (`S/supervisor-replace.ts:79`): its failure is noted for a decision that is taken only if the attempt failed (`:81`), so that the supervisor stays `ready` with no unit and plans nothing. `src/packages/supervision/README.en.md:107` says "A crash, repeated failed health checks or a resource limit ends the unit; the restart policy then backs off and retries, or moves to `terminal`", and `:165` offers "`hooks.onReady` to own monitors or fail the unit". | `Races = {"fail_in_promotion"}` | `ServingConsistent` |
| A candidate that exits between its readiness and the switch is published as `ready` (`S/supervisor-replace.ts:115`), and no policy decides, although the same line 107 says so. | `Races = {"exit_in_switch"}` | `ServingConsistent` |
| A crash while a `stop` waits behind a switch plans a retry that launches after the stop (`S/supervisor-policy.ts:121`), although "do not restart after stop" belongs to the supervisor (`src/packages/supervision/README.en.md:88`). | `Races = {"retry_behind_command"}` | `NoRestartAfterStop` |
| A request that waits for capacity alone arms a zero-delay timer again and again while an old grant is past the window (`S/budget.ts:333`), although "capacity-only waits have no timer" (`S/budget.ts:76`). | none | `CapacityWaitHasNoTimer` |

`NothingOwnedAfterDispose`, `NoRequestAfterDispose` and `NoRestartAfterStop` are
stated for this table only: without the orders that break them they say little
more than the guards of `own`, `begin` and a retry.

## 7. What is not modelled

- In the modelled components: error objects and messages, diagnostics, delays
  and times (a deadline is an action that may happen), validation of options,
  read-only operations (`inspect`, `snapshot`, `isCurrent`).
- In `GenerationController`: a reporter, scheduler or parent signal that calls
  the controller back, a signal that calls its listener while it is being
  added or whose `addEventListener` throws, a `schedule` that throws and has
  armed a timer all the same, and controllers that throw when they abort.
- In `LifecycleScope`: the `DEADLINE_EXCEEDED` diagnostics, scopes without a
  reporter, and what becomes of the failure of a finalizer.
- In `Supervisor`: adopted units (`hooks.acquireUnit`), hooks and event
  listeners that throw, specs, `whenReady` waiters other than `start`'s own,
  and generation numbers; the phases of a teardown are in `UnitTeardown`.
- In `UnitTeardown`: exit facts and their classification, the `drained` mark, and
  callbacks that throw (the teardown reports them and goes on). The shared force
  is one step: the code sets `forcing` when the user's `terminate` has returned
  (`S/unit-teardown.ts:123`), so a `terminate` that calls `kill` forces twice, with
  two reap deadlines. A launch that
  answers in the microtasks of its own deadline is left out: the deadline is one
  step. `UnitSlot` says nothing of the attachments: on the abandoned path they
  and the lease both wait for `gone`, in order, but the lease is given back
  without waiting for attachments that take time to release (`S/unit-teardown.ts:316`).
- In `Seqlock` and `SharedArray`: `SharedInt32Signal` (one cell whose sequence is
  its own generation), `dispose`, observers and reporters that throw. Observers
  only read: one that writes or syncs while it runs, which the code foresees
  (`H/shared-state.ts:310`, `:457`), is left out. Contention
  inside a scan is left out with the atomic cells: a cell that stays contended
  makes `sync` throw after the array's cursor has moved past it
  (`H/shared-state.ts:982`).
- In `LogStore`: record times, the refusal of a file that is open already, the
  observers and the notices of a store (`Binlog` has those).
- In `Binlog`: echo, the transaction port, the plugin's own `read` and `lastSeq`,
  and a borrowed store that is disposed or poisoned. The plugins for a
  write-ahead log and for undo replay user callbacks over the store.
- Every other package. Stores and `reactive` are synchronous; storage,
  log plugins, `serialize` and `wasm` are I/O and conversion; RPC, the plugin
  host, `capability` and `tray` are state machines of their own, built over
  these primitives and larger than this plan. The website, scripts and docker
  files are not part of the system.

## 8. Plan

Done: the modules of section 2: the queue first, because the budget and the
supervisor run on it; the owners next; then the budget and the supervisor, which
compose them by their promises; then the two components outside one thread's
discipline, the shared cells with the array above them and the log store with
the subscriptions above it, each pair built the same way: the lower one is
proved to implement an atomic specification, and the upper one relies on that.

Left, models, in this order:

1. `HealthMonitor` (`S/health.ts`): check, timeout and late answer; one check
   at a time; one verdict, none after close.
2. `WalReplay` (`D/wal.ts`): pending records replayed after a reopening, over
   `CommittedLog`.
3. `QuiescenceTracker` and the pending tracker; `LifecycleUnit` (start racing
   dispose); the synchronous disposal ledger; the radix sort of
   `L/disposal-order.ts` as a function against the order `LifecycleScope` uses.
4. `Resource`: the request cycle over a generation controller.

Left, theorems: every safety property of the runs has one, except where a
hypothesis takes out what section 6 shows to be false. What remains is to make
those hypotheses smaller: `retry_behind_command` of the supervisor could be
split into the exits that lead to a retry and those that do not, so that
`QuietRaces` would leave out fewer orders.
