--------------------------- MODULE ProvisionalScope ---------------------------
(***************************************************************************)
(* The temporary owner of packages/lifecycle (provisional-scope.ts) and    *)
(* the parent it commits to.  What it owns goes to the parent or is rolled *)
(* back -- "never both, never neither".                                    *)
(*                                                                         *)
(* User code runs inside its operations at four places, and may then call  *)
(* the scope, or close the parent: in the getters of a descriptor (own()   *)
(* here, and again in the parent's own()), in the abort listeners when the *)
(* scope settles, and in the release callbacks.  Of the parent the model   *)
(* keeps whether it is open and what it owns.                              *)
(***************************************************************************)
EXTENDS Integers, FiniteSets

CONSTANTS MaxOwn,         \* bound on the registrations
          GetterRollsBack \* a getter in own() may settle the scope

ASSUME ConstantsAssumption == MaxOwn \in Nat \ {0} /\ GetterRollsBack \in BOOLEAN

Item == 1 .. MaxOwn
None == 0

VARIABLES state, made, admitting, entries,
          signal,          \* "absent" until it is read, then "live" or "aborted"
          subscribed,      \* the scope listens to the signal of its parent
          op,              \* the settling operation in progress
          settleFailed,    \* aborting or detaching threw
          remaining,       \* entries taken by the operation and not dealt with
          offering,        \* the entry inside parent.own(), or None
          current,         \* the entry whose release callback was called, or None
          waiting,         \* ... and returned a promise
          failed,          \* entries whose release failed
          released,        \* entries released by this scope
          parentOpen, parentOwns,
          commitPromise, rollbackPromise

vars == <<state, made, admitting, entries, signal, subscribed, op, settleFailed,
          remaining, offering, current, waiting, failed, released, parentOpen,
          parentOwns, commitPromise, rollbackPromise>>

registry == <<made, admitting, entries>>
release  == <<current, waiting, failed, released>>
parent   == <<parentOpen, parentOwns>>
promises == <<commitPromise, rollbackPromise>>

Init ==
    /\ state = "pending" /\ made = 0 /\ admitting = 0 /\ entries = {}
    /\ \/ signal = "absent" /\ subscribed = FALSE
       \/ signal = "live" /\ subscribed = TRUE
       \/ signal = "aborted" /\ subscribed = FALSE
    /\ op = "none" /\ settleFailed = FALSE /\ remaining = {} /\ offering = None
    /\ current = None /\ waiting = FALSE /\ failed = {} /\ released = {}
    /\ parentOpen = TRUE /\ parentOwns = {}
    /\ commitPromise = "none" /\ rollbackPromise = "none"

-----------------------------------------------------------------------------
\* Where user code runs: as a turn of its own, in abort listeners, in a getter
\* read by parent.own(), in a release callback, or while one is awaited.
UserRuns ==
    \/ op \in {"none", "listeners"} \/ offering # None \/ current # None

\* own(): the check, then the getters of the descriptor, then the push.
OwnBegins ==
    /\ UserRuns /\ state = "pending" /\ made + admitting < MaxOwn
    /\ admitting' = admitting + 1
    /\ UNCHANGED <<state, made, entries, signal, subscribed, op, settleFailed, remaining,
                   offering, release, parent, promises>>

\* Nothing that was called inside a getter is still on the stack.
StackEmpty ==
    waiting \/ (op # "listeners" /\ remaining = {} /\ offering = None /\ current = None)

Push(i) ==
    /\ admitting > 0 /\ StackEmpty
    /\ made' = made + 1 /\ admitting' = admitting - 1
    /\ entries' = entries \cup {i}
    /\ UNCHANGED <<state, signal, subscribed, op, settleFailed, remaining, offering,
                   release, parent, promises>>

OwnReturns == Push(made + 1)

\* The signal getter: the controller is created on the first read.
ReadSignal ==
    /\ UserRuns /\ signal = "absent"
    /\ signal' = IF state = "pending" THEN "live" ELSE "aborted"
    /\ UNCHANGED <<state, registry, subscribed, op, settleFailed, remaining, offering,
                   release, parent, promises>>

ParentSignalAborts ==
    /\ UserRuns /\ subscribed
    /\ signal' = "aborted" /\ subscribed' = FALSE
    /\ UNCHANGED <<state, registry, op, settleFailed, remaining, offering, release,
                   parent, promises>>

ParentCloses ==
    /\ UserRuns /\ parentOpen
    /\ parentOpen' = FALSE
    /\ UNCHANGED <<state, registry, signal, subscribed, op, settleFailed, remaining,
                   offering, release, parentOwns, promises>>

-----------------------------------------------------------------------------
\* commitTo() and rollback() up to #settle, whose abort runs the listeners of a
\* signal that is live, and which may fail.
Settle(to, committed, rolledBack) ==
    /\ UserRuns /\ state = "pending"
    /\ admitting > 0 => GetterRollsBack
    /\ state' = to
    /\ remaining' = entries /\ entries' = {}
    /\ signal' = IF signal = "live" THEN "aborted" ELSE signal
    /\ op' = IF signal = "live" THEN "listeners" ELSE "settled"
    /\ subscribed' = FALSE
    /\ settleFailed' \in {FALSE, signal # "absent"}
    /\ commitPromise' = committed /\ rollbackPromise' = rolledBack
    /\ UNCHANGED <<made, admitting, offering, release, parent>>

Rollback == Settle("rolledback", "none", "pending")

CommitTo == Settle("committed", "pending", "none")

ListenersReturn ==
    /\ op = "listeners"
    /\ op' = "settled"
    /\ UNCHANGED <<state, registry, signal, subscribed, settleFailed, remaining, offering,
                   release, parent, promises>>

-----------------------------------------------------------------------------
Transferring == op = "settled" /\ state = "committed" /\ offering = None

Offer(i) ==
    /\ Transferring /\ i \in remaining /\ parentOpen
    /\ offering' = i
    /\ UNCHANGED <<state, registry, signal, subscribed, op, settleFailed, remaining,
                   release, parent, promises>>

Oldest(i) == \A j \in remaining : i <= j
Newest(i) == \A j \in remaining : j <= i

\* parent.own() of the oldest entry left: an open parent reads the descriptor.
ParentAdmits(i) == Oldest(i) /\ Offer(i)

ParentOwns ==
    /\ offering # None
    /\ parentOwns' = parentOwns \cup {offering}
    /\ remaining' = remaining \ {offering}
    /\ offering' = None
    /\ UNCHANGED <<state, registry, signal, subscribed, op, settleFailed, release,
                   parentOpen, promises>>

Compensate(rest, refused) ==
    /\ refused
    /\ state' = "rolledback"
    /\ remaining' = rest /\ offering' = None
    /\ UNCHANGED <<registry, signal, subscribed, op, settleFailed, release, parent,
                   promises>>

Refused == \/ offering # None
           \/ Transferring /\ remaining # {} /\ ~parentOpen

\* Faulty variant: the entry the parent refused is taken to be transferred.
ParentRefusesSkipping ==
    \E i \in remaining : Oldest(i) /\ Compensate(remaining \ {i}, Refused)

\* The parent is closed, or refuses the descriptor (its order is not valid):
\* what it did not take is released here.
ParentRefuses == Compensate(remaining, Refused)

Promise(failing) == IF failing THEN "rejected" ELSE "resolved"

CommitSucceeds ==
    /\ Transferring /\ remaining = {}
    /\ op' = "done"
    /\ commitPromise' = Promise(settleFailed)
    /\ UNCHANGED <<state, registry, signal, subscribed, settleFailed, remaining, offering,
                   release, parent, rollbackPromise>>

-----------------------------------------------------------------------------
Releasing == op = "settled" /\ state = "rolledback"

Call(i) ==
    /\ Releasing /\ current = None /\ i \in remaining
    /\ current' = i /\ remaining' = remaining \ {i}
    /\ UNCHANGED <<state, registry, signal, subscribed, op, settleFailed, offering,
                   waiting, failed, released, parent, promises>>

\* Faulty variant: the oldest entry is released first.
CallReleaseOldest(i) == Oldest(i) /\ Call(i)

\* The release loop of rollback() and of the compensation: newest first.
CallRelease(i) == Newest(i) /\ Call(i)

\* The compensation publishes its promise when its first callback waits; before
\* that rollback() finds none.
ReleaseWaits ==
    /\ current # None /\ ~waiting
    /\ waiting' = TRUE
    /\ rollbackPromise' = "pending"
    /\ UNCHANGED <<state, registry, signal, subscribed, op, settleFailed, remaining,
                   offering, current, failed, released, parent, commitPromise>>

ReleaseReturns(ok) ==
    /\ current # None /\ (waiting => admitting = 0)
    /\ released' = released \cup {current}
    /\ failed' = IF ok THEN failed ELSE failed \cup {current}
    /\ current' = None /\ waiting' = FALSE
    /\ UNCHANGED <<state, registry, signal, subscribed, op, settleFailed, remaining,
                   offering, parent, promises>>

\* A rollback rejects on a failure; the compensation of a commit resolves its
\* rollback promise all the same, and rejects the commit.
FinishWhen(over) ==
    /\ Releasing /\ admitting = 0 /\ over
    /\ op' = "done"
    /\ IF commitPromise = "none"
       THEN /\ rollbackPromise' = Promise(failed # {} \/ settleFailed)
            /\ UNCHANGED commitPromise
       ELSE rollbackPromise' = "resolved" /\ commitPromise' = "rejected"
    /\ UNCHANGED <<state, registry, signal, subscribed, settleFailed, remaining, offering,
                   release, parent>>

\* Faulty variants: the last release is not awaited; a failure ends the loop
\* without settling anything.
FinishWithoutAwait == FinishWhen(remaining = {})
FinishOnSuccess    == FinishWhen(remaining = {} /\ current = None /\ failed = {})

FinishRelease == FinishWhen(remaining = {} /\ current = None)

Next ==
    \/ OwnBegins \/ OwnReturns \/ ReadSignal \/ ParentSignalAborts \/ ParentCloses
    \/ Rollback \/ CommitTo \/ ListenersReturn
    \/ ParentOwns \/ ParentRefuses \/ CommitSucceeds \/ ReleaseWaits \/ FinishRelease
    \/ \E i \in Item : ParentAdmits(i) \/ CallRelease(i)
    \/ \E ok \in BOOLEAN : ReleaseReturns(ok)

Spec == Init /\ [][Next]_vars

\* What runs on the thread goes on, and release callbacks settle.
Fairness ==
    /\ WF_vars(ListenersReturn) /\ WF_vars(ParentRefuses) /\ WF_vars(CommitSucceeds)
    /\ WF_vars(ParentOwns) /\ WF_vars(FinishRelease)
    /\ WF_vars(\E i \in Item : ParentAdmits(i) \/ CallRelease(i))
    /\ WF_vars(\E ok \in BOOLEAN : ReleaseReturns(ok))

FairSpec == Spec /\ Fairness

-----------------------------------------------------------------------------
Ledger == INSTANCE ReleaseLedger WITH
    open      <- state = "pending",
    order     <- [i \in Item |-> 0],
    held      <- entries \cup remaining,
    releasing <- {current} \ {None},
    gone      <- parentOwns \cup released

\* The variables keep their types.
TypeOK ==
    /\ state \in {"pending", "committed", "rolledback"}
    /\ made \in 0 .. MaxOwn /\ admitting \in 0 .. MaxOwn - made
    /\ UNION {entries, remaining, failed, released, parentOwns} \subseteq 1 .. made
    /\ {offering, current} \subseteq 0 .. made
    /\ signal \in {"absent", "live", "aborted"}
    /\ op \in {"none", "listeners", "settled", "done"}
    /\ {subscribed, settleFailed, waiting, parentOpen} \subseteq BOOLEAN
    /\ {commitPromise, rollbackPromise} \subseteq {"none", "pending", "resolved", "rejected"}

\* "never both, never neither": once the scope is settled and its operation is
\* over, every registration is owned by the parent or was released here.
NeverBothNeverNeither ==
    /\ parentOwns \cap (released \cup remaining \cup {current}) \subseteq {offering}
    /\ op = "done" => parentOwns \cup released = 1 .. made

\* "keeps what the parent accepted and releases the rest": the parent always has
\* a prefix of the registrations, and nothing after a refusal.  A commit that
\* resolves has given everything to the parent; the compensation of one that
\* does not is over when it rejects.
CommitTellsTheTruth ==
    /\ \A i \in parentOwns : 1 .. i \subseteq parentOwns
    /\ commitPromise = "resolved" => parentOwns = 1 .. made /\ ~settleFailed
    /\ {commitPromise, rollbackPromise} \cap {"resolved", "rejected"} # {} =>
           current = None /\ remaining = {}

\* The settling operation ends.
Settles == state # "pending" ~> op = "done"

\* The scope is an owner as ReleaseLedger states it: entries go to the parent or
\* are released one at a time, newest first.
ImplementsReleaseLedger == Ledger!Spec
=============================================================================
