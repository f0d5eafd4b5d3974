---------------------------- MODULE LifecycleScope ----------------------------
(***************************************************************************)
(* The asynchronous owner of packages/lifecycle (lifecycle-scope.ts) with  *)
(* the release loop it shares with the other owners                        *)
(* (dispose-transaction.ts) and the error collector (errors.ts).           *)
(*                                                                         *)
(* Operations run to completion on the JavaScript thread.  own() is the    *)
(* exception: it reads the descriptor between its check and its push, and  *)
(* a getter of the descriptor is user code that may call the scope again;  *)
(* "admitting" holds the own() calls that are interrupted that way.  The   *)
(* release loop keeps the thread until a callback returns a promise.  A    *)
(* callback that runs can change nothing: own() and dispose() refuse it,   *)
(* close() and release() find nothing to do.                               *)
(***************************************************************************)
EXTENDS Integers, Sequences, FiniteSets

CONSTANTS Resource,
          Descriptor,  \* records [order, chain, bounded, gc]
          Policy,      \* error policies
          MaxOwn,      \* bound on the registrations
          GetterMay    \* what a getter of a descriptor may call, besides the rest

ASSUME ConstantsAssumption ==
    /\ MaxOwn \in Nat \ {0} /\ GetterMay \subseteq {"dispose"}
    /\ Policy \subseteq {"throw", "collect", "report", "firstError"}
    /\ Descriptor \subseteq [order : Int, chain : {"custom", "graceful", "force"},
                             bounded : BOOLEAN, gc : BOOLEAN]

Registration == 1 .. MaxOwn
None         == 0
Phase        == {"custom", "graceful", "force"}
Call         == [resource : Resource, descriptor : Descriptor]
Failure      == Registration \X Phase

VARIABLES policy,
          lifecycle,
          owned,          \* every registration made, in order: a sequence of calls
          admitting,      \* own() calls whose descriptor is being read, innermost last
          entries,        \* the live registrations
          armed,          \* registrations the finalization registry watches
          abandoned,      \* the application has dropped the scope
          disposePromise,
          plan,           \* the snapshot that is left to release
          current,        \* the registration being released, or None
          outcome,        \* registration -> phase -> what its callback did
          handedBack, disposed, collected, \* registrations by how they ended
          errors,         \* the collector's entries
          reported,       \* failures the collector gave to the reporter
          diagnosed,      \* failures of a force phase reported the moment they happened
          delivered       \* failures the dispose promise carried

vars == <<policy, lifecycle, owned, admitting, entries, armed, abandoned,
          disposePromise, plan, current, outcome, handedBack, disposed, collected,
          errors, reported, diagnosed, delivered>>

registry == <<owned, admitting, entries, armed, abandoned, handedBack, collected>>
loop     == <<plan, current, outcome, disposed, errors, reported, diagnosed, delivered>>

Init ==
    /\ policy \in Policy /\ lifecycle = "open" /\ disposePromise = "none"
    /\ owned = <<>> /\ admitting = <<>>
    /\ entries = {} /\ armed = {} /\ abandoned = FALSE
    /\ plan = {} /\ current = None
    /\ outcome = [r \in Registration |-> [p \in Phase |-> "not_called"]]
    /\ handedBack = {} /\ disposed = {} /\ collected = {}
    /\ errors = <<>> /\ reported = {} /\ diagnosed = {} /\ delivered = {}

-----------------------------------------------------------------------------
\* The phases still to be called for r: its own kind, and force after a
\* graceful phase that ended in one of "degrading".
DueAfter(degrading, r) ==
    LET chain == owned[r].descriptor.chain
    IN  {p \in Phase :
            /\ outcome[r][p] = "not_called"
            /\ p = chain \/ ( /\ p = "force" /\ chain = "graceful"
                              /\ outcome[r]["graceful"] \in degrading)}

\* Faulty variant: a graceful phase that timed out ends the chain.
DueOnFailureOnly(r) == DueAfter({"failed"}, r)

\* The phases the degrade chain of r calls next.
Due(r) == DueAfter({"failed", "timed_out"}, r)

Waiting(r) == \E p \in Phase : outcome[r][p] \in {"running", "joining"}

\* The release loop holds the thread.
LoopRuns == IF current = None THEN plan # {} ELSE ~Waiting(current)

UserRuns == ~LoopRuns /\ ~abandoned

\* own() up to the reading of the descriptor.
OwnBegins(call) ==
    /\ UserRuns /\ lifecycle = "open"
    /\ Len(owned) + Len(admitting) < MaxOwn
    /\ admitting' = Append(admitting, call)
    /\ UNCHANGED <<policy, lifecycle, owned, entries, armed, abandoned,
                   disposePromise, handedBack, collected, loop>>

Push(r) ==
    LET call == admitting[Len(admitting)]
    IN  /\ admitting # <<>> /\ ~LoopRuns
        /\ owned' = Append(owned, call)
        /\ admitting' = SubSeq(admitting, 1, Len(admitting) - 1)
        /\ entries' = entries \cup {r}
        /\ armed' = IF call.descriptor.gc THEN armed \cup {r} ELSE armed
        /\ UNCHANGED <<policy, lifecycle, abandoned, disposePromise, handedBack,
                       collected, loop>>

\* The rest of own(): the innermost call returns first.
OwnReturns == Push(Len(owned) + 1)

\* release(): the earliest live registration of the resource is handed back,
\* and its finalizer is unregistered.
Release(resource) ==
    /\ UserRuns
    /\ \E r \in entries :
        /\ owned[r].resource = resource
        /\ \A q \in entries : owned[q].resource = resource => r <= q
        /\ entries' = entries \ {r}
        /\ armed' = armed \ {r}
        /\ handedBack' = handedBack \cup {r}
    /\ UNCHANGED <<policy, lifecycle, owned, admitting, abandoned, disposePromise,
                   collected, loop>>

Close ==
    /\ UserRuns /\ lifecycle = "open"
    /\ lifecycle' = "closing"
    /\ UNCHANGED <<policy, disposePromise, registry, loop>>

DisposeTaking(left, stillArmed) ==
    /\ UserRuns /\ disposePromise = "none"
    /\ admitting # <<>> => "dispose" \in GetterMay
    /\ lifecycle' = "closing" /\ disposePromise' = "pending"
    /\ plan' = entries /\ entries' = left /\ armed' = stillArmed
    /\ UNCHANGED <<policy, owned, admitting, abandoned, handedBack, collected,
                   current, outcome, disposed, errors, reported, diagnosed, delivered>>

\* Faulty variant: the finalizers stay registered.
DisposeLeavesArmed == DisposeTaking({}, armed)

\* dispose(): close, take the snapshot, unregister its finalizers, publish the
\* promise.  A second call returns the same promise.
Dispose == DisposeTaking({}, armed \ entries)

-----------------------------------------------------------------------------
OrderOf(r) == owned[r].descriptor.order

\* Faulty variant: the oldest first among equals.
PrecedesOldestFirst(q, r) ==
    OrderOf(q) > OrderOf(r) \/ (OrderOf(q) = OrderOf(r) /\ q < r)

\* The order of the plan: higher order first, newest first among equals.
Precedes(q, r) ==
    OrderOf(q) > OrderOf(r) \/ (OrderOf(q) = OrderOf(r) /\ q > r)

BeginItem(r) ==
    /\ current = None /\ r \in plan
    /\ \A q \in plan \ {r} : Precedes(r, q)
    /\ plan' = plan \ {r} /\ current' = r
    /\ UNCHANGED <<policy, lifecycle, disposePromise, registry, outcome, disposed,
                   errors, reported, diagnosed, delivered>>

\* Faulty variant: the callback is given the promise it is holding up, and
\* waits for it.
JoinWaits == "joining"

\* A callback that calls dispose() on its own scope is refused, and throws.
JoinOutcome == "failed"

CallOutcome(act) ==
    CASE act = "returns" -> "ok"      [] act = "throws" -> "failed"
      [] act = "waits"   -> "running" [] act = "joins"  -> JoinOutcome

\* What a callback did.  A failed force is told at once, whatever the policy, as
\* RELEASE_FORCE_FAILED; the collector learns of it besides when the item is done.
SetOutcome(p, o) ==
    /\ outcome' = [outcome EXCEPT ![current][p] = o]
    /\ diagnosed' = IF p = "force" /\ o = "failed"
                    THEN diagnosed \cup {<<current, p>>} ELSE diagnosed

CallPhase(act) ==
    /\ current # None /\ ~Waiting(current)
    /\ \E p \in Due(current) : SetOutcome(p, CallOutcome(act))
    /\ UNCHANGED <<policy, lifecycle, disposePromise, registry, plan, current,
                   disposed, errors, reported, delivered>>

Settles(p, o) ==
    /\ current # None /\ admitting = <<>> /\ outcome[current][p] = "running"
    /\ SetOutcome(p, o)
    /\ UNCHANGED <<policy, lifecycle, disposePromise, registry, plan, current,
                   disposed, errors, reported, delivered>>

\* The promise of a callback settles.
CallbackSettles(p, o) == o \in {"ok", "failed"} /\ Settles(p, o)

\* The budget of a graceful phase runs out: waiting ends, the phase is not
\* cancelled, and nothing is recorded.
GracefulTimesOut ==
    /\ current # None /\ owned[current].descriptor.bounded
    /\ Settles("graceful", "timed_out")

-----------------------------------------------------------------------------
\* The failures of an item, in callback order.
FailuresOf(r) ==
    LET Of(p) == IF outcome[r][p] = "failed" THEN << <<r, p>> >> ELSE <<>>
    IN  Of("custom") \o Of("graceful") \o Of("force")

Members(s) == {s[i] : i \in DOMAIN s}

\* Faulty variant: failures after the first are dropped.
ToReporterFirstOnly(failures) ==
    IF policy = "report" THEN Members(failures) ELSE {}

\* The failures of an item that the collector gives to the reporter.
ToReporter(failures) ==
    CASE policy = "report"     -> Members(failures)
      [] policy = "firstError" -> IF errors = <<>> /\ failures # <<>>
                                  THEN Members(Tail(failures)) ELSE Members(failures)
      [] OTHER                 -> {}

\* ... and those that it keeps.
ToKeep(failures) ==
    CASE policy = "report"     -> <<>>
      [] policy = "firstError" -> IF errors = <<>> /\ failures # <<>>
                                  THEN <<Head(failures)>> ELSE <<>>
      [] OTHER                 -> failures

ItemDone ==
    LET failures == FailuresOf(current)
    IN  /\ current # None /\ ~Waiting(current) /\ Due(current) = {}
        /\ reported' = reported \cup ToReporter(failures)
        /\ errors' = errors \o ToKeep(failures)
        /\ disposed' = disposed \cup {current}
        /\ current' = None
        /\ UNCHANGED <<policy, lifecycle, disposePromise, registry, plan, outcome,
                       diagnosed, delivered>>

Rejects == policy \in {"throw", "firstError"} /\ errors # <<>>

\* The end of the loop, or of the dispose of an empty scope.
Finish ==
    /\ disposePromise = "pending" /\ admitting = <<>> /\ plan = {} /\ current = None
    /\ lifecycle' = "terminal"
    /\ disposePromise' = IF Rejects THEN "rejected" ELSE "resolved"
    /\ delivered' = Members(errors)
    /\ UNCHANGED <<policy, registry, plan, current, outcome, disposed, errors,
                   reported, diagnosed>>

\* Nobody holds the scope any more; it was never disposed.
Abandon ==
    /\ UserRuns /\ disposePromise = "none" /\ admitting = <<>>
    /\ abandoned' = TRUE
    /\ UNCHANGED <<policy, lifecycle, disposePromise, owned, admitting, entries,
                   armed, handedBack, collected, loop>>

\* The finalizer of a resource that nothing reaches calls its force.
GcFires(r) ==
    /\ r \in armed /\ admitting = <<>>
    /\ abandoned \/ \A q \in entries \cup plan \cup ({current} \ {None}) :
                        owned[q].resource # owned[r].resource
    /\ armed' = armed \ {r}
    /\ collected' = collected \cup {r}
    /\ UNCHANGED <<policy, lifecycle, disposePromise, owned, admitting, entries,
                   abandoned, handedBack, loop>>

Next ==
    \/ OwnReturns \/ Close \/ Dispose \/ Abandon
    \/ GracefulTimesOut \/ ItemDone \/ Finish
    \/ \E call \in Call : OwnBegins(call)
    \/ \E resource \in Resource : Release(resource)
    \/ \E r \in Registration : BeginItem(r) \/ GcFires(r)
    \/ \E act \in {"returns", "throws", "waits", "joins"} : CallPhase(act)
    \/ \E p \in Phase, o \in {"ok", "failed"} : CallbackSettles(p, o)

Spec == Init /\ [][Next]_vars

\* The thread runs what is ready, a budget that is over ends the wait, and a
\* callback that has no budget settles.
Fairness ==
    /\ WF_vars(OwnReturns) /\ WF_vars(ItemDone) /\ WF_vars(Finish)
    /\ WF_vars(GracefulTimesOut)
    /\ WF_vars(\E r \in Registration : BeginItem(r))
    /\ WF_vars(\E act \in {"returns", "throws", "waits", "joins"} : CallPhase(act))
    /\ WF_vars(\E p \in Phase, o \in {"ok", "failed"} :
                  /\ CallbackSettles(p, o)
                  /\ p = "graceful" => ~owned[current].descriptor.bounded)

FairSpec == Spec /\ Fairness

-----------------------------------------------------------------------------
\* The order each registration declared, 0 as long as it is not made.
DeclaredOrder ==
    [r \in Registration |-> IF r \in DOMAIN owned THEN owned[r].descriptor.order ELSE 0]

Ledger == INSTANCE ReleaseLedger WITH
    open      <- disposePromise = "none",
    order     <- DeclaredOrder,
    held      <- (entries \cup plan) \ collected,
    releasing <- {current} \ {None},
    gone      <- handedBack \cup disposed \cup collected

Ended == disposePromise \in {"resolved", "rejected"}

\* The variables keep their types, and every live set refers to registrations
\* that were made.
TypeOK ==
    /\ policy \in Policy /\ lifecycle \in {"open", "closing", "terminal"}
    /\ owned \in Seq(Call) /\ admitting \in Seq(Call)
    /\ Len(owned) + Len(admitting) <= MaxOwn
    /\ UNION {entries, armed, plan, handedBack, disposed, collected} \subseteq DOMAIN owned
    /\ current \in DOMAIN owned \cup {None}
    /\ abandoned \in BOOLEAN
    /\ disposePromise \in {"none", "pending", "resolved", "rejected"}
    /\ outcome \in [Registration -> [Phase ->
           {"not_called", "running", "joining", "ok", "failed", "timed_out"}]]
    /\ errors \in Seq(Failure) /\ UNION {reported, diagnosed, delivered} \subseteq Failure

Places == <<entries \ collected, plan, {current} \ {None}, handedBack, disposed, collected>>

\* "nothing is skipped or doubled": a registration is in one place -- live,
\* waiting in the plan, being released, handed back, released or collected.
OnePlace ==
    /\ UNION {Places[i] : i \in 1 .. 6} = DOMAIN owned
    /\ \A i, j \in 1 .. 6 : i # j => Places[i] \cap Places[j] = {}

\* "After close() or dispose(), own() throws": once dispose() was called no live
\* registration is left behind, for no later call would release it.  A getter
\* that disposes the scope breaks it.
NothingOwnedAfterDispose == disposePromise # "none" => entries = {}

\* When the dispose promise settles, everything in the snapshot was released
\* along the degrade chain of its descriptor: custom alone; graceful, and force
\* exactly when graceful failed or ran out of time; force otherwise.
DegradeChain ==
    \A r \in disposed :
        LET called == {p \in Phase : outcome[r][p] # "not_called"}
            chain  == owned[r].descriptor.chain
        IN  /\ called = IF chain = "graceful" /\ outcome[r]["graceful"] # "ok"
                        THEN {"graceful", "force"} ELSE {chain}
            /\ \A p \in called : outcome[r][p] \in {"ok", "failed", "timed_out"}
            /\ outcome[r]["force"] # "timed_out"

\* The collector gives every failure of a release to the caller once -- through
\* the promise or through the reporter -- and the promise rejects when the policy
\* says so.  A failed force alone is told twice: its RELEASE_FORCE_FAILED went to
\* the reporter before, under every policy.
FailuresSurface ==
    Ended =>
        LET failed == {f \in Failure : outcome[f[1]][f[2]] = "failed"}
        IN  /\ reported \cup delivered = failed
            /\ reported \cap delivered = {}
            /\ diagnosed = {f \in failed : f[2] = "force"}
            /\ disposePromise = "rejected" <=>
                   policy \in {"throw", "firstError"} /\ delivered # {}

\* dispose() settles although a bounded graceful phase may hang, and although a
\* callback may try to wait for the dispose it is part of.
DisposeSettles == disposePromise = "pending" ~> Ended

\* The scope is an owner as ReleaseLedger states it: releases run one at a time,
\* in order, after the scope stopped taking registrations.
ImplementsReleaseLedger == Ledger!Spec
=============================================================================
