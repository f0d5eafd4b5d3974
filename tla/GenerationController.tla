------------------------- MODULE GenerationController -------------------------
(***************************************************************************)
(* The latest-request-wins controller of packages/lifecycle                *)
(* (generation-controller.ts).                                             *)
(*                                                                         *)
(* Every operation runs to completion on the JavaScript thread, with one   *)
(* exception: aborting a request's signal dispatches its listeners, which  *)
(* are user code and may call the controller again.  "stack" holds the     *)
(* operations interrupted that way.  The signal is created when it is      *)
(* first read, so an abort before that runs no user code.                  *)
(***************************************************************************)
EXTENDS LatestRequest, Integers, Sequences, FiniteSets

CONSTANTS MaxGeneration,     \* bound on the generation number
          BeginDuringBegin,  \* a listener aborted by begin() may call begin()
          DisposeDuringBegin \* a listener aborted by begin() may call dispose()

ASSUME ConstantsAssumption ==
    /\ MaxBegins \in Nat \ {0} /\ MaxGeneration \in Nat
    /\ BeginDuringBegin \in BOOLEAN /\ DisposeDuringBegin \in BOOLEAN

VARIABLES generation,   \* the generation counter
          number,       \* request -> the generation number it was returned with
          observed      \* requests whose signal was read

vars == <<generation, current, controller, timer, registration, disposed,
          parentAborted, timers, listeners, status, number, observed, aborted,
          completed, uncancelled, unremoved, stack>>

ownership == <<current, controller, timer, registration, timers, listeners, aborted,
               uncancelled, unremoved>>

Timeout == {"none", "armed", "fires_now", "fails"}
\* A call of cancel() or removeEventListener() may throw, and have taken effect
\* or not.
Outcome == {"ok", "throws", "throws_live"}
Cleanup == [timer : Outcome, listener : Outcome]
Frame   == [op : {"begin", "release", "dispatch"}, req : Request \cup {None},
            timeout : Timeout, window : BOOLEAN, throws : BOOLEAN]

Init ==
    /\ generation = 0 /\ disposed = FALSE /\ parentAborted = FALSE
    /\ current = None /\ controller = None /\ timer = None /\ registration = None
    /\ timers = {} /\ listeners = {} /\ observed = {} /\ aborted = {}
    /\ completed = {} /\ uncancelled = {} /\ unremoved = {}
    /\ status = [r \in Request |-> "new"]
    /\ number = [r \in Request |-> 0]
    /\ stack = <<>>

-----------------------------------------------------------------------------
Top    == stack[Len(stack)]
Window == ~Idle /\ Top.window
Within(op) == \E i \in DOMAIN stack : stack[i].op = op
Pop    == stack' = SubSeq(stack, 1, Len(stack) - 1)

\* User code runs as a turn of its own, or in the listeners of an abort.
UserRuns == Idle \/ Window

\* The caller or the reporter of a release learns that a part of it failed.
Told(cleanup) == cleanup.timer # "ok" \/ cleanup.listener # "ok"

\* Cancel the current timer and remove the parent listener of l, each attempted
\* although the other throws.  A timer or listener that is being called is gone.
CleanUp(l, cleanup, fired, delivered) ==
    LET armed == IF cleanup.timer = "throws_live" THEN Some(timer) \ {fired} ELSE {}
        heard == IF cleanup.listener = "throws_live" THEN Some(l) \ {delivered} ELSE {}
    IN  /\ cleanup.timer # "ok" => timer # None
        /\ cleanup.listener # "ok" => l # None
        /\ timers' = (timers \ {timer, fired}) \cup armed
        /\ listeners' = (listeners \ {l, delivered}) \cup heard
        /\ uncancelled' = uncancelled \cup armed
        /\ unremoved' = unremoved \cup heard

\* Faulty variants: the old timer survives; the old signal is not aborted.
ReleaseKeepsTimer(shouldAbort, cleanup, fired, delivered) ==
    /\ current' = None /\ controller' = None /\ timer' = None /\ registration' = None
    /\ listeners' = listeners \ {registration, delivered}
    /\ UNCHANGED <<timers, uncancelled, unremoved>>
    /\ aborted' = IF shouldAbort THEN aborted \cup Some(controller) ELSE aborted

ReleaseWithoutAbort(shouldAbort, cleanup, fired, delivered) ==
    /\ CleanUp(registration, cleanup, fired, delivered)
    /\ current' = None /\ controller' = None /\ timer' = None /\ registration' = None
    /\ aborted' = aborted

\* releaseCurrent: drop the ownership first, then cancel, unsubscribe, abort.
ReleaseCurrent(shouldAbort, cleanup, fired, delivered) ==
    /\ CleanUp(registration, cleanup, fired, delivered)
    /\ current' = None /\ controller' = None /\ timer' = None /\ registration' = None
    /\ aborted' = IF shouldAbort THEN aborted \cup Some(controller) ELSE aborted

\* The abort dispatches listeners exactly when the signal was read and is new.
AbortRunsListeners == controller \in observed \ aborted

\* An operation with nothing left to do after the release ends with it.
InterruptedRelease ==
    stack' = IF AbortRunsListeners
             THEN Append(stack, [op |-> "release", req |-> None, timeout |-> "none",
                                 window |-> TRUE, throws |-> FALSE])
             ELSE stack

-----------------------------------------------------------------------------
\* begin() up to the release of the previous request, whose listeners run before
\* the rest.
BeginCall(r, timeout, cleanup) ==
    /\ UserRuns /\ ~disposed
    /\ Within("begin") => BeginDuringBegin
    /\ status[r] = "new" /\ \A q \in Request : q < r => status[q] # "new"
    /\ generation < MaxGeneration
    /\ ReleaseCurrent(TRUE, cleanup, None, None)
    /\ status' = [status EXCEPT ![r] = "beginning"]
    /\ stack' = Append(stack, [op |-> "begin", req |-> r, timeout |-> timeout,
                   window |-> AbortRunsListeners, throws |-> Told(cleanup)])
    /\ UNCHANGED <<generation, disposed, parentAborted, observed, completed, number>>

\* A cleanup failure of the previous request makes begin() throw before it
\* installs anything.
BeginThrows ==
    /\ ~Idle /\ Top.op = "begin" /\ Top.throws
    /\ status' = [status EXCEPT ![Top.req] = "refused"]
    /\ Pop
    /\ UNCHANGED <<generation, ownership, disposed, parentAborted, observed,
                   completed, number>>

\* The request is installed and invalidated in one go: the parent has aborted,
\* the timeout fired inside schedule(), or the admission failed and is undone.
\* Nothing listens to its signal yet.  A failure of this clean-up undoes the
\* admission too, which tries once more to remove the listener (a throwing
\* cancel() of a task that has fired is such a failure that leaves nothing).
BeginInvalidated(cleanup) ==
    LET r       == Top.req
        refused == Told(cleanup) \/ (~parentAborted /\ Top.timeout = "fails")
    IN  /\ ~Idle /\ Top.op = "begin" /\ ~Top.throws
        /\ parentAborted \/ Top.timeout \in {"fires_now", "fails"}
        /\ generation' = generation + 1
        /\ CleanUp(IF parentAborted THEN registration ELSE r, cleanup, None, None)
        /\ current' = None /\ controller' = None /\ timer' = None /\ registration' = None
        /\ aborted' = aborted \cup {r}
        /\ status' = [status EXCEPT ![r] = IF refused THEN "refused" ELSE "returned"]
        /\ number' = IF refused THEN number ELSE [number EXCEPT ![r] = generation + 1]
        /\ Pop
        /\ UNCHANGED <<disposed, parentAborted, observed, completed>>

BeginInstalls ==
    /\ ~Idle /\ Top.op = "begin" /\ ~Top.throws
    /\ ~parentAborted /\ Top.timeout \in {"none", "armed"}
    /\ LET r == Top.req IN
        /\ generation' = generation + 1
        /\ current' = r /\ controller' = r /\ registration' = r
        /\ listeners' = listeners \cup {r}
        /\ IF Top.timeout = "armed" THEN timer' = r /\ timers' = timers \cup {r}
           ELSE UNCHANGED <<timer, timers>>
        /\ status' = [status EXCEPT ![r] = "returned"]
        /\ number' = [number EXCEPT ![r] = generation + 1]
    /\ Pop
    /\ UNCHANGED <<disposed, parentAborted, observed, aborted, completed,
                   uncancelled, unremoved>>

\* The end of an interrupted release, or of the dispatch of a parent abort.
Return ==
    /\ ~Idle /\ Top.op # "begin"
    /\ Top.op = "dispatch" => listeners = {}
    /\ Pop
    /\ UNCHANGED <<generation, ownership, disposed, parentAborted, observed,
                   completed, status, number>>

ReadSignal(r) ==
    /\ UserRuns /\ status[r] = "returned" /\ r \notin observed
    /\ observed' = observed \cup {r}
    /\ UNCHANGED <<generation, ownership, disposed, parentAborted, completed,
                   status, number, stack>>

\* complete() of a stale token returns false and changes nothing.
Complete(r, cleanup) ==
    /\ UserRuns /\ ~disposed /\ current = r
    /\ ReleaseCurrent(FALSE, cleanup, None, None)
    /\ completed' = completed \cup {r}
    /\ UNCHANGED <<generation, disposed, parentAborted, observed, status, number, stack>>

Supersede(cleanup) ==
    /\ UserRuns /\ ~disposed /\ generation < MaxGeneration
    /\ generation' = generation + 1
    /\ ReleaseCurrent(TRUE, cleanup, None, None)
    /\ InterruptedRelease
    /\ UNCHANGED <<disposed, parentAborted, observed, completed, status, number>>

Dispose(cleanup) ==
    /\ UserRuns /\ ~disposed
    /\ Within("begin") => DisposeDuringBegin
    /\ disposed' = TRUE
    /\ generation' = generation + 1
    /\ ReleaseCurrent(TRUE, cleanup, None, None)
    /\ InterruptedRelease
    /\ UNCHANGED <<parentAborted, observed, completed, status, number>>

\* The timeout callback releases whatever is current: it carries no token.
TimeoutFires(r, cleanup) ==
    /\ Idle /\ r \in timers
    /\ ReleaseCurrent(TRUE, cleanup, r, None)
    /\ InterruptedRelease
    /\ UNCHANGED <<generation, disposed, parentAborted, observed, completed,
                   status, number>>

ParentAborts ==
    /\ UserRuns /\ ~parentAborted
    /\ parentAborted' = TRUE
    /\ stack' = Append(stack, [op |-> "dispatch", req |-> None, timeout |-> "none",
                               window |-> FALSE, throws |-> FALSE])
    /\ UNCHANGED <<generation, ownership, disposed, observed, completed, status, number>>

\* The dispatch calls each listener once; a called listener is unregistered.  It
\* releases whatever is current, also when it was left behind by another request.
ParentDelivers(r, cleanup) ==
    /\ ~Idle /\ Top.op = "dispatch" /\ r \in listeners
    /\ ReleaseCurrent(TRUE, cleanup, None, r)
    /\ InterruptedRelease
    /\ UNCHANGED <<generation, disposed, parentAborted, observed, completed,
                   status, number>>

Next ==
    \/ BeginThrows \/ BeginInstalls \/ Return \/ ParentAborts
    \/ \E r \in Request : ReadSignal(r)
    \/ \E cleanup \in Cleanup :
        \/ BeginInvalidated(cleanup) \/ Supersede(cleanup) \/ Dispose(cleanup)
        \/ \E r \in Request :
            \/ Complete(r, cleanup) \/ TimeoutFires(r, cleanup) \/ ParentDelivers(r, cleanup)
            \/ \E timeout \in Timeout : BeginCall(r, timeout, cleanup)

Spec == Init /\ [][Next]_vars

-----------------------------------------------------------------------------
\* The variables keep their types, and no request carries a generation number
\* the counter has not reached.
TypeOK ==
    /\ generation \in Nat
    /\ {current, controller, timer, registration} \subseteq Request \cup {None}
    /\ {disposed, parentAborted} \subseteq BOOLEAN
    /\ UNION {timers, listeners, observed, aborted, completed, uncancelled, unremoved} \subseteq Request
    /\ status \in [Request -> {"new", "beginning", "returned", "refused"}]
    /\ number \in [Request -> 0 .. generation]
    /\ stack \in Seq(Frame)

\* "After dispose(), begin() throws": no request is handed out by a disposed
\* controller.
NoRequestAfterDispose ==
    [][disposed => \A r \in Request :
          status'[r] = "returned" => status[r] = "returned"]_vars
=============================================================================
