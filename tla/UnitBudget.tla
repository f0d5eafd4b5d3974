----------------------------- MODULE UnitBudget -----------------------------
(***************************************************************************)
(* The admission budget of packages/supervision (budget.ts): how many      *)
(* units of one kind may run, how many may start per window, and a queue   *)
(* of callers that wait for both.                                          *)
(*                                                                         *)
(* The queue is a MutationQueue: the task of the oldest request is the     *)
(* head, and it holds the queue across two awaits, the wait for capacity   *)
(* and the parent budget's answer.  Every step below is one turn; callers, *)
(* timers and releases come between any two of them.  The window of grant  *)
(* times (timestamp-window.ts) is two counters: the grants it stores, and  *)
(* how many of those are past the window and not trimmed yet.  The parent  *)
(* is any budget: it grants, refuses or throws, at any time.               *)
(***************************************************************************)
EXTENDS Integers, FiniteSets

CONSTANTS MaxUnits,     \* capacity
          MaxRate,      \* bound on the grants per window
          MaxRequests   \* bound on the calls of acquire and tryAcquire

ASSUME ConstantsAssumption ==
    MaxUnits \in Nat /\ MaxRate \in Nat /\ MaxRequests \in Nat \ {0}

Request == 1 .. MaxRequests   \* in the order of the calls
None    == 0

Refusals == {"closed", "aborted", "full", "rate_limited", "timeout", "upstream"}

\* The options.  Rate 0 stands for launchRate: false.
Policy == [overflow : {"queue", "reject"}, parent : BOOLEAN, rate : 0 .. MaxRate]

VARIABLES policy,
          calls, closed,
          status,       \* what the caller of each request has
          queued,       \* requests whose task has not begun
          head,         \* the request whose task runs, or None
          phase,        \* where that task is
          upstream,     \* the answer of the parent to the head
          failing,      \* tasks that threw, their catch handler not run yet
          wakeTimer,    \* the rate timer of a waiting head
          stored, expired,
          local,        \* requests that hold a slot here
          parentHeld    \* requests that hold a lease of the parent

vars == <<policy, calls, closed, status, queued, head, phase, upstream, failing,
          wakeTimer, stored, expired, local, parentHeld>>

task   == <<head, phase, wakeTimer>>
window == <<stored, expired>>

Init ==
    /\ policy \in Policy
    /\ calls = 0 /\ closed = FALSE
    /\ status = [r \in Request |-> "new"]
    /\ queued = {} /\ head = None /\ phase = "idle" /\ upstream = "none"
    /\ failing = {} /\ wakeTimer = "none"
    /\ stored = 0 /\ expired = 0
    /\ local = {} /\ parentHeld = {}

HasParent == policy.parent
RateMax   == policy.rate

Pending == {r \in Request : status[r] = "pending"}
Granted == {r \in Request : status[r] = "granted"}

\* Shared reading of the two limits.  A window is trimmed when it is read.
Full      == Cardinality(local) >= MaxUnits
Live      == stored - expired
RateSpent == RateMax > 0 /\ Live >= RateMax

Trim == stored' = Live /\ expired' = 0

\* recordGrant, right after a trim.
TrimAndRecord == stored' = (IF RateMax > 0 THEN Live + 1 ELSE Live) /\ expired' = 0
RecordGrant   == stored' = (IF RateMax > 0 THEN stored + 1 ELSE stored) /\ UNCHANGED expired

\* notify(): a waiting head checks again, its timer cancelled.
Notify ==
    /\ phase' = IF phase = "waiting" THEN "woken" ELSE phase
    /\ wakeTimer' = "none"
    /\ UNCHANGED head

-----------------------------------------------------------------------------
\* Beginning to wait: the rate timer is armed for the oldest stored grant, with
\* no delay when that grant is past the window already.
Wait(grants, past) ==
    /\ phase' = "waiting"
    /\ wakeTimer' = IF RateMax = 0 \/ grants < RateMax THEN "none"
                    ELSE IF past > 0 THEN "due" ELSE "armed"

Return == phase' = "returned" /\ wakeTimer' = "none"

\* Faulty variant: nobody is full.
NeverFull == FALSE

IsFull == Full

\* One pass of the admission loop for the head r, s being the statuses.
Admit(r, s) ==
    /\ head' = r
    /\ \/ /\ s[r] # "pending"
          /\ Return /\ status' = s
          /\ UNCHANGED <<upstream, window, local>>
       \/ /\ s[r] = "pending" /\ IsFull
          /\ Wait(stored, expired) /\ status' = s
          /\ UNCHANGED <<upstream, window, local>>
       \/ /\ s[r] = "pending" /\ ~IsFull /\ RateSpent
          /\ Trim /\ Wait(Live, 0) /\ status' = s
          /\ UNCHANGED <<upstream, local>>
       \/ /\ s[r] = "pending" /\ ~IsFull /\ ~RateSpent /\ HasParent
          /\ Trim /\ local' = local \cup {r}
          /\ phase' = "upstream" /\ upstream' = "pending" /\ wakeTimer' = "none"
          /\ status' = s
       \/ /\ s[r] = "pending" /\ ~IsFull /\ ~RateSpent /\ ~HasParent
          /\ TrimAndRecord /\ local' = local \cup {r}
          /\ status' = [s EXCEPT ![r] = "granted"]
          /\ Return /\ UNCHANGED upstream

-----------------------------------------------------------------------------
Called(r) == calls < MaxRequests /\ r = calls + 1 /\ calls' = r

Refuse(r, reason) ==
    /\ Called(r)
    /\ status' = [status EXCEPT ![r] = reason]
    /\ UNCHANGED <<policy, closed, queued, task, upstream, failing, window, local,
                   parentHeld>>

\* tryAcquire(), refused here or by the parent.
TryRefused(r) ==
    \/ closed /\ Refuse(r, "closed")
    \/ ~closed /\ (Full \/ Pending # {}) /\ Refuse(r, "full")
    \/ /\ ~closed /\ ~Full /\ Pending = {}
       /\ Called(r) /\ Trim
       /\ \/ RateSpent /\ status' = [status EXCEPT ![r] = "rate_limited"]
          \/ ~RateSpent /\ HasParent /\ status' = [status EXCEPT ![r] = "upstream"]
       /\ UNCHANGED <<policy, closed, queued, task, upstream, failing, local, parentHeld>>

Take(r) ==
    /\ ~closed /\ ~Full /\ ~RateSpent
    /\ Called(r) /\ TrimAndRecord
    /\ status' = [status EXCEPT ![r] = "granted"]
    /\ local' = local \cup {r}
    /\ parentHeld' = IF HasParent THEN parentHeld \cup {r} ELSE parentHeld
    /\ UNCHANGED <<policy, closed, queued, task, upstream, failing>>

\* Faulty variant: requests that wait are not looked at.
TryJumps(r) == Take(r)

TryGranted(r) == Pending = {} /\ Take(r)

AcquireRefused(r) ==
    \/ closed /\ Refuse(r, "closed")
    \/ ~closed /\ Refuse(r, "aborted")
    \/ ~closed /\ policy.overflow = "reject" /\ (Full \/ Pending # {}) /\ Refuse(r, "full")

Admissible(r) ==
    /\ Called(r) /\ ~closed
    /\ ~(policy.overflow = "reject" /\ (Full \/ Pending # {}))
    /\ UNCHANGED <<policy, closed, failing, parentHeld>>

Waiting(r) == [status EXCEPT ![r] = "pending"]

\* An idle queue runs the task of the request at once.
AcquireIdle(r) ==
    /\ Admissible(r) /\ phase = "idle"
    /\ Admit(r, Waiting(r))
    /\ UNCHANGED queued

AcquireQueued(r) ==
    /\ Admissible(r) /\ phase # "idle"
    /\ status' = Waiting(r)
    /\ queued' = queued \cup {r}
    /\ UNCHANGED <<task, upstream, window, local>>

\* cancel() and #settle: by the caller's signal, the queue timeout, or a task
\* that threw.
Cancel(r, reason) ==
    /\ status[r] = "pending"
    /\ status' = [status EXCEPT ![r] = reason]
    /\ Notify
    /\ UNCHANGED <<policy, calls, closed, queued, upstream, window, local, parentHeld>>

CallerCancels(r) == (\/ Cancel(r, "aborted") \/ Cancel(r, "timeout")) /\ UNCHANGED failing

\* Faulty variant: the caller of a task that threw gets no answer.
FailureIgnored(r) ==
    /\ r \in failing /\ failing' = failing \ {r}
    /\ UNCHANGED <<policy, calls, closed, status, queued, task, upstream, window,
                   local, parentHeld>>

QueueFailed(r) ==
    /\ r \in failing /\ failing' = failing \ {r}
    /\ \/ Cancel(r, "closed")
       \/ /\ status[r] # "pending"
          /\ UNCHANGED <<policy, calls, closed, status, queued, task, upstream, window,
                         local, parentHeld>>

Closing(refused) ==
    /\ ~closed /\ closed' = TRUE
    /\ status' = [r \in Request |-> IF r \in refused THEN "closed" ELSE status[r]]
    /\ (IF refused = {} THEN UNCHANGED task ELSE Notify)
    /\ UNCHANGED <<policy, calls, queued, upstream, failing, window, local, parentHeld>>

\* Faulty variant: only requests in the queue are refused.
CloseQueued == Closing(Pending \cap queued)

Close == Closing(Pending)

-----------------------------------------------------------------------------
\* The task resumes after a wake.
HeadResumes ==
    /\ phase = "woken"
    /\ Admit(head, status)
    /\ UNCHANGED <<policy, calls, closed, queued, failing, parentHeld>>

\* The task of the head is over: the queue starts the oldest waiting task.
Older(r, q) == r <= q
Newer(r, q) == q <= r

Begin(r) ==
    /\ queued' = queued \ {r}
    /\ Admit(r, status)

\* Faulty variant: the newest request is served first.
AdvanceNewest ==
    /\ phase = "returned" /\ queued # {}
    /\ \E r \in queued : (\A q \in queued : Newer(r, q)) /\ Begin(r)
    /\ UNCHANGED <<policy, calls, closed, failing, parentHeld>>

QueueAdvances ==
    /\ phase = "returned" /\ queued # {}
    /\ \E r \in queued : (\A q \in queued : Older(r, q)) /\ Begin(r)
    /\ UNCHANGED <<policy, calls, closed, failing, parentHeld>>

QueueIdles ==
    /\ phase = "returned" /\ queued = {}
    /\ head' = None /\ phase' = "idle"
    /\ UNCHANGED <<policy, calls, closed, status, queued, upstream, failing, wakeTimer,
                   window, local, parentHeld>>

\* The budget above answers acquire(signal).
ParentAnswers ==
    /\ upstream = "pending"
    /\ upstream' \in {"granted", "refused", "threw"}
    /\ parentHeld' = IF upstream' = "granted" THEN parentHeld \cup {head} ELSE parentHeld
    /\ UNCHANGED <<policy, calls, closed, status, queued, task, failing, window, local>>

HeadReturns ==
    /\ upstream' = "none" /\ Return
    /\ UNCHANGED <<policy, calls, closed, queued, head>>

\* The request was settled while the parent answered: give back both slots.
HeadWithdraws ==
    /\ upstream \in {"granted", "refused"} /\ status[head] # "pending"
    /\ parentHeld' = parentHeld \ {head} /\ local' = local \ {head}
    /\ HeadReturns /\ UNCHANGED <<status, failing, window>>

HeadRefused ==
    /\ upstream = "refused" /\ status[head] = "pending"
    /\ status' = [status EXCEPT ![head] = "upstream"]
    /\ local' = local \ {head}
    /\ HeadReturns /\ UNCHANGED <<failing, window, parentHeld>>

\* acquire() of the parent threw: the slot goes back, the queue moves on, and
\* the request is refused by the catch handler, a turn later.
HeadThrows ==
    /\ upstream = "threw"
    /\ failing' = failing \cup {head}
    /\ local' = local \ {head}
    /\ HeadReturns /\ UNCHANGED <<status, window, parentHeld>>

Grant ==
    /\ status' = [status EXCEPT ![head] = "granted"]
    /\ RecordGrant
    /\ HeadReturns /\ UNCHANGED <<failing, local, parentHeld>>

\* Faulty variant: the settlement during the wait is not looked at.
GrantAnyway == upstream = "granted" /\ Grant

HeadGranted == upstream = "granted" /\ status[head] = "pending" /\ Grant

-----------------------------------------------------------------------------
\* release() of a lease: the parent first, then the slot, then the wake.
GiveBack(r) ==
    /\ status[r] = "granted"
    /\ status' = [status EXCEPT ![r] = "released"]
    /\ parentHeld' = parentHeld \ {r} /\ local' = local \ {r}
    /\ UNCHANGED <<policy, calls, closed, queued, upstream, failing, window>>

\* Faulty variant: the lease of the parent is kept.
ReleaseLocalOnly(r) ==
    /\ status[r] = "granted"
    /\ status' = [status EXCEPT ![r] = "released"]
    /\ local' = local \ {r} /\ Notify
    /\ UNCHANGED <<policy, calls, closed, queued, upstream, failing, window, parentHeld>>

Release(r) == GiveBack(r) /\ Notify

\* Time: the oldest live grant leaves the window, and its timer is due.
Expire ==
    /\ Live > 0
    /\ expired' = expired + 1
    /\ wakeTimer' = IF wakeTimer = "armed" THEN "due" ELSE wakeTimer
    /\ UNCHANGED <<policy, calls, closed, status, queued, head, phase, upstream,
                   failing, stored, local, parentHeld>>

RateTimerFires ==
    /\ wakeTimer = "due"
    /\ Notify
    /\ UNCHANGED <<policy, calls, closed, status, queued, upstream, failing, window,
                   local, parentHeld>>

Next ==
    \/ \E r \in Request :
         \/ TryRefused(r) \/ TryGranted(r) \/ AcquireRefused(r) \/ AcquireIdle(r)
         \/ AcquireQueued(r) \/ CallerCancels(r) \/ QueueFailed(r) \/ Release(r)
    \/ Close \/ HeadResumes \/ QueueAdvances \/ QueueIdles \/ ParentAnswers
    \/ HeadWithdraws \/ HeadRefused \/ HeadThrows \/ HeadGranted
    \/ Expire \/ RateTimerFires

Spec == Init /\ [][Next]_vars

\* Microtasks run, time passes and timers fire, the parent answers, and the
\* units that hold a slot exit.  No caller has to cancel and no request has to
\* time out.
FairSpec ==
    /\ Spec
    /\ WF_vars(HeadResumes) /\ WF_vars(QueueAdvances) /\ WF_vars(QueueIdles)
    /\ WF_vars(ParentAnswers)
    /\ WF_vars(HeadWithdraws \/ HeadRefused \/ HeadThrows \/ HeadGranted)
    /\ WF_vars(Expire) /\ WF_vars(RateTimerFires)
    /\ \A r \in Request : WF_vars(QueueFailed(r)) /\ WF_vars(Release(r))

-----------------------------------------------------------------------------
TypeOK ==
    /\ policy \in Policy
    /\ calls \in 0 .. MaxRequests /\ closed \in BOOLEAN
    /\ status \in [Request -> {"new", "pending", "granted", "released"} \cup Refusals]
    /\ queued \subseteq Request /\ head \in Request \cup {None}
    /\ phase \in {"idle", "waiting", "woken", "upstream", "returned"}
    /\ upstream \in {"none", "pending", "granted", "refused", "threw"}
    /\ failing \subseteq Request
    /\ wakeTimer \in {"none", "armed", "due"}
    /\ stored \in Nat /\ expired \in 0 .. stored
    /\ local \subseteq Request /\ parentHeld \subseteq Request

\* README: a budget never runs more units than maxUnits, counting the slot that
\* the head holds while the parent answers.
CapacityHolds == Cardinality(local) <= MaxUnits

\* No window holds more grants than the launch rate, although the rate is read
\* before the parent's answer and the grant is recorded after it.
RateHolds == RateMax > 0 => Live <= RateMax

\* A slot is held by a granted lease or by the head in front of its parent and
\* by nobody else, here and in the parent: no cancellation, timeout, refusal or
\* close in the middle of an admission leaks a slot or returns one too early.
LeasesMatch ==
    /\ local = Granted \cup (IF phase = "upstream" THEN {head} ELSE {})
    /\ parentHeld = (IF HasParent THEN Granted ELSE {})
                    \cup (IF upstream = "granted" THEN {head} ELSE {})

\* First in, first out: nobody is granted while an older request still waits
\* for its turn, tryAcquire included.
FifoAdmission ==
    [][\A r \in Request : r \in Granted' \ Granted =>
         \A q \in Pending \ failing : r <= q]_vars

\* close() is final although the parent may answer and tasks may begin after it:
\* it refuses all that waits, and no request is granted any more.
CloseIsFinal == [][closed => Pending = {} /\ Granted' \subseteq Granted]_vars

\* No wake is lost: while units exit, time passes and the parent answers, every
\* request is answered without its timeout.
EveryRequestAnswered ==
    MaxUnits > 0 => \A r \in Request : r \in Pending ~> r \notin Pending

\* budget.ts:76, :324: a rate timer is armed by rate limited waits only, at the
\* expiry of a live grant.
CapacityWaitHasNoTimer ==
    [][wakeTimer = "none" /\ wakeTimer' # "none" => RateMax > 0 /\ Live' >= RateMax]_vars
=============================================================================
