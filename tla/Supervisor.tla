----------------------------- MODULE Supervisor -----------------------------
(***************************************************************************)
(* A supervisor of packages/supervision (supervisor-*.ts): it serves one   *)
(* unit, restarts it by policy, replaces it, stops it.                     *)
(*                                                                         *)
(* Commands go through one mutation queue.  An idle queue runs the first   *)
(* part of a command inside the call, a busy one when its turn comes, and  *)
(* a command holds the queue across every await, while units exit, timers  *)
(* fire and callers call.  A step below is the code between two awaits.    *)
(* Retirement is the slot's own bounded teardown: it is over when the unit *)
(* is gone, or when it is given up as abandoned.                           *)
(*                                                                         *)
(* Not modelled: adopted units (hooks.acquireUnit), hooks that throw,      *)
(* specs, events, delays and generation numbers; of those, an attempt has  *)
(* an authority: whether its token is still current when it is asked.      *)
(***************************************************************************)
EXTENDS Integers, Sequences, FiniteSets

CONSTANTS MaxUnits,      \* bound on the units ever launched
          MaxCalls,      \* bound on the calls that enqueue or supersede
          MaxRestarts,   \* restart.maxRestarts
          Races          \* event orders to include, a subset of RaceNames

RaceNames == {"start_behind_launch", "retry_behind_command", "exit_in_switch",
              "fail_in_promotion"}

ASSUME ConstantsAssumption ==
    MaxUnits \in Nat \ {0} /\ MaxCalls \in Nat /\ MaxRestarts \in Nat /\ Races \subseteq RaceNames

Slot == 1 .. MaxUnits   \* in the order of the launches
None == 0

Policy == [mode : {"never", "on-failure", "always"}, cooldown : BOOLEAN]

Causes   == {"none", "start", "restart", "backoff", "cooldown", "replace"}
Commands == {"launch", "stop", "restart", "replace_stop", "replace_switch",
             "unhealthy", "failed", "dispose"}
Command  == [op : Commands, cause : Causes, slot : Slot \cup {None}]

Plain(op)          == [op |-> op, cause |-> "none", slot |-> None]
Launch(cause)      == [op |-> "launch", cause |-> cause, slot |-> None]
UnitCommand(op, s) == [op |-> op, cause |-> "none", slot |-> s]
NoCommand          == Plain("none")

NoAttempt == [cause |-> "none", slot |-> None, promote |-> FALSE,
              authority |-> "lost", outcome |-> "none"]

VARIABLES policy, calls,
          state, lifecycle,
          startWaits,      \* pendingStart waits for a stable state, its launch over
          queue, running,
          step,            \* where the running command awaits
          attempt,         \* its launch attempt
          target,          \* the slot it retires or replaces
          active, candidate,
          replacement,     \* replacementInProgress, and how the old unit ended
          unit, retired, abandoned,
          failures,
          retry,           \* live backoff timers, and whether the newest is held
          cooldownTimer

vars == <<policy, calls, state, lifecycle, startWaits, queue, running, step, attempt,
          target, active, candidate, replacement, unit, retired, abandoned, failures,
          retry, cooldownTimer>>

shown   == <<state, startWaits>>
command == <<running, step, attempt, target>>
serving == <<active, candidate, replacement>>
units   == <<unit, retired, abandoned>>
timers  == <<retry, cooldownTimer>>

Init ==
    /\ policy \in Policy /\ calls = 0
    /\ state = "idle" /\ lifecycle = "open" /\ startWaits = FALSE
    /\ queue = <<>> /\ running = NoCommand /\ step = "idle"
    /\ attempt = NoAttempt /\ target = None
    /\ active = None /\ candidate = None /\ replacement = "none"
    /\ unit = [s \in Slot |-> "none"] /\ retired = {} /\ abandoned = {}
    /\ failures = 0 /\ retry = [live |-> 0, held |-> FALSE] /\ cooldownTimer = FALSE

\* An idle queue takes a command in the turn of the call: nothing comes between.
Turn == step = "idle" => queue = <<>>

\* Timers do not fire between two microtasks.
TimerTurn == Turn /\ step \notin {"ended", "switch", "promoted"}

\* Faulty variant: the teardown waits for the exit of the unit.
TornDownWhenGone(s) == s \in retired /\ unit[s] = "gone"

\* A slot is torn down: its retirement awaits nothing more.
TornDown(s) == s \in retired /\ (unit[s] = "gone" \/ s \in abandoned)

\* readyNow(): the states that answer a waiter.
Stable == {"idle", "ready", "stopped", "terminal", "disposed"}
KeepWaiting == startWaits' = (startWaits /\ state' \notin Stable)

Pending(ops) == running.op \in ops \/ \E i \in 1 .. Len(queue) : queue[i].op \in ops
Queued(ops)  == \E i \in 1 .. Len(queue) : queue[i].op \in ops

-----------------------------------------------------------------------------
(* The restart policy. *)

\* Faulty variant: the handle is dropped, the timer lives on.
ClearedHandle == [live |-> retry.live, held |-> FALSE]

\* clearTimers(): a backoff timer that lost its handle cannot be cancelled.
ClearedRetry == [live |-> retry.live - (IF retry.held THEN 1 ELSE 0), held |-> FALSE]
ClearTimers  == retry' = ClearedRetry /\ cooldownTimer' = FALSE

NoDecision == UNCHANGED <<state, failures, timers>>

EnterTerminal ==
    /\ state' = "terminal"
    /\ retry' = ClearedRetry /\ cooldownTimer' = policy.cooldown

ScheduleBackoff ==
    /\ state' = "backoff"
    /\ retry' = [live |-> retry.live + 1, held |-> TRUE]
    /\ UNCHANGED cooldownTimer

\* Faulty variant: the limit is not looked at.
ExhaustedNever(n) == policy.mode = "never"

Exhausted(n) == policy.mode = "never" \/ n > MaxRestarts

\* The n-th failure in the window; both callees refuse a closed supervisor.
Decide(n) ==
    IF lifecycle # "open" THEN UNCHANGED <<state, timers>>
    ELSE IF Exhausted(n) THEN EnterTerminal ELSE ScheduleBackoff

\* Failures past the limit are not told apart.
OneMoreFailure == IF failures > MaxRestarts THEN failures ELSE failures + 1

OnFailure ==
    IF lifecycle # "open" THEN NoDecision
    ELSE failures' = OneMoreFailure /\ Decide(failures')

CleanExit ==
    /\ UNCHANGED failures
    /\ IF policy.mode = "always"
       THEN IF lifecycle = "open" THEN ScheduleBackoff ELSE UNCHANGED <<state, timers>>
       ELSE state' = "stopped" /\ UNCHANGED timers

-----------------------------------------------------------------------------
(* The calls.  A call that is answered at once or joins changes nothing. *)

Call == Turn /\ calls < MaxCalls /\ calls' = calls + 1

Enqueue(c) == queue' = Append(queue, c)

\* supersede(): the attempt in front of it is not current any more.
Authorized == step \in {"budget", "starting", "rollback"}
Superseded == IF Authorized THEN [attempt EXCEPT !.authority = "lost"] ELSE attempt
Supersede  == attempt' = Superseded /\ UNCHANGED <<running, step, target>>

StartPending == Pending({"launch"}) \/ startWaits

\* The orders in which a start is queued behind a command that launches, too.
StartBehindLaunch ==
    Queued({"restart"}) \/ (active = None /\ running.op = "replace_switch")

EnqueueLaunch(cause) == Enqueue(Launch(cause)) /\ startWaits' = FALSE

\* start() waits for what is planned or under way.
JoinsRetry == state \in {"backoff", "queued", "starting"}

Start ==
    /\ Call /\ lifecycle = "open"
    /\ ~(state = "ready" /\ active # None) /\ state # "terminal"
    /\ ~StartPending /\ ~JoinsRetry
    /\ StartBehindLaunch => "start_behind_launch" \in Races
    /\ EnqueueLaunch("start")
    /\ UNCHANGED <<policy, state, lifecycle, command, serving, units, failures, timers>>

Stop ==
    /\ Call /\ lifecycle = "open" /\ ~Pending({"stop"})
    /\ Supersede /\ ClearTimers /\ Enqueue(Plain("stop"))
    /\ UNCHANGED <<policy, shown, lifecycle, serving, units, failures>>

\* kill(): the slots are forced and retired at once, whatever the queue does.
Kill ==
    /\ Call
    /\ attempt' = (IF lifecycle = "open" THEN Superseded ELSE attempt)
    /\ retired' = retired \cup ({candidate, active} \ {None})
    /\ IF lifecycle # "open" \/ Pending({"stop"})
       THEN UNCHANGED <<queue, timers>>
       ELSE ClearTimers /\ Enqueue(Plain("stop"))
    /\ UNCHANGED <<policy, shown, lifecycle, running, step, target, serving, unit,
                   abandoned, failures>>

\* The orders in which a retry is planned, or its timer fires, although a command
\* waits that has cleared the timers already.
RestartBehindPolicy ==
    \/ Queued(Commands \ {"stop"})
    \/ running.op \in {"replace_switch", "unhealthy", "failed"}
    \/ running.op \in {"restart", "replace_stop"} /\ step = "retiring"
CrashBehindCommand  == Queued({"restart"}) \/ (step = "previous" /\ Queued({"stop"}))

Restart ==
    /\ Call /\ lifecycle = "open"
    /\ RestartBehindPolicy => "retry_behind_command" \in Races
    /\ Supersede /\ ClearTimers /\ failures' = 0
    /\ Enqueue(Plain("restart"))
    /\ UNCHANGED <<policy, shown, lifecycle, serving, units>>

Replace(op) ==
    /\ Call /\ lifecycle = "open"
    /\ Enqueue(Plain(op))
    /\ UNCHANGED <<policy, shown, lifecycle, command, serving, units, failures, timers>>

Dispose ==
    /\ Call /\ lifecycle = "open"
    /\ lifecycle' = "closed"
    /\ Supersede /\ ClearTimers /\ Enqueue(Plain("dispose"))
    /\ UNCHANGED <<policy, shown, serving, units, failures>>

-----------------------------------------------------------------------------
(* The first part of each command. *)

Begin(c) ==
    /\ step \in {"idle", "ended"} /\ queue # <<>> /\ Head(queue) = c
    /\ queue' = Tail(queue) /\ running' = c
    /\ UNCHANGED <<policy, calls>>

End == step' = "ended" /\ attempt' = NoAttempt /\ target' = None

\* retire(slot): the running command awaits its teardown.
Retire(s) ==
    /\ step' = "retiring" /\ target' = s /\ UNCHANGED attempt
    /\ retired' = retired \cup {s} /\ UNCHANGED <<unit, abandoned>>

\* Faulty variant: a disposed supervisor begins attempts.
RunAttemptAnyway(cause, promote) ==
    /\ step' = "budget" /\ UNCHANGED target
    /\ attempt' = [cause |-> cause, slot |-> None, promote |-> promote,
                   authority |-> "current", outcome |-> "none"]
    /\ state' = IF promote THEN "queued" ELSE state

\* new LaunchAttempt(...).run(), up to the budget; begin() throws once disposed.
RunAttempt(cause, promote) ==
    IF lifecycle # "open"
    THEN End /\ UNCHANGED state
    ELSE /\ step' = "budget" /\ UNCHANGED target
         /\ attempt' = [cause |-> cause, slot |-> None, promote |-> promote,
                        authority |-> "current", outcome |-> "none"]
         /\ state' = IF promote THEN "queued" ELSE state

BeginLaunch(cause) ==
    /\ Begin(Launch(cause))
    /\ RunAttempt(cause, TRUE) /\ KeepWaiting
    /\ UNCHANGED <<lifecycle, serving, units, failures, timers>>

\* Stop and dispose retire the active unit; a candidate has ended with its command.
Shutdown(op) ==
    /\ Begin(Plain(op))
    /\ ClearTimers
    /\ IF active = None
       THEN /\ End /\ UNCHANGED units
            /\ state' = IF op = "stop" THEN "stopped" ELSE "disposed"
            /\ lifecycle' = IF op = "stop" THEN lifecycle ELSE "terminal"
       ELSE Retire(active) /\ state' = "stopping" /\ UNCHANGED lifecycle
    /\ KeepWaiting
    /\ UNCHANGED <<serving, failures>>

BeginRestart ==
    /\ Begin(Plain("restart"))
    /\ IF active = None THEN RunAttempt("restart", TRUE) /\ UNCHANGED units
                        ELSE Retire(active) /\ UNCHANGED state
    /\ KeepWaiting
    /\ UNCHANGED <<lifecycle, serving, failures, timers>>

\* A spec that does not validate ends the command as well.
ReplaceRejected(op) ==
    /\ Begin(Plain(op))
    /\ End
    /\ UNCHANGED <<shown, lifecycle, serving, units, failures, timers>>

BeginReplaceStop ==
    /\ Begin(Plain("replace_stop")) /\ state # "terminal" /\ active # None
    /\ Retire(active)
    /\ UNCHANGED <<shown, lifecycle, serving, failures, timers>>

BeginReplaceSwitch ==
    /\ Begin(Plain("replace_switch")) /\ state # "terminal" /\ active # None
    /\ IF lifecycle # "open"
       THEN End /\ UNCHANGED <<state, replacement>>
       ELSE /\ step' = "budget" /\ target' = active /\ UNCHANGED state
            /\ attempt' = [cause |-> "replace", slot |-> None, promote |-> FALSE,
                           authority |-> "current", outcome |-> "none"]
            /\ replacement' = "running"
    /\ UNCHANGED <<startWaits, lifecycle, active, candidate, units, failures, timers>>

\* The task of healthFailed or unitFailed.
BeginUnitFailed(op, s) ==
    /\ Begin(UnitCommand(op, s))
    /\ IF s \in retired \/ (op = "unhealthy" /\ active # s)
       THEN End /\ UNCHANGED units
       ELSE Retire(s)
    /\ UNCHANGED <<shown, lifecycle, serving, failures, timers>>

-----------------------------------------------------------------------------
(* After the teardown of the target. *)

Retiring(op) ==
    /\ Turn /\ running.op = op /\ step = "retiring" /\ TornDown(target)
    /\ UNCHANGED <<policy, calls, queue, running, units>>

StopRetired ==
    /\ Retiring("stop")
    /\ End /\ active' = None /\ state' = "stopped" /\ KeepWaiting
    /\ UNCHANGED <<lifecycle, candidate, replacement, failures, timers>>

DisposeRetired ==
    /\ Retiring("dispose")
    /\ End /\ active' = None /\ state' = "disposed" /\ lifecycle' = "terminal" /\ KeepWaiting
    /\ UNCHANGED <<candidate, replacement, failures, timers>>

RestartRetired ==
    /\ Retiring("restart")
    /\ active' = None
    /\ RunAttempt("restart", TRUE) /\ KeepWaiting
    /\ UNCHANGED <<lifecycle, candidate, replacement, failures, timers>>

ReplaceStopRetired ==
    /\ Retiring("replace_stop")
    /\ active' = None
    /\ RunAttempt("replace", TRUE) /\ KeepWaiting
    /\ replacement' = IF lifecycle = "open" THEN "running" ELSE "none"
    /\ UNCHANGED <<lifecycle, candidate, failures, timers>>

UnitFailedRetired(op) ==
    /\ Retiring(op)
    /\ End /\ OnFailure /\ KeepWaiting
    /\ active' = IF op = "unhealthy" \/ active = target THEN None ELSE active
    /\ UNCHANGED <<lifecycle, candidate, replacement>>

\* start-then-switch, the old unit stopped after the switch.
PreviousRetired ==
    /\ Turn /\ step = "previous" /\ TornDown(target)
    /\ End
    /\ UNCHANGED <<policy, calls, shown, lifecycle, queue, running, serving, units,
                   failures, timers>>

-----------------------------------------------------------------------------
(* The launch attempt. *)

Attempting(at) == Turn /\ step = at /\ UNCHANGED <<policy, calls, lifecycle, queue, running>>

\* Faulty variant: what was held back is forgotten.
OldUnitForgotten == UNCHANGED <<state, failures, timers>>

\* The old unit was lost while a switch was in progress that then failed: its
\* policy was held back and is applied now.
OldUnitPolicy ==
    /\ UNCHANGED failures
    /\ CASE active # None \/ replacement = "running" -> UNCHANGED <<state, timers>>
         [] active = None /\ replacement = "failed"  -> Decide(failures)
         [] active = None /\ replacement = "exited"  ->
              IF policy.mode = "always"
              THEN IF lifecycle = "open" THEN ScheduleBackoff ELSE UNCHANGED <<state, timers>>
              ELSE state' = "stopped" /\ UNCHANGED timers

\* The attempt is over without a unit; settleLaunchOutcome() makes a failed
\* start wait for a stable state.
EndAttempt(outcome) ==
    /\ End
    /\ replacement' = "none"
    /\ startWaits' = (/\ startWaits \/ (running.op = "launch" /\ outcome = "failed")
                      /\ state' \notin Stable)
    /\ UNCHANGED active

BudgetGrants(s) ==
    /\ Attempting("budget")
    /\ unit[s] = "none" /\ \A t \in 1 .. s - 1 : unit[t] # "none"
    /\ unit' = [unit EXCEPT ![s] = "launching"]
    /\ candidate' = s /\ attempt' = [attempt EXCEPT !.slot = s]
    /\ step' = "starting" /\ state' = (IF attempt.promote THEN "starting" ELSE state)
    /\ KeepWaiting
    /\ UNCHANGED <<target, active, replacement, retired, abandoned, failures, timers>>

BudgetRejects ==
    /\ Attempting("budget")
    /\ IF ~attempt.promote THEN OldUnitPolicy
       ELSE IF attempt.authority # "current" THEN NoDecision
       ELSE IF attempt.cause \in {"backoff", "cooldown"} THEN OnFailure
       ELSE state' = "stopped" /\ UNCHANGED <<failures, timers>>
    /\ EndAttempt("rejected")
    /\ UNCHANGED <<candidate, units>>

\* #ready() of an attempt that promotes.
Promote == active' = attempt.slot /\ candidate' = None /\ state' = "ready"

\* The segment behind the last check of the token: ready.  A replacement is in
\* progress until replaceUnit() resumes.
AttemptReady ==
    /\ Attempting("starting")
    /\ attempt.authority = "current" /\ unit[attempt.slot] = "running"
    /\ IF attempt.promote
       THEN /\ Promote
            /\ step' = IF running.op = "replace_stop" THEN "promoted" ELSE "ended"
            /\ attempt' = NoAttempt /\ target' = None /\ UNCHANGED replacement
       ELSE /\ step' = "switch" /\ UNCHANGED <<attempt, target, state, serving>>
    /\ KeepWaiting
    /\ UNCHANGED <<units, failures, timers>>

\* replaceUnit() resumes behind a stop-then-start that succeeded: what was held
\* back of a failure since then is dropped, whatever it was.
ReplaceReturns ==
    /\ Attempting("promoted")
    /\ End /\ replacement' = "none"
    /\ UNCHANGED <<shown, active, candidate, units, failures, timers>>

\* Faulty variant: the old unit is not retired.
SwitchOnly ==
    /\ Attempting("switch")
    /\ active' = attempt.slot /\ candidate' = None /\ replacement' = "none"
    /\ state' = "ready" /\ KeepWaiting
    /\ End
    /\ UNCHANGED <<units, failures, timers>>

\* replaceUnit() resumes, some microtasks after its candidate became ready.
Switch ==
    /\ Attempting("switch")
    /\ active' = attempt.slot /\ candidate' = None /\ replacement' = "none"
    /\ state' = "ready" /\ KeepWaiting
    /\ step' = "previous" /\ retired' = retired \cup {target}
    /\ UNCHANGED <<attempt, target, unit, abandoned, failures, timers>>

RollBack(authority, outcome) ==
    /\ step' = "rollback"
    /\ attempt' = [attempt EXCEPT !.authority = authority, !.outcome = outcome]
    /\ retired' = retired \cup {attempt.slot}
    /\ UNCHANGED <<target, shown, serving, unit, abandoned, failures, timers>>

\* Launch, attachment or readiness failed, the unit exited, or the attempt was
\* superseded: the slot is retired by force.
AttemptFails ==
    /\ Attempting("starting")
    /\ attempt.authority = "lost" \/ unit[attempt.slot] # "launching"
    /\ RollBack(attempt.authority, IF attempt.authority = "lost" THEN "stopped" ELSE "failed")

StartupTimeout ==
    /\ TimerTurn /\ Attempting("starting")
    /\ attempt.authority = "current"
    /\ RollBack("timed_out", "failed")

\* A timeout owns the generation it advanced until a command supersedes it.
OwnsFailure == attempt.authority \in {"current", "timed_out"}

RolledBack ==
    /\ Attempting("rollback")
    /\ TornDown(attempt.slot)
    /\ candidate' = IF candidate = attempt.slot THEN None ELSE candidate
    /\ IF ~attempt.promote THEN OldUnitPolicy
       ELSE IF OwnsFailure THEN OnFailure ELSE NoDecision
    /\ EndAttempt(attempt.outcome)
    /\ UNCHANGED units

\* The queue is empty: idle.
QueueIdles ==
    /\ step = "ended" /\ queue = <<>>
    /\ step' = "idle" /\ running' = NoCommand
    /\ UNCHANGED <<policy, calls, shown, lifecycle, queue, attempt, target, serving, units,
                   failures, timers>>

-----------------------------------------------------------------------------
(* Units. *)

Happens == Turn /\ UNCHANGED <<policy, calls, lifecycle, command>>

LaunchResolves(s) ==
    /\ Happens /\ unit[s] = "launching"
    /\ unit' = [unit EXCEPT ![s] = "running"]
    /\ UNCHANGED <<shown, queue, serving, retired, abandoned, failures, timers>>

LaunchRejects(s) ==
    /\ Happens /\ unit[s] = "launching"
    /\ unit' = [unit EXCEPT ![s] = "gone"]
    /\ UNCHANGED <<shown, queue, serving, retired, abandoned, failures, timers>>

\* onExit(), by whose unit it is.
Exits(s) == Happens /\ unit[s] = "running" /\ unit' = [unit EXCEPT ![s] = "gone"]

RetiredExits(s) ==
    /\ Exits(s) /\ s \in retired
    /\ UNCHANGED <<shown, queue, serving, retired, abandoned, failures, timers>>

CandidateExits(s) ==
    /\ Exits(s) /\ s \notin retired
    /\ candidate = s \/ active # s
    /\ step = "switch" /\ candidate = s => "exit_in_switch" \in Races
    /\ retired' = retired \cup {s}
    /\ UNCHANGED <<shown, queue, serving, abandoned, failures, timers>>

ActiveExits(s, clean) ==
    /\ Exits(s) /\ s \notin retired
    /\ active = s /\ candidate # s
    /\ CrashBehindCommand => "retry_behind_command" \in Races
    /\ step = "promoted" => "fail_in_promotion" \in Races
    /\ active' = None /\ retired' = retired \cup {s}
    /\ IF replacement # "none"
       THEN /\ replacement' = IF clean THEN "exited" ELSE "failed"
            /\ failures' = IF clean THEN failures ELSE OneMoreFailure
            /\ UNCHANGED <<shown, timers>>
       ELSE /\ IF clean THEN CleanExit ELSE OnFailure
            /\ KeepWaiting /\ UNCHANGED replacement
    /\ UNCHANGED <<queue, candidate, abandoned>>

\* A monitor reports a unit that became ready: health, or the profile's own,
\* from within onReady() at the earliest.  A report that waits is not repeated.
Fails(s, op) ==
    /\ Happens /\ unit[s] = "running" /\ s \notin retired
    /\ candidate = s => step = "switch"
    /\ step = "promoted" => "fail_in_promotion" \in Races
    /\ IF replacement # "none" /\ active = s
       THEN /\ active' = None /\ retired' = retired \cup {s}
            /\ replacement' = "failed" /\ failures' = OneMoreFailure
            /\ UNCHANGED queue
       ELSE /\ \A i \in 1 .. Len(queue) : queue[i] # UnitCommand(op, s)
            /\ Enqueue(UnitCommand(op, s))
            /\ UNCHANGED <<active, retired, replacement, failures>>
    /\ UNCHANGED <<shown, candidate, unit, abandoned, timers>>

\* The reap deadline of a retired slot.
Abandon(s) ==
    /\ TimerTurn /\ Happens
    /\ s \in retired \ abandoned /\ unit[s] \in {"launching", "running"}
    /\ abandoned' = abandoned \cup {s}
    /\ UNCHANGED <<shown, queue, serving, unit, retired, failures, timers>>

-----------------------------------------------------------------------------
(* Timers. *)

FailureExpires ==
    /\ TimerTurn /\ Happens /\ failures > 0 /\ failures' = failures - 1
    /\ UNCHANGED <<shown, queue, serving, units, timers>>

BackoffFires ==
    /\ TimerTurn /\ Happens /\ retry.live > 0
    /\ retry' = [live |-> retry.live - 1, held |-> FALSE]
    /\ IF lifecycle = "open" /\ state = "backoff"
       THEN EnqueueLaunch("backoff") ELSE UNCHANGED <<queue, startWaits>>
    /\ UNCHANGED <<state, serving, units, failures, cooldownTimer>>

CooldownFires ==
    /\ TimerTurn /\ Happens /\ cooldownTimer /\ cooldownTimer' = FALSE
    /\ IF lifecycle = "open" /\ state = "terminal"
       THEN EnqueueLaunch("cooldown") /\ failures' = 0
       ELSE UNCHANGED <<queue, startWaits, failures>>
    /\ UNCHANGED <<state, serving, units, retry>>

-----------------------------------------------------------------------------
\* What the running command does.
Progress ==
    \/ \E c \in {"start", "backoff", "cooldown"} : BeginLaunch(c)
    \/ Shutdown("stop") \/ Shutdown("dispose") \/ BeginRestart
    \/ ReplaceRejected("replace_stop") \/ ReplaceRejected("replace_switch")
    \/ BeginReplaceStop \/ BeginReplaceSwitch
    \/ \E s \in Slot, op \in {"unhealthy", "failed"} : BeginUnitFailed(op, s)
    \/ StopRetired \/ DisposeRetired \/ RestartRetired \/ ReplaceStopRetired
    \/ UnitFailedRetired("unhealthy") \/ UnitFailedRetired("failed") \/ PreviousRetired
    \/ BudgetRejects \/ \E s \in Slot : BudgetGrants(s)
    \/ AttemptReady \/ ReplaceReturns \/ Switch \/ AttemptFails \/ StartupTimeout
    \/ RolledBack \/ QueueIdles

Deadline == \E s \in Slot : Abandon(s)

Next ==
    \/ Start \/ Stop \/ Kill \/ Restart \/ Dispose
    \/ Replace("replace_stop") \/ Replace("replace_switch")
    \/ Progress \/ Deadline
    \/ \E s \in Slot : \/ LaunchResolves(s) \/ LaunchRejects(s)
                       \/ RetiredExits(s) \/ CandidateExits(s)
                       \/ ActiveExits(s, TRUE) \/ ActiveExits(s, FALSE)
                       \/ Fails(s, "unhealthy") \/ Fails(s, "failed")
    \/ FailureExpires \/ BackoffFires \/ CooldownFires

Spec == Init /\ [][Next]_vars

\* Microtasks run, the startup timeout and the reap deadline fire, and a budget
\* answers (it has a queue timeout).  No unit has to become ready, to fail or to
\* exit, and no launch has to settle.
FairSpec == Spec /\ WF_vars(Progress) /\ WF_vars(Deadline)

-----------------------------------------------------------------------------
TypeOK ==
    /\ policy \in Policy /\ calls \in 0 .. MaxCalls
    /\ state \in {"idle", "queued", "starting", "ready", "backoff", "stopping",
                  "stopped", "terminal", "disposed"}
    /\ lifecycle \in {"open", "closed", "terminal"} /\ startWaits \in BOOLEAN
    /\ queue \in Seq(Command) /\ running \in Command \cup {NoCommand}
    /\ step \in {"idle", "budget", "starting", "rollback", "retiring", "switch",
                 "promoted", "previous", "ended"}
    /\ attempt \in [cause : Causes, slot : Slot \cup {None}, promote : BOOLEAN,
                    authority : {"current", "timed_out", "lost"},
                    outcome : {"none", "stopped", "failed"}]
    /\ {target, active, candidate} \subseteq Slot \cup {None}
    /\ replacement \in {"none", "running", "failed", "exited"}
    /\ unit \in [Slot -> {"none", "launching", "running", "gone"}]
    /\ retired \subseteq Slot /\ abandoned \subseteq retired
    /\ failures \in 0 .. MaxRestarts + 1
    /\ retry \in [live : Nat, held : BOOLEAN] /\ (retry.held => retry.live > 0)
    /\ cooldownTimer \in BOOLEAN

\* The queue is idle: what is seen now lasts until an event.
Quiet == step = "idle" /\ queue = <<>>

\* A supervisor serves one unit: every unit that lives and is not being stopped
\* is the active one or the candidate, so that some command will stop it.
Owned    == {s \in Slot : unit[s] \in {"launching", "running"}} \ retired
NoOrphan == Owned \subseteq {active, candidate}

\* Between commands, `ready` means that a live unit serves, and nothing else
\* does: no command, exit or failed replacement leaves a dead unit in service,
\* a live one out of it, or a state that promises a change nobody will make.
ServingConsistent ==
    Quiet =>
      /\ candidate = None /\ replacement = "none"
      /\ state \in Stable \cup {"backoff"}
      /\ state = "ready" <=> active # None
      /\ active # None => unit[active] = "running" /\ active \notin retired

\* The restart policy: a supervisor in backoff has a timer and failures to
\* spare, one that gave up has the timer of its cooldown.
RetryPlanned ==
    /\ state = "backoff" => policy.mode # "never"
                            /\ (policy.mode = "always" \/ failures <= MaxRestarts)
    /\ Quiet /\ state = "backoff"  => retry.live > 0
    /\ Quiet /\ state = "terminal" => cooldownTimer = policy.cooldown

\* A timer belongs to what was last decided: an open supervisor has one backoff
\* timer at most, in backoff only, and by the handle that the next command or
\* decision clears, and a cooldown timer only when it gave up.  So no failure is
\* answered by two retries and no stale timer finds a later backoff to fire in.
TimersFollowState ==
    lifecycle = "open" =>
        /\ retry.live = IF retry.held THEN 1 ELSE 0
        /\ retry.live > 0 => state = "backoff"
        /\ cooldownTimer => state = "terminal"

\* README.en.md:88, `do not restart after stop`, as the code leaves it: no retry
\* begins in a supervisor that was stopped.
NoRestartAfterStop == [][BeginLaunch("backoff") => state # "stopped"]_vars

\* dispose() is final: no attempt begins once it was called, and when it is over
\* the supervisor owns nothing and nothing changes its state.
DisposedIsFinal ==
    /\ [][lifecycle # "open" => (step' = "budget" => step = "budget")]_vars
    /\ [][state = "disposed" => state' = "disposed" /\ active = None /\ Owned = {}]_vars

\* Shutdown is bounded: stop(), kill() and dispose() end although the unit hangs
\* in its launch or ignores every signal.
ShutdownSettles == Pending({"stop", "dispose"}) ~> ~Pending({"stop", "dispose"})
=============================================================================
