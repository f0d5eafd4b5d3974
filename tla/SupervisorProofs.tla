------------------------- MODULE SupervisorProofs -------------------------
(***************************************************************************)
(* Proofs about Supervisor for every number of units and calls and every   *)
(* restart limit.                                                          *)
(*                                                                         *)
(* Supervisor leaves four orders of events  to the constant Races, because *)
(* the code misbehaves in them; the runs show how.  The theorems say what  *)
(* holds outside of those orders.  QuietRaces leaves out the two that let  *)
(* a start or a planned retry slip behind a command: with either of them   *)
(* alone TLC finds NoOrphan violated.  Of the two, retry_behind_command is *)
(* the wide one: it stands for every restart() while a command other than  *)
(* a stop waits, or while a replacement or a failure report is handled,    *)
(* and for every exit of the active unit while a restart waits.  Only      *)
(* ServingConsistent also needs that no candidate exits between its        *)
(* readiness and the switch, and that no unit ends between its promotion   *)
(* and the return of the replacement that started it.                      *)
(*                                                                         *)
(* The inductive invariant IInv says where the command in progress stands  *)
(* (Shape), that every launched unit is accounted for (Accounted), which   *)
(* state goes with which step (StateFits), in which order commands can     *)
(* wait (Disposing, RestartFirst, LaunchOnce), that a waiting              *)
(* command has settled what it supersedes (RestartSettled, LaunchSettled,  *)
(* StopBehindSwitch), that one timer at most is alive (Timers), and that a *)
(* state that promises a change has somebody who will make it (Planned..). *)
(* Each part has a lemma saying that a step keeps it, with one case per    *)
(* action; the lemmas name the parts each one rests on.                    *)
(***************************************************************************)
EXTENDS Supervisor, TLAPS

(* The commands that supersede an attempt, and all that change the state.    *)
Superseders == {"stop", "restart", "dispose"}
Changers    == {"launch", "stop", "restart", "dispose"}

USE DEF shown, command, serving, units, timers, None, Superseders, Changers

(* The constants, in the form the provers use them.                          *)
LEMMA Constants ==
    /\ MaxUnits \in Nat \ {0} /\ MaxCalls \in Nat /\ MaxRestarts \in Nat
    /\ None \notin Slot /\ Slot \subseteq Nat
BY ConstantsAssumption DEF Slot

(* The attempt records of TypeOK.                                            *)
AttemptSet == [cause : Causes, slot : Slot \cup {None}, promote : BOOLEAN,
               authority : {"current", "timed_out", "lost"},
               outcome : {"none", "stopped", "failed"}]

(* TypeOK, divided by what changes together.                                 *)
QueueType   == queue \in Seq(Command) /\ running \in Command \cup {NoCommand}
AttemptType == attempt \in AttemptSet
RetryType   == retry \in [live : Nat, held : BOOLEAN] /\ (retry.held => retry.live > 0)
PolicyType ==
    /\ policy \in Policy /\ calls \in 0 .. MaxCalls
    /\ failures \in 0 .. MaxRestarts + 1
    /\ RetryType /\ cooldownTimer \in BOOLEAN
StateType ==
    /\ state \in {"idle", "queued", "starting", "ready", "backoff", "stopping",
                  "stopped", "terminal", "disposed"}
    /\ lifecycle \in {"open", "closed", "terminal"} /\ startWaits \in BOOLEAN
    /\ step \in {"idle", "budget", "starting", "rollback", "retiring", "switch",
                 "promoted", "previous", "ended"}
    /\ replacement \in {"none", "running", "failed", "exited"}
UnitType ==
    /\ {target, active, candidate} \subseteq Slot \cup {None}
    /\ unit \in [Slot -> {"none", "launching", "running", "gone"}]
    /\ retired \subseteq Slot /\ abandoned \subseteq retired

(* The five parts are TypeOK.                                                *)
LEMMA TypeParts ==
    TypeOK <=> QueueType /\ AttemptType /\ PolicyType /\ StateType /\ UnitType
BY
   DEF TypeOK, QueueType, AttemptType, PolicyType, RetryType, StateType, UnitType, AttemptSet

-----------------------------------------------------------------------------
(* The inductive invariant. *)

(* The steps of a launch attempt, and the commands that run one.             *)
Attempts  == {"budget", "starting", "rollback", "switch"}
Launchers == {"launch", "restart", "replace_stop", "replace_switch"}
(* The commands that retire a unit, and those that end the supervisor's      *)
(* service.                                                                  *)
Retirers  == {"stop", "dispose", "restart", "replace_stop", "unhealthy", "failed"}
Enders    == {"stop", "dispose"}

(* What each step of the running command implies for its attempt, its target *)
(* and the unit slots. An idle supervisor has none of them.                  *)
Shape ==
    /\ step \in {"idle", "ended"} =>
         attempt = NoAttempt /\ target = None /\ candidate = None /\ replacement = "none"
    /\ step = "idle" => running = NoCommand
    /\ running.op = "none" => step = "idle"
    /\ step = "retiring" =>
         /\ running.op \in Retirers /\ attempt = NoAttempt
         /\ target # None /\ target \in retired /\ active = target
         /\ candidate = None /\ replacement = "none"
    /\ step \in Attempts =>
         /\ running.op \in Launchers
         /\ attempt.promote <=> running.op # "replace_switch"
         /\ attempt.promote =>
              active = None
              /\ replacement = IF running.op = "replace_stop" THEN "running" ELSE "none"
         /\ ~attempt.promote => /\ target # None /\ unit[target] # "none" /\ candidate # target
                                /\ \/ active = target /\ replacement = "running"
                                   \/ active = None /\ replacement \in {"failed", "exited"}
    /\ step = "budget" =>
         attempt.slot = None /\ candidate = None /\ attempt.authority # "timed_out"
    /\ step \in {"starting", "rollback", "switch"} =>
         attempt.slot # None /\ candidate = attempt.slot /\ unit[candidate] # "none"
    /\ step = "rollback" => candidate \in retired
    /\ step = "switch" => ~attempt.promote /\ (unit[candidate] = "running" \/ candidate \in retired)
    /\ step = "promoted" =>
         /\ running.op = "replace_stop" /\ attempt = NoAttempt /\ target = None
         /\ candidate = None
    /\ step = "previous" =>
         /\ running.op = "replace_switch" /\ target # None /\ target \in retired
         /\ candidate = None /\ replacement = "none"
    /\ running.op \in Enders => step = "retiring" \/ (step = "ended" /\ active = None)

(* Every launched unit is retired, active or the candidate, and an active    *)
(* one that is not retired runs.                                             *)
Accounted ==
    /\ \A s \in Slot : unit[s] # "none" => s \in retired \/ s = active \/ s = candidate
    /\ \A s \in Slot : s \in retired \/ s = active => unit[s] # "none"
    /\ active # None /\ active \notin retired => unit[active] = "running"

(* A queued failure report names a unit that was launched.                   *)
Reported ==
    \A i \in 1 .. Len(queue) : queue[i].op \in {"unhealthy", "failed"} =>
         queue[i].slot # None /\ unit[queue[i].slot] # "none"

(* The published state goes with the active unit and the step of the         *)
(* attempt.                                                                  *)
StateFits ==
    /\ active # None => state = "ready" \/ state = "stopping"
    /\ state = "stopping" => step = "retiring" /\ running.op \in Enders
    /\ step \in Attempts /\ attempt.promote => state \in {"queued", "starting"}
    /\ step \in Attempts /\ ~attempt.promote => state = "ready"

(* The operations of the queued commands, by position.                       *)
Ops(i) == queue[i].op
Pos == 1 .. Len(queue)

(* Once dispose() was called, its command waits or runs, nothing but failure *)
(* reports comes behind it, and its end leaves nothing active.               *)
Disposing ==
    /\ Pending({"dispose"}) => lifecycle # "open"
    /\ lifecycle = "closed" => Queued({"dispose"}) \/ (running.op = "dispose" /\ step = "retiring")
    /\ \A i, j \in Pos : Ops(i) = "dispose" /\ i < j => Ops(j) \in {"unhealthy", "failed"}
    /\ running.op = "dispose" \/ lifecycle = "terminal" =>
         \A j \in Pos : Ops(j) \in {"unhealthy", "failed"}
    /\ lifecycle = "terminal" <=> state = "disposed"
    /\ lifecycle = "terminal" => active = None /\ step \in {"idle", "ended"}

(* Neither a backoff nor a cooldown timer is alive.                          *)
NoTimers == retry.live = 0 /\ ~cooldownTimer

(* In front of a queued restart only stops can wait.                         *)
RestartFirst == \A i, j \in Pos : Ops(i) = "restart" /\ j < i => Ops(j) = "stop"

(* Behind a queued restart the running command plans no retry: it is none    *)
(* that would, its attempt is superseded, and the timers are cleared.        *)
RestartSettled ==
    lifecycle = "open" /\ Queued({"restart"}) =>
         /\ running.op \notin {"replace_switch", "unhealthy", "failed"}
         /\ step = "retiring" => running.op = "stop"
         /\ Authorized => attempt.authority = "lost"
         /\ NoTimers

(* One launch at most is queued, and no restart in front of it.              *)
LaunchOnce ==
    lifecycle = "open" =>
         /\ \A i, j \in Pos : Ops(i) = "launch" /\ Ops(j) = "launch" => i = j
         /\ \A i, j \in Pos : Ops(i) = "launch" /\ j < i => Ops(j) # "restart"

(* In front of a queued launch nothing is active, nothing launches and no    *)
(* timer is alive.                                                           *)
LaunchSettled ==
    lifecycle = "open" /\ Queued({"launch"}) =>
         /\ \/ step \in {"idle", "ended", "previous", "promoted"} /\ active = None
            \/ step = "retiring" /\ running.op = "stop"
         /\ NoTimers

(* A stop that waits for the end of a replacement has cleared the timers.    *)
StopBehindSwitch ==
    lifecycle = "open" /\ step = "previous" /\ Queued({"stop"}) => NoTimers

(* An open supervisor has at most one backoff timer, whose handle it holds,  *)
(* and has it in backoff only; it has a cooldown timer only when it gave up. *)
Timers ==
    lifecycle = "open" =>
         /\ retry.live = IF retry.held THEN 1 ELSE 0
         /\ retry.live > 0 => state = "backoff"
         /\ cooldownTimer => state = "terminal"

(* A superseded attempt is followed by the command that superseded it.       *)
PlannedAttempt == Authorized /\ attempt.authority = "lost" => Queued(Superseders)

(* A supervisor that says it is starting, or ready without a unit, has an    *)
(* attempt in progress or a command waiting; unless the promoted unit may    *)
(* end before the replacement that started it returns, which then drops it.  *)
PlannedStart ==
    /\ state \in {"queued", "starting"} =>
         step \in Attempts \/ Queued(Superseders)
    /\ state = "ready" /\ active = None =>
         step \in Attempts \/ Queued({"dispose"}) \/ "fail_in_promotion" \in Races

(* In backoff the policy allows a retry, and a timer or a waiting command    *)
(* will end it.                                                              *)
PlannedBackoff ==
    state = "backoff" =>
         /\ policy.mode # "never" /\ (policy.mode = "always" \/ failures <= MaxRestarts)
         /\ retry.live > 0 \/ Queued(Changers)

(* After giving up, the cooldown timer is set if the policy has one, or a    *)
(* command waits.                                                            *)
PlannedCooldown ==
    state = "terminal" =>
         cooldownTimer = policy.cooldown \/ Queued(Changers)

(* A retired unit is still the active one only until the retirement or the   *)
(* stop that kill() queued is over.                                          *)
KilledActive  == active # None /\ active \in retired => step = "retiring" \/ Queued(Enders)

(* The same of a candidate that kill() retired before it was switched to.    *)
KilledCandidate ==
    /\ step = "switch" /\ candidate \in retired => Queued(Enders)
    /\ step = "starting" /\ candidate \in retired /\ unit[candidate] # "gone" => Queued(Enders)

-----------------------------------------------------------------------------
(* Types. *)

(* The constructors of commands, attempts and timers have their types.       *)
LEMMA CommandTypes ==
    /\ \A op \in Commands : Plain(op) \in Command
    /\ \A c \in Causes : Launch(c) \in Command
    /\ \A s \in Slot, op \in Commands : UnitCommand(op, s) \in Command
BY DEF Plain, Launch, UnitCommand, Command, Commands, Causes

(* An attempt begins as a record of its type.                                *)
LEMMA AttemptTypes ==
    /\ NoAttempt \in AttemptSet
    /\ \A c \in Causes, p \in BOOLEAN :
         [cause |-> c, slot |-> None, promote |-> p,
          authority |-> "current", outcome |-> "none"] \in AttemptSet
BY DEF NoAttempt, AttemptSet, Causes

(* What clearing the timers leaves of them.                                  *)
LEMMA ClearedRetryType ==
    ASSUME RetryType
    PROVE  /\ ClearedRetry \in [live : Nat, held : BOOLEAN]
           /\ ClearedRetry.held = FALSE
           /\ ClearedRetry.live = IF retry.held THEN retry.live - 1 ELSE retry.live
<1>1. CASE retry.held BY <1>1 DEF RetryType, ClearedRetry
<1>2. CASE ~retry.held BY <1>2 DEF RetryType, ClearedRetry
<1> QED BY <1>1, <1>2

(* What the policy decides at the end of a unit: nothing, stopped, a backoff *)
(* or the terminal state.                                                    *)
Verdict ==
    /\ \/ UNCHANGED <<state, timers>>
       \/ state' = "stopped" /\ UNCHANGED timers
       \/ lifecycle = "open" /\ ScheduleBackoff /\ policy.mode # "never"
          /\ (policy.mode = "always" \/ failures' <= MaxRestarts)
       \/ lifecycle = "open" /\ EnterTerminal
    /\ failures' = failures \/ failures' = OneMoreFailure \/ failures' = 0

(* Each of the code's four decisions is such a verdict.                      *)
LEMMA VerdictOfDecide ==
    ASSUME NEW n, n \in Nat, Decide(n), MaxRestarts \in Nat, failures' = n,
           failures' = failures \/ failures' = OneMoreFailure
    PROVE  Verdict
<1>1. CASE lifecycle # "open"
  BY <1>1 DEF Decide, Verdict
<1>2. CASE lifecycle = "open" /\ Exhausted(n)
  BY <1>2 DEF Decide, Verdict
<1>3. CASE lifecycle = "open" /\ ~Exhausted(n)
  BY <1>3 DEF Decide, Verdict, Exhausted
<1> QED BY <1>1, <1>2, <1>3

(* A failure leads to one of them...                                         *)
LEMMA VerdictOfFailure ==
    ASSUME PolicyType, OnFailure
    PROVE  Verdict
<1>1. CASE lifecycle # "open"
  BY <1>1 DEF OnFailure, NoDecision, Verdict
<1>2. CASE lifecycle = "open"
  BY <1>2, Constants, VerdictOfDecide DEF OnFailure, OneMoreFailure, PolicyType
<1> QED BY <1>1, <1>2

(* ...a clean exit does...                                                   *)
LEMMA VerdictOfExit ==
    ASSUME PolicyType, CleanExit
    PROVE  Verdict
<1>1. CASE policy.mode = "always" /\ lifecycle = "open"
  BY <1>1 DEF CleanExit, Verdict
<1>2. CASE policy.mode = "always" /\ lifecycle # "open"
  BY <1>2 DEF CleanExit, Verdict
<1>3. CASE policy.mode # "always"
  BY <1>3 DEF CleanExit, Verdict
<1> QED BY <1>1, <1>2, <1>3

(* ...and so does the end of a unit under a replacement that is given up.    *)
LEMMA VerdictOfOldUnit ==
    ASSUME PolicyType, StateType, Shape, step \in Attempts, ~attempt.promote,
           OldUnitPolicy
    PROVE  Verdict
<1>a. active = None => replacement \in {"failed", "exited"}
  BY DEF Shape, None
<1>1. CASE active # None \/ replacement = "running"
  BY <1>1 DEF OldUnitPolicy, Verdict
<1>2. CASE active = None /\ replacement = "failed"
  BY <1>2, Constants, VerdictOfDecide DEF OldUnitPolicy, PolicyType
<1>3. CASE active = None /\ replacement = "exited"
  <2>1. CASE policy.mode = "always" /\ lifecycle = "open"
    BY <1>3, <2>1 DEF OldUnitPolicy, Verdict
  <2>2. CASE policy.mode = "always" /\ lifecycle # "open"
    BY <1>3, <2>2 DEF OldUnitPolicy, Verdict
  <2>3. CASE policy.mode # "always"
    BY <1>3, <2>3 DEF OldUnitPolicy, Verdict
  <2> QED BY <2>1, <2>2, <2>3
<1> QED BY <1>a, <1>1, <1>2, <1>3

(* The two orders of events that let a start or a retry slip behind a        *)
(* command are left out.                                                     *)
QuietRaces == "start_behind_launch" \notin Races /\ "retry_behind_command" \notin Races

(* So are the four steps that consult the policy.                            *)
LEMMA VerdictStep ==
    ASSUME PolicyType, StateType, Shape,
           \/ \E op \in {"unhealthy", "failed"} : UnitFailedRetired(op)
           \/ BudgetRejects
           \/ RolledBack
           \/ \E s \in Slot, clean \in BOOLEAN : ActiveExits(s, clean)
    PROVE  Verdict /\ policy' = policy /\ calls' = calls
<1>1. CASE \E op \in {"unhealthy", "failed"} : UnitFailedRetired(op)
  BY <1>1, VerdictOfFailure DEF UnitFailedRetired, Retiring
<1>2. CASE BudgetRejects
  <2>1. CASE ~attempt.promote
    BY <1>2, <2>1, VerdictOfOldUnit DEF BudgetRejects, Attempting, Attempts
  <2>2. CASE attempt.promote /\ attempt.authority # "current"
    BY <1>2, <2>2 DEF BudgetRejects, Attempting, NoDecision, Verdict
  <2>3. CASE /\ attempt.promote /\ attempt.authority = "current"
             /\ attempt.cause \in {"backoff", "cooldown"}
    BY <1>2, <2>3, VerdictOfFailure DEF BudgetRejects, Attempting
  <2>4. CASE /\ attempt.promote /\ attempt.authority = "current"
             /\ attempt.cause \notin {"backoff", "cooldown"}
    BY <1>2, <2>4 DEF BudgetRejects, Attempting, Verdict
  <2> QED BY <2>1, <2>2, <2>3, <2>4
<1>3. CASE RolledBack
  <2>1. CASE ~attempt.promote
    BY <1>3, <2>1, VerdictOfOldUnit DEF RolledBack, Attempting, Attempts
  <2>2. CASE attempt.promote /\ OwnsFailure
    BY <1>3, <2>2, VerdictOfFailure DEF RolledBack, Attempting
  <2>3. CASE attempt.promote /\ ~OwnsFailure
    BY <1>3, <2>3 DEF RolledBack, Attempting, NoDecision, Verdict
  <2> QED BY <2>1, <2>2, <2>3
<1>4. ASSUME NEW s \in Slot, NEW clean \in BOOLEAN, ActiveExits(s, clean)
      PROVE  Verdict /\ policy' = policy /\ calls' = calls
  <2>1. policy' = policy /\ calls' = calls
    BY <1>4 DEF ActiveExits, Exits, Happens
  <2>2. CASE replacement # "none"
    <3>1. UNCHANGED <<state, timers>>
      BY <1>4, <2>2 DEF ActiveExits
    <3>2. failures' = failures \/ failures' = OneMoreFailure
      BY <1>4, <2>2 DEF ActiveExits
    <3> QED BY <2>1, <3>1, <3>2 DEF Verdict
  <2>3. CASE replacement = "none" /\ clean
    <3>1. CleanExit
      BY <1>4, <2>3 DEF ActiveExits
    <3> QED BY <2>1, <3>1, VerdictOfExit
  <2>4. CASE replacement = "none" /\ ~clean
    <3>1. OnFailure
      BY <1>4, <2>4 DEF ActiveExits
    <3> QED BY <2>1, <3>1, VerdictOfFailure
  <2> QED BY <2>1, <2>2, <2>3, <2>4
<1> QED BY <1>1, <1>2, <1>3, <1>4

(* Every step keeps the types; the counter of failures and the old unit's    *)
(* policy need to know what the step implies.                                *)
LEMMA QueueTypeStep ==
    ASSUME QueueType, [Next]_vars
    PROVE  QueueType'
<1>1. CASE Start
  BY <1>1, Constants, CommandTypes
     DEF Start, EnqueueLaunch, Enqueue, QueueType, Causes
<1>2. CASE Stop
  BY <1>2, Constants, CommandTypes
     DEF Supersede, Superseded, Authorized, ClearTimers, ClearedRetry, Stop,
         Enqueue, QueueType, Commands
<1>3. CASE Kill
  <2>1. CASE lifecycle # "open" \/ Pending({"stop"})
    BY <1>3, <2>1, Constants, CommandTypes
       DEF Call, Turn, Supersede, Superseded, Authorized, ClearTimers,
           ClearedRetry, Kill, Enqueue, QueueType, Commands
  <2>2. CASE ~(lifecycle # "open" \/ Pending({"stop"}))
    BY <1>3, <2>2, Constants, CommandTypes
       DEF Call, Turn, Supersede, Superseded, Authorized, ClearTimers,
           ClearedRetry, Kill, Enqueue, QueueType, Commands
  <2> QED BY <1>3, <2>1, <2>2
<1>4. CASE Restart
  BY <1>4, Constants, CommandTypes
     DEF Supersede, Superseded, Authorized, ClearTimers, ClearedRetry, Restart,
         Enqueue, QueueType, Commands
<1>5. CASE Dispose
  BY <1>5, Constants, CommandTypes
     DEF Supersede, Superseded, Authorized, ClearTimers, ClearedRetry, Dispose,
         Enqueue, QueueType, Commands
<1>6. CASE \E op \in {"replace_stop", "replace_switch"} : Replace(op)
  BY <1>6, Constants, CommandTypes DEF Replace, Enqueue, QueueType, Commands
<1>7. CASE \E c \in {"start", "backoff", "cooldown"} : BeginLaunch(c)
  BY <1>7 DEF Begin, BeginLaunch, QueueType
<1>8. CASE \E op \in {"stop", "dispose"} : Shutdown(op)
  BY <1>8 DEF Begin, Shutdown, QueueType
<1>9. CASE BeginRestart
  BY <1>9 DEF Begin, BeginRestart, QueueType
<1>10. CASE \E op \in {"replace_stop", "replace_switch"} : ReplaceRejected(op)
  BY <1>10 DEF Begin, ReplaceRejected, QueueType
<1>11. CASE BeginReplaceStop
  BY <1>11 DEF Begin, BeginReplaceStop, QueueType
<1>12. CASE BeginReplaceSwitch
  BY <1>12 DEF Begin, BeginReplaceSwitch, QueueType
<1>13. CASE \E s \in Slot, op \in {"unhealthy", "failed"} : BeginUnitFailed(op, s)
  BY <1>13 DEF Begin, BeginUnitFailed, QueueType
<1>14. CASE StopRetired
  BY <1>14 DEF Retiring, StopRetired, QueueType
<1>15. CASE DisposeRetired
  BY <1>15 DEF Retiring, DisposeRetired, QueueType
<1>16. CASE RestartRetired
  BY <1>16 DEF Retiring, RestartRetired, QueueType
<1>17. CASE ReplaceStopRetired
  BY <1>17 DEF Retiring, ReplaceStopRetired, QueueType
<1>18. CASE \E op \in {"unhealthy", "failed"} : UnitFailedRetired(op)
  BY <1>18 DEF Retiring, UnitFailedRetired, QueueType
<1>19. CASE PreviousRetired
  BY <1>19 DEF PreviousRetired, QueueType
<1>20. CASE \E s \in Slot : BudgetGrants(s)
  BY <1>20 DEF Attempting, BudgetGrants, QueueType
<1>21. CASE BudgetRejects
  BY <1>21 DEF Attempting, BudgetRejects, QueueType
<1>22. CASE AttemptReady
  BY <1>22 DEF Attempting, AttemptReady, Promote, QueueType
<1>22r. CASE ReplaceReturns
  BY <1>22r DEF Attempting, ReplaceReturns, End, QueueType
<1>23. CASE Switch
  BY <1>23 DEF Attempting, Switch, QueueType
<1>24. CASE AttemptFails
  BY <1>24 DEF Attempting, AttemptFails, QueueType
<1>25. CASE StartupTimeout
  BY <1>25 DEF Attempting, StartupTimeout, QueueType
<1>26. CASE RolledBack
  BY <1>26 DEF Attempting, RolledBack, QueueType
<1>27. CASE QueueIdles
  BY <1>27 DEF QueueIdles, QueueType
<1>28. CASE \E s \in Slot : LaunchResolves(s) \/ LaunchRejects(s)
  BY <1>28 DEF Happens, LaunchResolves, LaunchRejects, QueueType
<1>29. CASE \E s \in Slot : RetiredExits(s)
  BY <1>29 DEF Happens, RetiredExits, Exits, QueueType
<1>30. CASE \E s \in Slot : CandidateExits(s)
  BY <1>30 DEF Happens, CandidateExits, Exits, QueueType
<1>31. CASE \E s \in Slot, clean \in BOOLEAN : ActiveExits(s, clean)
  BY <1>31
     DEF Happens, KeepWaiting, OnFailure, OneMoreFailure, Decide, Exhausted,
         EnterTerminal, ScheduleBackoff, NoDecision, ClearedRetry, ActiveExits,
         Exits, CleanExit, QueueType
<1>32. CASE \E s \in Slot, op \in {"unhealthy", "failed"} : Fails(s, op)
  <2>1. CASE UNCHANGED queue
    BY <1>32, <2>1, Constants, CommandTypes
       DEF Happens, Turn, Fails, Enqueue, OneMoreFailure, QueueType, Commands
  <2>2. CASE ~UNCHANGED queue
    BY <1>32, <2>2, Constants, CommandTypes
       DEF Happens, Turn, Fails, Enqueue, OneMoreFailure, QueueType, Commands
  <2> QED BY <1>32, <2>1, <2>2
<1>33. CASE \E s \in Slot : Abandon(s)
  BY <1>33 DEF Happens, Abandon, QueueType
<1>34. CASE FailureExpires
  BY <1>34 DEF Happens, FailureExpires, QueueType
<1>35. CASE BackoffFires
  <2>1. CASE UNCHANGED queue
    BY <1>35, <2>1, Constants, CommandTypes
       DEF Happens, Turn, BackoffFires, TimerTurn, EnqueueLaunch, Enqueue,
           QueueType, Causes
  <2>2. CASE ~UNCHANGED queue
    BY <1>35, <2>2, Constants, CommandTypes
       DEF Happens, Turn, BackoffFires, TimerTurn, EnqueueLaunch, Enqueue,
           QueueType, Causes
  <2> QED BY <1>35, <2>1, <2>2
<1>36. CASE CooldownFires
  <2>1. CASE UNCHANGED queue
    BY <1>36, <2>1, Constants, CommandTypes
       DEF Happens, Turn, CooldownFires, TimerTurn, EnqueueLaunch, Enqueue,
           QueueType, Causes
  <2>2. CASE ~UNCHANGED queue
    BY <1>36, <2>2, Constants, CommandTypes
       DEF Happens, Turn, CooldownFires, TimerTurn, EnqueueLaunch, Enqueue,
           QueueType, Causes
  <2> QED BY <1>36, <2>1, <2>2
<1>37. CASE UNCHANGED vars
  BY <1>37 DEF vars, QueueType
<1> QED BY <1>1, <1>2, <1>3, <1>4, <1>5, <1>6, <1>7, <1>8, <1>9, <1>10, <1>11,
           <1>12, <1>13, <1>14, <1>15, <1>16, <1>17, <1>18, <1>19, <1>20, <1>21,
           <1>22, <1>22r, <1>23, <1>24, <1>25, <1>26, <1>27, <1>28, <1>29, <1>30, <1>31,
           <1>32, <1>33, <1>34, <1>35, <1>36, <1>37
           DEF Next, Progress, Deadline

LEMMA AttemptTypeStep ==
    ASSUME AttemptType, [Next]_vars
    PROVE  AttemptType'
<1>1. CASE Start
  BY <1>1 DEF Start, AttemptType
<1>2. CASE Stop
  BY <1>2
     DEF Supersede, Superseded, Authorized, ClearTimers, ClearedRetry, Stop,
         Enqueue, Plain, AttemptType, AttemptSet
<1>3. CASE Kill
  BY <1>3
     DEF Supersede, Superseded, Authorized, ClearTimers, ClearedRetry, Kill,
         Enqueue, Plain, AttemptType, AttemptSet
<1>4. CASE Restart
  BY <1>4
     DEF Supersede, Superseded, Authorized, ClearTimers, ClearedRetry, Restart,
         Enqueue, Plain, AttemptType, AttemptSet
<1>5. CASE Dispose
  BY <1>5
     DEF Supersede, Superseded, Authorized, ClearTimers, ClearedRetry, Dispose,
         Enqueue, Plain, AttemptType, AttemptSet
<1>6. CASE \E op \in {"replace_stop", "replace_switch"} : Replace(op)
  BY <1>6 DEF Replace, AttemptType
<1>7. CASE \E c \in {"start", "backoff", "cooldown"} : BeginLaunch(c)
  BY <1>7, Constants, AttemptTypes
     DEF Begin, RunAttempt, End, KeepWaiting, BeginLaunch, Launch, AttemptType,
         Causes
<1>8. CASE \E op \in {"stop", "dispose"} : Shutdown(op)
  <2>1. CASE attempt' = attempt
    BY <1>8, <2>1, Constants, AttemptTypes
      
          DEF Begin, End, KeepWaiting, Stable, ClearTimers, ClearedRetry, Shutdown,
           Retire, Plain, AttemptType
  <2>2. CASE attempt' = NoAttempt
    BY <1>8, <2>2, Constants, AttemptTypes
      
          DEF Begin, End, KeepWaiting, Stable, ClearTimers, ClearedRetry, Shutdown,
           Retire, Plain, AttemptType
  <2> QED BY <1>8, <2>1, <2>2 DEF Shutdown, End, Retire
<1>9. CASE BeginRestart
  <2>1. CASE active = None
    BY <1>9, <2>1, Constants, AttemptTypes
       DEF Begin, RunAttempt, End, KeepWaiting, Stable, BeginRestart, Retire,
           Plain, AttemptType, Causes
  <2>2. CASE active # None
    BY <1>9, <2>2, Constants, AttemptTypes
       DEF Begin, RunAttempt, End, KeepWaiting, Stable, BeginRestart, Retire,
           Plain, AttemptType, Causes
  <2> QED BY <1>9, <2>1, <2>2
<1>10. CASE \E op \in {"replace_stop", "replace_switch"} : ReplaceRejected(op)
  BY <1>10, Constants, AttemptTypes
     DEF Begin, End, ReplaceRejected, Plain, AttemptType
<1>11. CASE BeginReplaceStop
  BY <1>11 DEF Begin, BeginReplaceStop, Retire, Plain, AttemptType
<1>12. CASE BeginReplaceSwitch
  BY <1>12, Constants, AttemptTypes
     DEF Begin, End, BeginReplaceSwitch, Plain, AttemptType, Causes
<1>13. CASE \E s \in Slot, op \in {"unhealthy", "failed"} : BeginUnitFailed(op, s)
  <2>1. CASE attempt' = attempt
    BY <1>13, <2>1, Constants, AttemptTypes
       DEF Begin, End, BeginUnitFailed, Retire, UnitCommand, AttemptType
  <2>2. CASE attempt' = NoAttempt
    BY <1>13, <2>2, Constants, AttemptTypes
       DEF Begin, End, BeginUnitFailed, Retire, UnitCommand, AttemptType
  <2> QED BY <1>13, <2>1, <2>2 DEF BeginUnitFailed, End, Retire
<1>14. CASE StopRetired
  BY <1>14, Constants, AttemptTypes
     DEF Retiring, End, KeepWaiting, StopRetired, AttemptType
<1>15. CASE DisposeRetired
  BY <1>15, Constants, AttemptTypes
     DEF Retiring, End, KeepWaiting, DisposeRetired, AttemptType
<1>16. CASE RestartRetired
  BY <1>16, Constants, AttemptTypes
     DEF Retiring, RunAttempt, End, KeepWaiting, RestartRetired, AttemptType,
         Causes
<1>17. CASE ReplaceStopRetired
  BY <1>17, Constants, AttemptTypes
    
        DEF Retiring, RunAttempt, End, KeepWaiting, ReplaceStopRetired, AttemptType,
         Causes
<1>18. CASE \E op \in {"unhealthy", "failed"} : UnitFailedRetired(op)
  BY <1>18, Constants, AttemptTypes
    
        DEF Retiring, End, KeepWaiting, OnFailure, OneMoreFailure, Decide, Exhausted,
         EnterTerminal, ScheduleBackoff, NoDecision, ClearedRetry,
         UnitFailedRetired, AttemptType
<1>19. CASE PreviousRetired
  BY <1>19, Constants, AttemptTypes DEF PreviousRetired, End, AttemptType
<1>20. CASE \E s \in Slot : BudgetGrants(s)
  BY <1>20 DEF Attempting, BudgetGrants, AttemptType, AttemptSet
<1>21. CASE BudgetRejects
  BY <1>21, Constants, AttemptTypes
    
        DEF Attempting, EndAttempt, End, OnFailure, OneMoreFailure, Decide, Exhausted,
         EnterTerminal, ScheduleBackoff, NoDecision, ClearedRetry, OldUnitPolicy,
         BudgetRejects, AttemptType
<1>22. CASE AttemptReady
  <2>1. CASE attempt' = attempt
    BY <1>22, <2>1, Constants, AttemptTypes
      
          DEF Attempting, Turn, End, KeepWaiting, Stable, AttemptReady, Promote, AttemptType
  <2>2. CASE attempt' = NoAttempt
    BY <1>22, <2>2, Constants, AttemptTypes
      
          DEF Attempting, Turn, End, KeepWaiting, Stable, AttemptReady, Promote, AttemptType
  <2> QED BY <1>22, <2>1, <2>2 DEF AttemptReady, Promote, End
<1>22r. CASE ReplaceReturns
  BY <1>22r, AttemptTypes DEF Attempting, End, ReplaceReturns, AttemptType
<1>23. CASE Switch
  BY <1>23 DEF Attempting, Switch, AttemptType
<1>24. CASE AttemptFails
  BY <1>24 DEF Attempting, AttemptFails, RollBack, AttemptType, AttemptSet
<1>25. CASE StartupTimeout
  BY <1>25 DEF Attempting, StartupTimeout, RollBack, AttemptType, AttemptSet
<1>26. CASE RolledBack
  BY <1>26, Constants, AttemptTypes
    
        DEF Attempting, EndAttempt, End, OnFailure, OneMoreFailure, Decide, Exhausted,
         EnterTerminal, ScheduleBackoff, NoDecision, ClearedRetry, OldUnitPolicy,
         RolledBack, OwnsFailure, AttemptType
<1>27. CASE QueueIdles
  BY <1>27 DEF QueueIdles, AttemptType
<1>28. CASE \E s \in Slot : LaunchResolves(s) \/ LaunchRejects(s)
  BY <1>28 DEF Happens, LaunchResolves, LaunchRejects, AttemptType
<1>29. CASE \E s \in Slot : RetiredExits(s)
  BY <1>29 DEF Happens, RetiredExits, Exits, AttemptType
<1>30. CASE \E s \in Slot : CandidateExits(s)
  BY <1>30 DEF Happens, CandidateExits, Exits, AttemptType
<1>31. CASE \E s \in Slot, clean \in BOOLEAN : ActiveExits(s, clean)
  BY <1>31
     DEF Happens, KeepWaiting, OnFailure, OneMoreFailure, Decide, Exhausted,
         EnterTerminal, ScheduleBackoff, NoDecision, ClearedRetry, ActiveExits,
         Exits, CleanExit, AttemptType
<1>32. CASE \E s \in Slot, op \in {"unhealthy", "failed"} : Fails(s, op)
  BY <1>32 DEF Happens, Fails, AttemptType
<1>33. CASE \E s \in Slot : Abandon(s)
  BY <1>33 DEF Happens, Abandon, AttemptType
<1>34. CASE FailureExpires
  BY <1>34 DEF Happens, FailureExpires, AttemptType
<1>35. CASE BackoffFires
  BY <1>35 DEF Happens, BackoffFires, AttemptType
<1>36. CASE CooldownFires
  BY <1>36 DEF Happens, CooldownFires, AttemptType
<1>37. CASE UNCHANGED vars
  BY <1>37 DEF vars, AttemptType
<1> QED BY <1>1, <1>2, <1>3, <1>4, <1>5, <1>6, <1>7, <1>8, <1>9, <1>10, <1>11,
           <1>12, <1>13, <1>14, <1>15, <1>16, <1>17, <1>18, <1>19, <1>20, <1>21,
           <1>22, <1>22r, <1>23, <1>24, <1>25, <1>26, <1>27, <1>28, <1>29, <1>30, <1>31,
           <1>32, <1>33, <1>34, <1>35, <1>36, <1>37
           DEF Next, Progress, Deadline

LEMMA PolicyTypeStep ==
    ASSUME PolicyType, StateType, Shape, [Next]_vars
    PROVE  PolicyType'
<1>1. CASE Start
  BY <1>1, Constants
    
        DEF Call, Turn, Start, EnqueueLaunch, Enqueue, Launch, PolicyType, RetryType,
         Policy
<1>2. CASE Stop
  <2>1. ClearTimers
    BY <1>2 DEF Stop
  <2>2. RetryType' /\ cooldownTimer' \in BOOLEAN
    BY <2>1, ClearedRetryType DEF ClearTimers, RetryType, PolicyType
  <2>3. policy' \in Policy /\ calls' \in 0 .. MaxCalls
    BY <1>2, Constants DEF Stop, Call, PolicyType
  <2>4. failures' \in 0 .. MaxRestarts + 1
    BY <1>2, Constants DEF Stop, PolicyType
  <2> QED BY <2>1, <2>2, <2>3, <2>4 DEF PolicyType
<1>3. CASE Kill
  <2>1. ClearTimers \/ UNCHANGED timers
    BY <1>3 DEF Kill
  <2>2. RetryType' /\ cooldownTimer' \in BOOLEAN
    BY <2>1, ClearedRetryType DEF ClearTimers, RetryType, PolicyType
  <2>3. policy' \in Policy /\ calls' \in 0 .. MaxCalls
    BY <1>3, Constants DEF Kill, Call, PolicyType
  <2>4. failures' \in 0 .. MaxRestarts + 1
    BY <1>3, Constants DEF Kill, PolicyType
  <2> QED BY <2>1, <2>2, <2>3, <2>4 DEF PolicyType
<1>4. CASE Restart
  <2>1. ClearTimers
    BY <1>4 DEF Restart
  <2>2. RetryType' /\ cooldownTimer' \in BOOLEAN
    BY <2>1, ClearedRetryType DEF ClearTimers, RetryType, PolicyType
  <2>3. policy' \in Policy /\ calls' \in 0 .. MaxCalls
    BY <1>4, Constants DEF Restart, Call, PolicyType
  <2>4. failures' \in 0 .. MaxRestarts + 1
    BY <1>4, Constants DEF Restart, PolicyType
  <2> QED BY <2>1, <2>2, <2>3, <2>4 DEF PolicyType
<1>5. CASE Dispose
  <2>1. ClearTimers
    BY <1>5 DEF Dispose
  <2>2. RetryType' /\ cooldownTimer' \in BOOLEAN
    BY <2>1, ClearedRetryType DEF ClearTimers, RetryType, PolicyType
  <2>3. policy' \in Policy /\ calls' \in 0 .. MaxCalls
    BY <1>5, Constants DEF Dispose, Call, PolicyType
  <2>4. failures' \in 0 .. MaxRestarts + 1
    BY <1>5, Constants DEF Dispose, PolicyType
  <2> QED BY <2>1, <2>2, <2>3, <2>4 DEF PolicyType
<1>6. CASE \E op \in {"replace_stop", "replace_switch"} : Replace(op)
  BY <1>6, Constants
     DEF Call, Turn, Replace, Enqueue, Plain, PolicyType, RetryType, Policy
<1>7. CASE \E c \in {"start", "backoff", "cooldown"} : BeginLaunch(c)
  BY <1>7 DEF Begin, BeginLaunch, PolicyType, RetryType, Policy
<1>8. CASE \E op \in {"stop", "dispose"} : Shutdown(op)
  <2>1. ClearTimers
    BY <1>8 DEF Shutdown
  <2>2. RetryType' /\ cooldownTimer' \in BOOLEAN
    BY <2>1, ClearedRetryType DEF ClearTimers, RetryType, PolicyType
  <2>3. policy' \in Policy /\ calls' \in 0 .. MaxCalls
    BY <1>8, Constants DEF Shutdown, Begin, PolicyType
  <2>4. failures' \in 0 .. MaxRestarts + 1
    BY <1>8, Constants DEF Shutdown, PolicyType
  <2> QED BY <2>1, <2>2, <2>3, <2>4 DEF PolicyType
<1>9. CASE BeginRestart
  BY <1>9 DEF Begin, BeginRestart, PolicyType, RetryType, Policy
<1>10. CASE \E op \in {"replace_stop", "replace_switch"} : ReplaceRejected(op)
  BY <1>10 DEF Begin, ReplaceRejected, PolicyType, RetryType, Policy
<1>11. CASE BeginReplaceStop
  BY <1>11 DEF Begin, BeginReplaceStop, PolicyType, RetryType, Policy
<1>12. CASE BeginReplaceSwitch
  BY <1>12 DEF Begin, BeginReplaceSwitch, PolicyType, RetryType, Policy
<1>13. CASE \E s \in Slot, op \in {"unhealthy", "failed"} : BeginUnitFailed(op, s)
  BY <1>13 DEF Begin, BeginUnitFailed, PolicyType, RetryType, Policy
<1>14. CASE StopRetired
  BY <1>14 DEF Retiring, StopRetired, PolicyType, RetryType, Policy
<1>15. CASE DisposeRetired
  BY <1>15 DEF Retiring, DisposeRetired, PolicyType, RetryType, Policy
<1>16. CASE RestartRetired
  BY <1>16 DEF Retiring, RestartRetired, PolicyType, RetryType, Policy
<1>17. CASE ReplaceStopRetired
  BY <1>17 DEF Retiring, ReplaceStopRetired, PolicyType, RetryType, Policy
<1>18. CASE \E op \in {"unhealthy", "failed"} : UnitFailedRetired(op)
  <2>1. Verdict /\ policy' = policy /\ calls' = calls
    BY <1>18, VerdictStep
  <2>2. failures' \in 0 .. MaxRestarts + 1
    BY <2>1, Constants DEF Verdict, OneMoreFailure, PolicyType
  <2>3. RetryType' /\ cooldownTimer' \in BOOLEAN
    <3>1. CASE UNCHANGED timers
      BY <3>1 DEF PolicyType, RetryType
    <3>2. CASE ScheduleBackoff
      BY <3>2 DEF ScheduleBackoff, PolicyType, RetryType
    <3>3. CASE EnterTerminal
      BY <3>3, ClearedRetryType
         DEF EnterTerminal, PolicyType, RetryType, Policy
    <3> QED BY <2>1, <3>1, <3>2, <3>3 DEF Verdict
  <2> QED BY <2>1, <2>2, <2>3 DEF PolicyType
<1>19. CASE PreviousRetired
  BY <1>19 DEF PreviousRetired, PolicyType, RetryType, Policy
<1>20. CASE \E s \in Slot : BudgetGrants(s)
  BY <1>20 DEF Attempting, BudgetGrants, PolicyType, RetryType, Policy
<1>21. CASE BudgetRejects
  <2>1. Verdict /\ policy' = policy /\ calls' = calls
    BY <1>21, VerdictStep
  <2>2. failures' \in 0 .. MaxRestarts + 1
    BY <2>1, Constants DEF Verdict, OneMoreFailure, PolicyType
  <2>3. RetryType' /\ cooldownTimer' \in BOOLEAN
    <3>1. CASE UNCHANGED timers
      BY <3>1 DEF PolicyType, RetryType
    <3>2. CASE ScheduleBackoff
      BY <3>2 DEF ScheduleBackoff, PolicyType, RetryType
    <3>3. CASE EnterTerminal
      BY <3>3, ClearedRetryType
         DEF EnterTerminal, PolicyType, RetryType, Policy
    <3> QED BY <2>1, <3>1, <3>2, <3>3 DEF Verdict
  <2> QED BY <2>1, <2>2, <2>3 DEF PolicyType
<1>22. CASE AttemptReady
  BY <1>22 DEF Attempting, AttemptReady, Promote, PolicyType, RetryType, Policy
<1>22r. CASE ReplaceReturns
  BY <1>22r DEF Attempting, ReplaceReturns, End, PolicyType, RetryType, Policy
<1>23. CASE Switch
  BY <1>23 DEF Attempting, Switch, PolicyType, RetryType, Policy
<1>24. CASE AttemptFails
  BY <1>24
     DEF Attempting, AttemptFails, RollBack, PolicyType, RetryType, Policy
<1>25. CASE StartupTimeout
  BY <1>25
     DEF Attempting, StartupTimeout, RollBack, PolicyType, RetryType, Policy
<1>26. CASE RolledBack
  <2>1. Verdict /\ policy' = policy /\ calls' = calls
    BY <1>26, VerdictStep
  <2>2. failures' \in 0 .. MaxRestarts + 1
    BY <2>1, Constants DEF Verdict, OneMoreFailure, PolicyType
  <2>3. RetryType' /\ cooldownTimer' \in BOOLEAN
    <3>1. CASE UNCHANGED timers
      BY <3>1 DEF PolicyType, RetryType
    <3>2. CASE ScheduleBackoff
      BY <3>2 DEF ScheduleBackoff, PolicyType, RetryType
    <3>3. CASE EnterTerminal
      BY <3>3, ClearedRetryType
         DEF EnterTerminal, PolicyType, RetryType, Policy
    <3> QED BY <2>1, <3>1, <3>2, <3>3 DEF Verdict
  <2> QED BY <2>1, <2>2, <2>3 DEF PolicyType
<1>27. CASE QueueIdles
  BY <1>27 DEF QueueIdles, PolicyType, RetryType, Policy
<1>28. CASE \E s \in Slot : LaunchResolves(s) \/ LaunchRejects(s)
  BY <1>28
     DEF Happens, LaunchResolves, LaunchRejects, PolicyType, RetryType, Policy
<1>29. CASE \E s \in Slot : RetiredExits(s)
  BY <1>29 DEF Happens, RetiredExits, Exits, PolicyType, RetryType, Policy
<1>30. CASE \E s \in Slot : CandidateExits(s)
  BY <1>30 DEF Happens, CandidateExits, Exits, PolicyType, RetryType, Policy
<1>31. CASE \E s \in Slot, clean \in BOOLEAN : ActiveExits(s, clean)
  <2>1. Verdict /\ policy' = policy /\ calls' = calls
    BY <1>31, VerdictStep
  <2>2. failures' \in 0 .. MaxRestarts + 1
    BY <2>1, Constants DEF Verdict, OneMoreFailure, PolicyType
  <2>3. RetryType' /\ cooldownTimer' \in BOOLEAN
    <3>1. CASE UNCHANGED timers
      BY <3>1 DEF PolicyType, RetryType
    <3>2. CASE ScheduleBackoff
      BY <3>2 DEF ScheduleBackoff, PolicyType, RetryType
    <3>3. CASE EnterTerminal
      BY <3>3, ClearedRetryType
         DEF EnterTerminal, PolicyType, RetryType, Policy
    <3> QED BY <2>1, <3>1, <3>2, <3>3 DEF Verdict
  <2> QED BY <2>1, <2>2, <2>3 DEF PolicyType
<1>32. CASE \E s \in Slot, op \in {"unhealthy", "failed"} : Fails(s, op)
  BY <1>32, Constants
     DEF Happens, Fails, Enqueue, UnitCommand, OneMoreFailure, PolicyType,
         RetryType, Policy
<1>33. CASE \E s \in Slot : Abandon(s)
  BY <1>33 DEF Happens, Abandon, PolicyType, RetryType, Policy
<1>34. CASE FailureExpires
  BY <1>34, Constants
     DEF Happens, FailureExpires, PolicyType, RetryType, Policy
<1>35. CASE BackoffFires
  BY <1>35 DEF Happens, BackoffFires, PolicyType, RetryType, Policy
<1>36. CASE CooldownFires
  <2>1. RetryType' /\ cooldownTimer' \in BOOLEAN
    BY <1>36 DEF CooldownFires, RetryType, PolicyType
  <2>2. UNCHANGED <<policy, calls>>
    BY <1>36 DEF CooldownFires, Happens
  <2>3. failures' \in 0 .. MaxRestarts + 1
    BY <1>36, Constants DEF CooldownFires, PolicyType
  <2> QED BY <2>1, <2>2, <2>3 DEF PolicyType
<1>37. CASE UNCHANGED vars
  BY <1>37 DEF vars, PolicyType, RetryType, Policy
<1> QED BY <1>1, <1>2, <1>3, <1>4, <1>5, <1>6, <1>7, <1>8, <1>9, <1>10, <1>11,
           <1>12, <1>13, <1>14, <1>15, <1>16, <1>17, <1>18, <1>19, <1>20, <1>21,
           <1>22, <1>22r, <1>23, <1>24, <1>25, <1>26, <1>27, <1>28, <1>29, <1>30, <1>31,
           <1>32, <1>33, <1>34, <1>35, <1>36, <1>37
           DEF Next, Progress, Deadline

LEMMA StateTypeStep ==
    ASSUME StateType, PolicyType, AttemptType, Shape, [Next]_vars
    PROVE  StateType'
<1>1. CASE Start
  BY <1>1 DEF Start, EnqueueLaunch, Enqueue, Launch, StateType
<1>2. CASE Stop
  BY <1>2
     DEF Supersede, Superseded, Authorized, ClearTimers, ClearedRetry, Stop,
         Enqueue, Plain, StateType
<1>3. CASE Kill
  BY <1>3 DEF Kill, StateType
<1>4. CASE Restart
  BY <1>4
     DEF Supersede, Superseded, Authorized, ClearTimers, ClearedRetry, Restart,
         Enqueue, Plain, StateType
<1>5. CASE Dispose
  BY <1>5
     DEF Supersede, Superseded, Authorized, ClearTimers, ClearedRetry, Dispose,
         Enqueue, Plain, StateType
<1>6. CASE \E op \in {"replace_stop", "replace_switch"} : Replace(op)
  BY <1>6 DEF Replace, StateType
<1>7. CASE \E c \in {"start", "backoff", "cooldown"} : BeginLaunch(c)
  BY <1>7
     DEF Begin, RunAttempt, End, KeepWaiting, BeginLaunch, Launch, StateType
<1>8. CASE \E op \in {"stop", "dispose"} : Shutdown(op)
  BY <1>8
     DEF Begin, End, KeepWaiting, ClearTimers, ClearedRetry, Shutdown, Retire,
         Plain, StateType
<1>9. CASE BeginRestart
  BY <1>9
     DEF Begin, RunAttempt, End, KeepWaiting, BeginRestart, Retire, Plain,
         StateType
<1>10. CASE \E op \in {"replace_stop", "replace_switch"} : ReplaceRejected(op)
  BY <1>10 DEF Begin, End, ReplaceRejected, Plain, StateType
<1>11. CASE BeginReplaceStop
  BY <1>11 DEF Begin, BeginReplaceStop, Retire, Plain, StateType
<1>12. CASE BeginReplaceSwitch
  BY <1>12 DEF Begin, End, BeginReplaceSwitch, Plain, StateType
<1>13. CASE \E s \in Slot, op \in {"unhealthy", "failed"} : BeginUnitFailed(op, s)
  BY <1>13 DEF Begin, End, BeginUnitFailed, Retire, UnitCommand, StateType
<1>14. CASE StopRetired
  BY <1>14 DEF Retiring, End, KeepWaiting, StopRetired, StateType
<1>15. CASE DisposeRetired
  BY <1>15 DEF Retiring, End, KeepWaiting, DisposeRetired, StateType
<1>16. CASE RestartRetired
  BY <1>16
     DEF Retiring, RunAttempt, End, KeepWaiting, RestartRetired, StateType
<1>17. CASE ReplaceStopRetired
  BY <1>17
     DEF Retiring, RunAttempt, End, KeepWaiting, ReplaceStopRetired, StateType
<1>18. CASE \E op \in {"unhealthy", "failed"} : UnitFailedRetired(op)
  <2>1. Verdict
    BY <1>18, VerdictStep
  <2>2. state' \in {state, "stopped", "backoff", "terminal"}
    BY <2>1 DEF Verdict, ScheduleBackoff, EnterTerminal
  <2> QED BY <1>18, <2>2
             DEF StateType, UnitFailedRetired, Retiring, End, KeepWaiting
<1>19. CASE PreviousRetired
  BY <1>19 DEF PreviousRetired, End, StateType
<1>20. CASE \E s \in Slot : BudgetGrants(s)
  BY <1>20 DEF Attempting, KeepWaiting, BudgetGrants, StateType
<1>21. CASE BudgetRejects
  <2>1. Verdict
    BY <1>21, VerdictStep
  <2>2. state' \in {state, "stopped", "backoff", "terminal"}
    BY <2>1 DEF Verdict, ScheduleBackoff, EnterTerminal
  <2> QED BY <1>21, <2>2
             DEF StateType, BudgetRejects, Attempting, EndAttempt, End
<1>22. CASE AttemptReady
  BY <1>22 DEF Attempting, End, KeepWaiting, AttemptReady, Promote, StateType
<1>22r. CASE ReplaceReturns
  BY <1>22r DEF Attempting, End, ReplaceReturns, StateType
<1>23. CASE Switch
  BY <1>23 DEF Attempting, KeepWaiting, Switch, StateType
<1>24. CASE AttemptFails
  BY <1>24 DEF Attempting, AttemptFails, RollBack, StateType
<1>25. CASE StartupTimeout
  BY <1>25 DEF Attempting, StartupTimeout, RollBack, StateType
<1>26. CASE RolledBack
  <2>1. Verdict
    BY <1>26, VerdictStep
  <2>2. state' \in {state, "stopped", "backoff", "terminal"}
    BY <2>1 DEF Verdict, ScheduleBackoff, EnterTerminal
  <2> QED BY <1>26, <2>2 DEF StateType, RolledBack, Attempting, EndAttempt, End
<1>27. CASE QueueIdles
  BY <1>27 DEF QueueIdles, StateType
<1>28. CASE \E s \in Slot : LaunchResolves(s) \/ LaunchRejects(s)
  BY <1>28 DEF Happens, LaunchResolves, LaunchRejects, StateType
<1>29. CASE \E s \in Slot : RetiredExits(s)
  BY <1>29 DEF Happens, RetiredExits, Exits, StateType
<1>30. CASE \E s \in Slot : CandidateExits(s)
  BY <1>30 DEF Happens, CandidateExits, Exits, StateType
<1>31. CASE \E s \in Slot, clean \in BOOLEAN : ActiveExits(s, clean)
  <2>1. PICK s \in Slot, clean \in BOOLEAN : ActiveExits(s, clean)
    BY <1>31
  <2>2. Verdict
    BY <1>31, VerdictStep
  <2>3. state' \in {state, "stopped", "backoff", "terminal"}
    BY <2>2 DEF Verdict, ScheduleBackoff, EnterTerminal
  <2>4. UNCHANGED <<lifecycle, step>>
    BY <2>1 DEF ActiveExits, Exits, Happens
  <2>5. startWaits' \in BOOLEAN /\ replacement' \in {"none", "running", "failed", "exited"}
    <3>1. CASE replacement = "none"
      BY <2>1, <3>1 DEF ActiveExits, KeepWaiting, StateType
    <3>2. CASE replacement # "none"
      BY <2>1, <3>2 DEF ActiveExits, StateType
    <3> QED BY <3>1, <3>2
  <2> QED BY <2>3, <2>4, <2>5 DEF StateType
<1>32. CASE \E s \in Slot, op \in {"unhealthy", "failed"} : Fails(s, op)
  BY <1>32 DEF Happens, Fails, StateType
<1>33. CASE \E s \in Slot : Abandon(s)
  BY <1>33 DEF Happens, Abandon, StateType
<1>34. CASE FailureExpires
  BY <1>34 DEF Happens, FailureExpires, StateType
<1>35. CASE BackoffFires
  BY <1>35 DEF Happens, BackoffFires, EnqueueLaunch, Enqueue, Launch, StateType
<1>36. CASE CooldownFires
  BY <1>36
     DEF Happens, CooldownFires, EnqueueLaunch, Enqueue, Launch, StateType
<1>37. CASE UNCHANGED vars
  BY <1>37 DEF vars, StateType
<1> QED BY <1>1, <1>2, <1>3, <1>4, <1>5, <1>6, <1>7, <1>8, <1>9, <1>10, <1>11,
           <1>12, <1>13, <1>14, <1>15, <1>16, <1>17, <1>18, <1>19, <1>20, <1>21,
           <1>22, <1>22r, <1>23, <1>24, <1>25, <1>26, <1>27, <1>28, <1>29, <1>30, <1>31,
           <1>32, <1>33, <1>34, <1>35, <1>36, <1>37
           DEF Next, Progress, Deadline

LEMMA UnitTypeStep ==
    ASSUME UnitType, AttemptType, Shape, [Next]_vars
    PROVE  UnitType'
<1>1. CASE Start
  BY <1>1 DEF Start, UnitType
<1>2. CASE Stop
  BY <1>2
     DEF Supersede, Superseded, Authorized, ClearTimers, ClearedRetry, Stop,
         Enqueue, Plain, UnitType, AttemptType, AttemptSet
<1>3. CASE Kill
  BY <1>3 DEF Kill, UnitType
<1>4. CASE Restart
  BY <1>4
     DEF Supersede, Superseded, Authorized, ClearTimers, ClearedRetry, Restart,
         Enqueue, Plain, UnitType, AttemptType, AttemptSet
<1>5. CASE Dispose
  BY <1>5
     DEF Supersede, Superseded, Authorized, ClearTimers, ClearedRetry, Dispose,
         Enqueue, Plain, UnitType, AttemptType, AttemptSet
<1>6. CASE \E op \in {"replace_stop", "replace_switch"} : Replace(op)
  BY <1>6 DEF Replace, UnitType
<1>7. CASE \E c \in {"start", "backoff", "cooldown"} : BeginLaunch(c)
  BY <1>7
     DEF Begin, RunAttempt, End, KeepWaiting, BeginLaunch, Launch, UnitType,
         AttemptType, AttemptSet
<1>8. CASE \E op \in {"stop", "dispose"} : Shutdown(op)
  <2>1. {target', active', candidate'} \subseteq Slot \cup {None}
    BY <1>8 DEF Shutdown, Retire, End, UnitType
  <2>2. unit' \in [Slot -> {"none", "launching", "running", "gone"}]
    BY <1>8 DEF Shutdown, Retire, End, UnitType
  <2>3. retired' \subseteq Slot /\ abandoned' \subseteq retired'
    BY <1>8, Constants DEF Shutdown, Retire, End, UnitType
  <2> QED BY <2>1, <2>2, <2>3 DEF UnitType
<1>9. CASE BeginRestart
  <2>1. {target', active', candidate'} \subseteq Slot \cup {None}
    BY <1>9 DEF BeginRestart, Retire, RunAttempt, End, UnitType
  <2>2. unit' \in [Slot -> {"none", "launching", "running", "gone"}]
    BY <1>9 DEF BeginRestart, Retire, RunAttempt, End, UnitType
  <2>3. retired' \subseteq Slot /\ abandoned' \subseteq retired'
    BY <1>9, Constants DEF BeginRestart, Retire, RunAttempt, End, UnitType
  <2> QED BY <2>1, <2>2, <2>3 DEF UnitType
<1>10. CASE \E op \in {"replace_stop", "replace_switch"} : ReplaceRejected(op)
  BY <1>10
     DEF Begin, End, ReplaceRejected, Plain, UnitType, AttemptType, AttemptSet
<1>11. CASE BeginReplaceStop
  <2>1. {target', active', candidate'} \subseteq Slot \cup {None}
    BY <1>11 DEF BeginReplaceStop, Retire, UnitType
  <2>2. unit' \in [Slot -> {"none", "launching", "running", "gone"}]
    BY <1>11 DEF BeginReplaceStop, Retire, UnitType
  <2>3. retired' \subseteq Slot /\ abandoned' \subseteq retired'
    BY <1>11, Constants DEF BeginReplaceStop, Retire, UnitType
  <2> QED BY <2>1, <2>2, <2>3 DEF UnitType
<1>12. CASE BeginReplaceSwitch
  BY <1>12
    
        DEF Begin, End, BeginReplaceSwitch, Plain, UnitType, AttemptType, AttemptSet
<1>13. CASE \E s \in Slot, op \in {"unhealthy", "failed"} : BeginUnitFailed(op, s)
  <2> SUFFICES ASSUME NEW s \in Slot, NEW op \in {"unhealthy", "failed"},
                      BeginUnitFailed(op, s)
               PROVE  UnitType'
    BY <1>13
  <2>1. CASE s \in retired \/ (op = "unhealthy" /\ active # s)
    BY <2>1 DEF BeginUnitFailed, End, UnitType
  <2>2. CASE ~(s \in retired \/ (op = "unhealthy" /\ active # s))
    BY <2>2 DEF BeginUnitFailed, Retire, UnitType
  <2> QED BY <2>1, <2>2
<1>14. CASE StopRetired
  BY <1>14
    
        DEF Retiring, End, KeepWaiting, StopRetired, UnitType, AttemptType, AttemptSet
<1>15. CASE DisposeRetired
  BY <1>15
     DEF Retiring, End, KeepWaiting, DisposeRetired, UnitType, AttemptType,
         AttemptSet
<1>16. CASE RestartRetired
  BY <1>16
     DEF Retiring, RunAttempt, End, KeepWaiting, RestartRetired, UnitType,
         AttemptType, AttemptSet
<1>17. CASE ReplaceStopRetired
  BY <1>17
     DEF Retiring, RunAttempt, End, KeepWaiting, ReplaceStopRetired, UnitType,
         AttemptType, AttemptSet
<1>18. CASE \E op \in {"unhealthy", "failed"} : UnitFailedRetired(op)
  BY <1>18
    
        DEF Retiring, End, KeepWaiting, OnFailure, OneMoreFailure, Decide, Exhausted,
         EnterTerminal, ScheduleBackoff, NoDecision, ClearedRetry,
         UnitFailedRetired, UnitType, AttemptType, AttemptSet
<1>19. CASE PreviousRetired
  BY <1>19 DEF PreviousRetired, End, UnitType, AttemptType, AttemptSet
<1>20. CASE \E s \in Slot : BudgetGrants(s)
  BY <1>20 DEF Attempting, BudgetGrants, UnitType
<1>21. CASE BudgetRejects
  BY <1>21
    
        DEF Attempting, EndAttempt, End, OnFailure, OneMoreFailure, Decide, Exhausted,
         EnterTerminal, ScheduleBackoff, NoDecision, ClearedRetry, OldUnitPolicy,
         BudgetRejects, UnitType, AttemptType, AttemptSet
<1>22. CASE AttemptReady
  BY <1>22
     DEF Attempting, End, KeepWaiting, AttemptReady, Promote, UnitType, AttemptType,
         AttemptSet
<1>22r. CASE ReplaceReturns
  BY <1>22r
     DEF Attempting, End, ReplaceReturns, UnitType, AttemptType,
         AttemptSet
<1>23. CASE Switch
  <2>1. target \in Slot
    BY <1>23 DEF Switch, Attempting, Shape, Attempts, UnitType
  <2>2. attempt.slot \in Slot \cup {None}
    BY DEF AttemptType, AttemptSet
  <2> QED BY <1>23, <2>1, <2>2 DEF Switch, UnitType
<1>24. CASE AttemptFails
  <2>1. {target', active', candidate'} \subseteq Slot \cup {None}
    BY <1>24
       DEF AttemptFails, RollBack, Attempting, AttemptType, AttemptSet, Shape,
           UnitType
  <2>2. unit' \in [Slot -> {"none", "launching", "running", "gone"}]
    BY <1>24
       DEF AttemptFails, RollBack, Attempting, AttemptType, AttemptSet, Shape,
           UnitType
  <2>3. retired' \subseteq Slot /\ abandoned' \subseteq retired'
    BY <1>24, Constants
       DEF AttemptFails, RollBack, Attempting, AttemptType, AttemptSet, Shape,
           UnitType
  <2> QED BY <2>1, <2>2, <2>3 DEF UnitType
<1>25. CASE StartupTimeout
  <2>1. {target', active', candidate'} \subseteq Slot \cup {None}
    BY <1>25
      
          DEF StartupTimeout, RollBack, Attempting, AttemptType, AttemptSet, Shape,
           UnitType
  <2>2. unit' \in [Slot -> {"none", "launching", "running", "gone"}]
    BY <1>25
      
          DEF StartupTimeout, RollBack, Attempting, AttemptType, AttemptSet, Shape,
           UnitType
  <2>3. retired' \subseteq Slot /\ abandoned' \subseteq retired'
    BY <1>25, Constants
      
          DEF StartupTimeout, RollBack, Attempting, AttemptType, AttemptSet, Shape,
           UnitType
  <2> QED BY <2>1, <2>2, <2>3 DEF UnitType
<1>26. CASE RolledBack
  BY <1>26
    
        DEF Attempting, EndAttempt, End, OnFailure, OneMoreFailure, Decide, Exhausted,
         EnterTerminal, ScheduleBackoff, NoDecision, ClearedRetry, OldUnitPolicy,
         RolledBack, OwnsFailure, UnitType, AttemptType, AttemptSet
<1>27. CASE QueueIdles
  BY <1>27 DEF QueueIdles, UnitType
<1>28. CASE \E s \in Slot : LaunchResolves(s) \/ LaunchRejects(s)
  <2>1. {target', active', candidate'} \subseteq Slot \cup {None}
    BY <1>28 DEF LaunchResolves, LaunchRejects, Happens, UnitType
  <2>2. unit' \in [Slot -> {"none", "launching", "running", "gone"}]
    BY <1>28 DEF LaunchResolves, LaunchRejects, Happens, UnitType
  <2>3. retired' \subseteq Slot /\ abandoned' \subseteq retired'
    BY <1>28, Constants DEF LaunchResolves, LaunchRejects, Happens, UnitType
  <2> QED BY <2>1, <2>2, <2>3 DEF UnitType
<1>29. CASE \E s \in Slot : RetiredExits(s)
  BY <1>29 DEF Happens, RetiredExits, Exits, UnitType, AttemptType, AttemptSet
<1>30. CASE \E s \in Slot : CandidateExits(s)
  BY <1>30
     DEF Happens, CandidateExits, Exits, UnitType, AttemptType, AttemptSet
<1>31. CASE \E s \in Slot, clean \in BOOLEAN : ActiveExits(s, clean)
  BY <1>31
     DEF Happens, KeepWaiting, OnFailure, OneMoreFailure, Decide, Exhausted,
         EnterTerminal, ScheduleBackoff, NoDecision, ClearedRetry, ActiveExits,
         Exits, CleanExit, UnitType, AttemptType, AttemptSet
<1>32. CASE \E s \in Slot, op \in {"unhealthy", "failed"} : Fails(s, op)
  <2>1. {target', active', candidate'} \subseteq Slot \cup {None}
    BY <1>32 DEF Fails, Happens, UnitType
  <2>2. unit' \in [Slot -> {"none", "launching", "running", "gone"}]
    BY <1>32 DEF Fails, Happens, UnitType
  <2>3. retired' \subseteq Slot /\ abandoned' \subseteq retired'
    BY <1>32, Constants DEF Fails, Happens, UnitType
  <2> QED BY <2>1, <2>2, <2>3 DEF UnitType
<1>33. CASE \E s \in Slot : Abandon(s)
  BY <1>33 DEF Happens, Abandon, UnitType
<1>34. CASE FailureExpires
  BY <1>34 DEF Happens, FailureExpires, UnitType
<1>35. CASE BackoffFires
  BY <1>35 DEF Happens, BackoffFires, UnitType
<1>36. CASE CooldownFires
  BY <1>36 DEF Happens, CooldownFires, UnitType
<1>37. CASE UNCHANGED vars
  BY <1>37 DEF vars, UnitType
<1> QED BY <1>1, <1>2, <1>3, <1>4, <1>5, <1>6, <1>7, <1>8, <1>9, <1>10, <1>11,
           <1>12, <1>13, <1>14, <1>15, <1>16, <1>17, <1>18, <1>19, <1>20, <1>21,
           <1>22, <1>22r, <1>23, <1>24, <1>25, <1>26, <1>27, <1>28, <1>29, <1>30, <1>31,
           <1>32, <1>33, <1>34, <1>35, <1>36, <1>37
           DEF Next, Progress, Deadline

-----------------------------------------------------------------------------
(* The queue. *)

(* A command enters the queue at its end and leaves it at its front.         *)
Appended(c) ==
    /\ Len(queue') = Len(queue) + 1 /\ queue'[Len(queue) + 1] = c
    /\ \A i \in 1 .. Len(queue) : queue'[i] = queue[i]

Taken(c) ==
    /\ Len(queue) > 0 /\ queue[1] = c /\ Len(queue') = Len(queue) - 1
    /\ \A i \in 1 .. Len(queue) - 1 : queue'[i] = queue[i + 1]
    /\ step \in {"idle", "ended"} /\ running' = c /\ UNCHANGED <<policy, calls>>

(* Every queued command is a command.                                        *)
LEMMA QueueElements ==
    ASSUME QueueType
    PROVE  /\ Len(queue) \in Nat
           /\ \A i \in 1 .. Len(queue) :
                queue[i].op \in Commands /\ queue[i].slot \in Slot \cup {None}
<1>1. Len(queue) \in Nat /\ \A i \in 1 .. Len(queue) : queue[i] \in Command
  BY DEF QueueType
<1> QED BY <1>1 DEF Command

(* Enqueue and Begin move the queue in these two ways, and no other          *)
(* operation moves it.                                                       *)
LEMMA EnqueueAppends ==
    ASSUME QueueType, NEW c \in Command, Enqueue(c)
    PROVE  Appended(c)
BY DEF QueueType, Enqueue, Appended

(* A command that begins is taken from the head of the queue.                *)
LEMMA BeginTakes ==
    ASSUME QueueType, NEW c, Begin(c)
    PROVE  Taken(c)
<1>1. /\ queue \in Seq(Command) /\ queue # <<>> /\ queue' = Tail(queue) /\ Head(queue) = c
      /\ step \in {"idle", "ended"} /\ running' = c /\ UNCHANGED <<policy, calls>>
  BY DEF QueueType, Begin
<1>2. /\ Len(queue) > 0 /\ queue[1] = c /\ Len(queue') = Len(queue) - 1
      /\ \A i \in 1 .. Len(queue) - 1 : queue'[i] = queue[i + 1]
  BY <1>1
<1> QED BY <1>1, <1>2 DEF Taken

(* What is queued after each move.                                           *)
LEMMA QueuedAppended ==
    ASSUME QueueType, NEW c, Appended(c), NEW ops
    PROVE  Queued(ops)' <=> Queued(ops) \/ c.op \in ops
<1>1. Len(queue) \in Nat
  BY DEF QueueType
<1>2. ASSUME Queued(ops) PROVE Queued(ops)'
  BY <1>1, <1>2 DEF Queued, Appended
<1>3. ASSUME c.op \in ops PROVE Queued(ops)'
  BY <1>1, <1>3 DEF Queued, Appended
<1>4. ASSUME Queued(ops)' PROVE Queued(ops) \/ c.op \in ops
  BY <1>1, <1>4 DEF Queued, Appended
<1> QED BY <1>2, <1>3, <1>4

(* Who waited is who waits after the command was taken, and the command.     *)
LEMMA QueuedTaken ==
    ASSUME QueueType, NEW c, Taken(c), NEW ops
    PROVE  Queued(ops) <=> Queued(ops)' \/ c.op \in ops
<1>1. Len(queue) \in Nat
  BY DEF QueueType
<1>2. ASSUME Queued(ops)' PROVE Queued(ops)
  BY <1>1, <1>2 DEF Queued, Taken
<1>3. ASSUME c.op \in ops PROVE Queued(ops)
  BY <1>1, <1>3 DEF Queued, Taken
<1>4. ASSUME Queued(ops) PROVE Queued(ops)' \/ c.op \in ops
  <2>1. PICK i \in 1 .. Len(queue) : queue[i].op \in ops
    BY <1>4 DEF Queued
  <2>2. CASE i = 1
    BY <2>1, <2>2 DEF Taken
  <2>3. CASE i # 1
    <3>1. i - 1 \in 1 .. Len(queue) - 1 /\ queue'[i - 1] = queue[i]
      BY <1>1, <2>1, <2>3 DEF Taken
    <3> QED BY <2>1, <3>1 DEF Queued, Taken
  <2> QED BY <2>2, <2>3
<1> QED BY <1>2, <1>3, <1>4

(* A queue that is left alone holds the same commands.                       *)
LEMMA QueuedSame ==
    ASSUME UNCHANGED queue, NEW ops
    PROVE  Queued(ops)' <=> Queued(ops)
BY DEF Queued

(* How each call moves the queue.                                            *)
LEMMA QueueMoves ==
    ASSUME QueueType
    PROVE  /\ Start => Appended(Launch("start"))
           /\ Stop => Appended(Plain("stop"))
           /\ Kill => IF lifecycle # "open" \/ Pending({"stop"})
                      THEN UNCHANGED <<queue, timers>>
                      ELSE Appended(Plain("stop")) /\ ClearTimers
           /\ Restart => Appended(Plain("restart"))
           /\ Dispose => Appended(Plain("dispose"))
           /\ \A op \in Commands : Replace(op) => Appended(Plain(op))
           /\ \A s \in Slot, op \in Commands : Fails(s, op) =>
                IF replacement # "none" /\ active = s
                THEN UNCHANGED queue ELSE Appended(UnitCommand(op, s))
           /\ BackoffFires => IF lifecycle = "open" /\ state = "backoff"
                              THEN Appended(Launch("backoff")) ELSE UNCHANGED queue
           /\ CooldownFires => IF lifecycle = "open" /\ state = "terminal"
                               THEN Appended(Launch("cooldown")) ELSE UNCHANGED queue
<1>1. Commands = {"launch", "stop", "restart", "replace_stop", "replace_switch",
                  "unhealthy", "failed", "dispose"}
  BY DEF Commands
<1>2. {"start", "backoff", "cooldown"} \subseteq Causes
  BY DEF Causes
<1>3. Start => Appended(Launch("start"))
  BY <1>2, CommandTypes, EnqueueAppends DEF Start, EnqueueLaunch
<1>4. Stop => Appended(Plain("stop"))
  BY <1>1, CommandTypes, EnqueueAppends DEF Stop
<1>5. Kill => IF lifecycle # "open" \/ Pending({"stop"})
              THEN UNCHANGED <<queue, timers>>
              ELSE Appended(Plain("stop")) /\ ClearTimers
  BY <1>1, CommandTypes, EnqueueAppends DEF Kill
<1>6. Restart => Appended(Plain("restart"))
  BY <1>1, CommandTypes, EnqueueAppends DEF Restart
<1>7. Dispose => Appended(Plain("dispose"))
  BY <1>1, CommandTypes, EnqueueAppends DEF Dispose
<1>8. \A op \in Commands : Replace(op) => Appended(Plain(op))
  BY <1>1, CommandTypes, EnqueueAppends DEF Replace
<1>9. ASSUME NEW s \in Slot, NEW op \in Commands, Fails(s, op)
      PROVE  IF replacement # "none" /\ active = s
             THEN UNCHANGED queue ELSE Appended(UnitCommand(op, s))
  <2>1. UnitCommand(op, s) \in Command
    BY CommandTypes
  <2>2. CASE replacement # "none" /\ active = s
    BY <1>9, <2>2 DEF Fails
  <2>3. CASE ~(replacement # "none" /\ active = s)
    BY <1>9, <2>1, <2>3, EnqueueAppends DEF Fails
  <2> QED BY <2>2, <2>3
<1>10. BackoffFires => IF lifecycle = "open" /\ state = "backoff"
                       THEN Appended(Launch("backoff")) ELSE UNCHANGED queue
  BY <1>2, CommandTypes, EnqueueAppends DEF BackoffFires, EnqueueLaunch
<1>11. CooldownFires => IF lifecycle = "open" /\ state = "terminal"
                        THEN Appended(Launch("cooldown")) ELSE UNCHANGED queue
  BY <1>2, CommandTypes, EnqueueAppends DEF CooldownFires, EnqueueLaunch
<1> QED BY <1>3, <1>4, <1>5, <1>6, <1>7, <1>8, <1>9, <1>10, <1>11

(* Superseding an attempt takes its authority only.                          *)
LEMMA SupersededRecord ==
    ASSUME AttemptType
    PROVE  /\ Superseded.cause = attempt.cause /\ Superseded.slot = attempt.slot
           /\ Superseded.promote = attempt.promote
           /\ Superseded.authority = IF Authorized THEN "lost" ELSE attempt.authority
           /\ ~Authorized => Superseded = attempt
BY DEF AttemptType, AttemptSet, Superseded

(* A command that is taken was queued.                                       *)
LEMMA TakenIsQueued ==
    ASSUME QueueType, NEW c, Taken(c)
    PROVE  1 \in 1 .. Len(queue) /\ queue[1] = c /\ \A ops : c.op \in ops => Queued(ops)
BY DEF QueueType, Taken, Queued

(* Changing one unit leaves the others alone.                                *)
LEMMA UnitStep ==
    ASSUME UnitType, NEW s \in Slot, NEW u, unit' = [unit EXCEPT ![s] = u]
    PROVE  unit'[s] = u /\ \A t \in Slot : t # s => unit'[t] = unit[t]
BY DEF UnitType

(* No unit leaves retirement, and none is launched twice.                    *)
LEMMA UnitsAdvance ==
    ASSUME UnitType, [Next]_vars
    PROVE  retired \subseteq retired' /\ \A s \in Slot : unit[s] # "none" => unit'[s] # "none"
<1>1. CASE Start
  BY <1>1 DEF Start, UnitType
<1>2. CASE Stop
  BY <1>2 DEF Stop, UnitType
<1>3. CASE Kill
  BY <1>3 DEF Kill, UnitType
<1>4. CASE Restart
  BY <1>4 DEF Restart, UnitType
<1>5. CASE Dispose
  BY <1>5 DEF Dispose, UnitType
<1>6. CASE \E op \in {"replace_stop", "replace_switch"} : Replace(op)
  BY <1>6 DEF Replace, UnitType
<1>7. CASE \E c \in {"start", "backoff", "cooldown"} : BeginLaunch(c)
  BY <1>7 DEF Begin, BeginLaunch, UnitType
<1>8. CASE \E op \in {"stop", "dispose"} : Shutdown(op)
  BY <1>8
     DEF Begin, End, KeepWaiting, ClearTimers, ClearedRetry, Shutdown, Retire,
         Plain, UnitType
<1>9. CASE BeginRestart
  BY <1>9
    
        DEF Begin, RunAttempt, End, KeepWaiting, BeginRestart, Retire, Plain, UnitType
<1>10. CASE \E op \in {"replace_stop", "replace_switch"} : ReplaceRejected(op)
  BY <1>10 DEF Begin, ReplaceRejected, UnitType
<1>11. CASE BeginReplaceStop
  BY <1>11 DEF Begin, BeginReplaceStop, Retire, Plain, UnitType
<1>12. CASE BeginReplaceSwitch
  BY <1>12 DEF Begin, BeginReplaceSwitch, UnitType
<1>13. CASE \E s \in Slot, op \in {"unhealthy", "failed"} : BeginUnitFailed(op, s)
  BY <1>13 DEF Begin, End, BeginUnitFailed, Retire, UnitCommand, UnitType
<1>14. CASE StopRetired
  BY <1>14 DEF Retiring, StopRetired, UnitType
<1>15. CASE DisposeRetired
  BY <1>15 DEF Retiring, DisposeRetired, UnitType
<1>16. CASE RestartRetired
  BY <1>16 DEF Retiring, RestartRetired, UnitType
<1>17. CASE ReplaceStopRetired
  BY <1>17 DEF Retiring, ReplaceStopRetired, UnitType
<1>18. CASE \E op \in {"unhealthy", "failed"} : UnitFailedRetired(op)
  BY <1>18 DEF Retiring, UnitFailedRetired, UnitType
<1>19. CASE PreviousRetired
  BY <1>19 DEF PreviousRetired, UnitType
<1>20. CASE \E s \in Slot : BudgetGrants(s)
  BY <1>20 DEF Attempting, BudgetGrants, UnitType
<1>21. CASE BudgetRejects
  BY <1>21 DEF Attempting, BudgetRejects, UnitType
<1>22. CASE AttemptReady
  BY <1>22 DEF Attempting, AttemptReady, Promote, UnitType
<1>22r. CASE ReplaceReturns
  BY <1>22r DEF Attempting, ReplaceReturns, End, UnitType
<1>23. CASE Switch
  BY <1>23 DEF Attempting, Switch, UnitType
<1>24. CASE AttemptFails
  BY <1>24 DEF Attempting, AttemptFails, RollBack, UnitType
<1>25. CASE StartupTimeout
  BY <1>25 DEF Attempting, StartupTimeout, RollBack, UnitType
<1>26. CASE RolledBack
  BY <1>26 DEF Attempting, RolledBack, UnitType
<1>27. CASE QueueIdles
  BY <1>27 DEF QueueIdles, UnitType
<1>28. CASE \E s \in Slot : LaunchResolves(s) \/ LaunchRejects(s)
  BY <1>28 DEF Happens, LaunchResolves, LaunchRejects, UnitType
<1>29. CASE \E s \in Slot : RetiredExits(s)
  BY <1>29 DEF Happens, RetiredExits, Exits, UnitType
<1>30. CASE \E s \in Slot : CandidateExits(s)
  BY <1>30 DEF Happens, CandidateExits, Exits, UnitType
<1>31. CASE \E s \in Slot, clean \in BOOLEAN : ActiveExits(s, clean)
  BY <1>31
     DEF Happens, KeepWaiting, OnFailure, OneMoreFailure, Decide, Exhausted,
         EnterTerminal, ScheduleBackoff, NoDecision, ClearedRetry, ActiveExits,
         Exits, CleanExit, UnitType
<1>32. CASE \E s \in Slot, op \in {"unhealthy", "failed"} : Fails(s, op)
  BY <1>32 DEF Happens, Fails, UnitType
<1>33. CASE \E s \in Slot : Abandon(s)
  BY <1>33 DEF Happens, Abandon, UnitType
<1>34. CASE FailureExpires
  BY <1>34 DEF Happens, FailureExpires, UnitType
<1>35. CASE BackoffFires
  BY <1>35 DEF Happens, BackoffFires, UnitType
<1>36. CASE CooldownFires
  BY <1>36 DEF Happens, CooldownFires, UnitType
<1>37. CASE UNCHANGED vars
  BY <1>37 DEF vars, UnitType
<1> QED BY <1>1, <1>2, <1>3, <1>4, <1>5, <1>6, <1>7, <1>8, <1>9, <1>10, <1>11,
           <1>12, <1>13, <1>14, <1>15, <1>16, <1>17, <1>18, <1>19, <1>20, <1>21,
           <1>22, <1>22r, <1>23, <1>24, <1>25, <1>26, <1>27, <1>28, <1>29, <1>30, <1>31,
           <1>32, <1>33, <1>34, <1>35, <1>36, <1>37
           DEF Next, Progress, Deadline

(* A launch that begins finds nothing active and no timer.                   *)
LEMMA LaunchTaken ==
    ASSUME QueueType, LaunchSettled, NEW c, BeginLaunch(c)
    PROVE  /\ Taken(Launch(c)) /\ Launch(c).op = "launch"
           /\ lifecycle = "open" => active = None /\ NoTimers
<1>1. Taken(Launch(c)) /\ Launch(c).op = "launch"
  BY BeginTakes DEF BeginLaunch, Launch
<1>2. Queued({"launch"})
  BY <1>1, TakenIsQueued
<1> QED BY <1>1, <1>2 DEF LaunchSettled, Taken

-----------------------------------------------------------------------------
(* The command in progress, its units and its state. *)

(* A step keeps the shape of the command in progress: in particular a        *)
(* command begins only where the one before it has left no attempt, no       *)
(* target and no candidate.                                                  *)
LEMMA ShapeStep ==
    ASSUME TypeOK, Shape, Accounted, Reported, StateFits, Disposing,
           RestartSettled, LaunchSettled, [Next]_vars
    PROVE  Shape'
<1> USE TypeParts
<1>1. CASE Start
  BY <1>1 DEF Start, Shape
<1>2. CASE Stop
  BY <1>2, SupersededRecord
    
        DEF Supersede, Authorized, ClearTimers, ClearedRetry, Stop, Enqueue, Plain,
         Shape, Attempts, Launchers, Retirers, Enders, NoAttempt, NoCommand
<1>3. CASE Kill
  BY <1>3, SupersededRecord
    
        DEF Supersede, Authorized, ClearTimers, ClearedRetry, Kill, Enqueue, Plain,
         Shape, Attempts, Launchers, Retirers, Enders, NoAttempt, NoCommand
<1>4. CASE Restart
  BY <1>4, SupersededRecord
    
        DEF Supersede, Authorized, ClearTimers, ClearedRetry, Restart, Enqueue, Plain,
         Shape, Attempts, Launchers, Retirers, Enders, NoAttempt, NoCommand
<1>5. CASE Dispose
  BY <1>5, SupersededRecord
    
        DEF Supersede, Authorized, ClearTimers, ClearedRetry, Dispose, Enqueue, Plain,
         Shape, Attempts, Launchers, Retirers, Enders, NoAttempt, NoCommand
<1>6. CASE \E op \in {"replace_stop", "replace_switch"} : Replace(op)
  BY <1>6 DEF Replace, Shape
<1>7. CASE \E c \in {"start", "backoff", "cooldown"} : BeginLaunch(c)
  <2>1. PICK c \in {"start", "backoff", "cooldown"} : BeginLaunch(c)
    BY <1>7
  <2>2. Taken(Launch(c)) /\ Launch(c).op = "launch" /\ (lifecycle = "open" => active = None)
    BY <2>1, LaunchTaken
  <2>3. CASE lifecycle = "open"
    BY <2>1, <2>2, <2>3
      
          DEF BeginLaunch, RunAttempt, Taken, Shape, Attempts, Launchers, Retirers, Enders
  <2>4. CASE lifecycle # "open"
    BY <2>1, <2>2, <2>4
      
          DEF BeginLaunch, RunAttempt, End, Taken, Shape, Attempts, Launchers, Retirers, Enders
  <2> QED BY <2>3, <2>4
<1>8. CASE \E op \in {"stop", "dispose"} : Shutdown(op)
  BY <1>8
     DEF Begin, End, KeepWaiting, ClearTimers, ClearedRetry, Shutdown, Retire,
         Plain, Shape, Attempts, Launchers, Retirers, Enders, NoAttempt, NoCommand
<1>9. CASE BeginRestart
  BY <1>9
    
        DEF Begin, RunAttempt, End, KeepWaiting, BeginRestart, Retire, Plain, Shape,
         Attempts, Launchers, Retirers, Enders, NoAttempt, NoCommand
<1>10. CASE \E op \in {"replace_stop", "replace_switch"} : ReplaceRejected(op)
  BY <1>10
    
        DEF Begin, End, ReplaceRejected, Plain, Shape, Attempts, Launchers, Retirers,
         Enders, NoAttempt, NoCommand
<1>11. CASE BeginReplaceStop
  BY <1>11
     DEF Begin, BeginReplaceStop, Retire, Plain, Shape, Attempts, Launchers,
         Retirers, Enders, NoAttempt, NoCommand
<1>12. CASE BeginReplaceSwitch
  <2>1. Taken(Plain("replace_switch")) /\ Plain("replace_switch").op = "replace_switch"
    BY <1>12, BeginTakes DEF BeginReplaceSwitch, Plain
  <2>2. active \in Slot /\ unit[active] # "none"
    BY <1>12 DEF BeginReplaceSwitch, UnitType, Accounted
  <2>3. CASE lifecycle = "open"
    BY <1>12, <2>1, <2>2, <2>3
      
          DEF BeginReplaceSwitch, Taken, Shape, Attempts, Launchers, Retirers, Enders
  <2>4. CASE lifecycle # "open"
    BY <1>12, <2>1, <2>4
      
          DEF BeginReplaceSwitch, End, Taken, Shape, Attempts, Launchers, Retirers, Enders
  <2> QED BY <2>3, <2>4
<1>13. CASE \E s \in Slot, op \in {"unhealthy", "failed"} : BeginUnitFailed(op, s)
  <2>1. PICK s \in Slot, op \in {"unhealthy", "failed"} : BeginUnitFailed(op, s)
    BY <1>13
  <2>2. Taken(UnitCommand(op, s)) /\ UnitCommand(op, s).op = op /\ UnitCommand(op, s).slot = s
    BY <2>1, BeginTakes DEF BeginUnitFailed, UnitCommand
  <2>3. unit[s] # "none"
    BY <2>2, TakenIsQueued DEF Reported
  <2>4. CASE s \in retired \/ (op = "unhealthy" /\ active # s)
    BY <2>1, <2>2, <2>4
      
          DEF BeginUnitFailed, End, Taken, Shape, Attempts, Launchers, Retirers, Enders
  <2>5. CASE ~(s \in retired \/ (op = "unhealthy" /\ active # s))
    <3>1. active = s
      BY <2>2, <2>3, <2>5, Constants DEF Accounted, Shape, Taken
    <3> QED BY <2>1, <2>2, <2>5, <3>1, Constants
           
               DEF BeginUnitFailed, Retire, Taken, Shape, Attempts, Launchers, Retirers, Enders
  <2> QED BY <2>4, <2>5
<1>14. CASE StopRetired
  BY <1>14
     DEF Retiring, End, KeepWaiting, StopRetired, Shape, Attempts, Launchers,
         Retirers, Enders, NoAttempt, NoCommand
<1>15. CASE DisposeRetired
  BY <1>15
    
        DEF Retiring, End, KeepWaiting, DisposeRetired, Shape, Attempts, Launchers,
         Retirers, Enders, NoAttempt, NoCommand
<1>16. CASE RestartRetired
  BY <1>16
    
        DEF Retiring, RunAttempt, End, KeepWaiting, RestartRetired, Shape, Attempts,
         Launchers, Retirers, Enders, NoAttempt, NoCommand
<1>17. CASE ReplaceStopRetired
  BY <1>17
     DEF Retiring, RunAttempt, End, KeepWaiting, ReplaceStopRetired, Shape,
         Attempts, Launchers, Retirers, Enders, NoAttempt, NoCommand
<1>18. CASE \E op \in {"unhealthy", "failed"} : UnitFailedRetired(op)
  BY <1>18
    
        DEF Retiring, End, KeepWaiting, OnFailure, OneMoreFailure, Decide, Exhausted,
         EnterTerminal, ScheduleBackoff, NoDecision, ClearedRetry,
         UnitFailedRetired, Shape, Attempts, Launchers, Retirers, Enders,
         NoAttempt, NoCommand
<1>19. CASE PreviousRetired
  BY <1>19
     DEF PreviousRetired, End, Shape, Attempts, Launchers, Retirers, Enders,
         NoAttempt, NoCommand
<1>20. CASE \E s \in Slot : BudgetGrants(s)
  <2>1. PICK s \in Slot : BudgetGrants(s)
    BY <1>20
  <2>2. /\ attempt'.slot = s /\ attempt'.promote = attempt.promote
        /\ attempt'.authority = attempt.authority
    BY <2>1 DEF BudgetGrants, AttemptType, AttemptSet
  <2>3. unit[s] = "none" /\ unit' = [unit EXCEPT ![s] = "launching"]
    BY <2>1 DEF BudgetGrants
  <2>5. unit'[s] # "none" /\ \A t \in Slot : unit[t] # "none" => unit'[t] # "none" /\ t # s
    <3>1. unit'[s] = "launching" /\ \A t \in Slot : t # s => unit'[t] = unit[t]
      BY <2>3 DEF UnitType
    <3> QED BY <2>3, <3>1
  <2>4. s # None /\ target \in Slot \cup {None}
    BY Constants DEF UnitType
  <2> QED BY <2>1, <2>2, <2>4, <2>5
         
             DEF BudgetGrants, Attempting, Shape, Attempts, Launchers, Retirers, Enders
<1>21. CASE BudgetRejects
  BY <1>21
    
        DEF Attempting, EndAttempt, End, OnFailure, OneMoreFailure, Decide, Exhausted,
         EnterTerminal, ScheduleBackoff, NoDecision, ClearedRetry, OldUnitPolicy,
         BudgetRejects, Shape, Attempts, Launchers, Retirers, Enders, NoAttempt,
         NoCommand
<1>22. CASE AttemptReady
  BY <1>22
    
        DEF Attempting, End, KeepWaiting, AttemptReady, Promote, Shape, Attempts, Launchers,
         Retirers, Enders, NoAttempt, NoCommand
<1>22r. CASE ReplaceReturns
  BY <1>22r
    
        DEF Attempting, End, ReplaceReturns, Shape, Attempts, Launchers,
         Retirers, Enders, NoAttempt, NoCommand
<1>23. CASE Switch
  BY <1>23
     DEF Attempting, Switch, Shape, Attempts, Launchers, Retirers, Enders,
         NoAttempt, NoCommand
<1>24. CASE AttemptFails
  BY <1>24
    
        DEF Attempting, AttemptFails, RollBack, Shape, Attempts, Launchers, Retirers,
         Enders, NoAttempt, NoCommand
<1>25. CASE StartupTimeout
  BY <1>25
     DEF Attempting, StartupTimeout, RollBack, Shape, Attempts, Launchers,
         Retirers, Enders, NoAttempt, NoCommand
<1>26. CASE RolledBack
  BY <1>26
    
        DEF Attempting, EndAttempt, End, OnFailure, OneMoreFailure, Decide, Exhausted,
         EnterTerminal, ScheduleBackoff, NoDecision, ClearedRetry, OldUnitPolicy,
         RolledBack, OwnsFailure, Shape, Attempts, Launchers, Retirers, Enders,
         NoAttempt, NoCommand
<1>27. CASE QueueIdles
  BY <1>27
     DEF QueueIdles, Shape, Attempts, Launchers, Retirers, Enders, NoAttempt,
         NoCommand, Plain
<1>28. CASE \E s \in Slot : LaunchResolves(s) \/ LaunchRejects(s)
  <2>1. \A s \in Slot : unit[s] # "none" => unit'[s] # "none"
    BY UnitsAdvance
  <2>2. target \in Slot \cup {None} /\ candidate \in Slot \cup {None}
    BY DEF UnitType
  <2>3. \A s \in Slot : unit[s] = "running" => unit'[s] = "running"
    BY <1>28, UnitStep DEF LaunchResolves, LaunchRejects
  <2> QED BY <1>28, <2>1, <2>2, <2>3
             DEF LaunchResolves, LaunchRejects, Happens, Shape, Attempts
<1>29. CASE \E s \in Slot : RetiredExits(s)
  BY <1>29
     DEF Happens, RetiredExits, Exits, Shape, Attempts, Launchers, Retirers,
         Enders, NoAttempt, NoCommand
<1>30. CASE \E s \in Slot : CandidateExits(s)
  BY <1>30
     DEF Happens, CandidateExits, Exits, Shape, Attempts, Launchers, Retirers,
         Enders, NoAttempt, NoCommand
<1>31. CASE \E s \in Slot, clean \in BOOLEAN : ActiveExits(s, clean)
  <2>1. PICK s \in Slot, clean \in BOOLEAN : ActiveExits(s, clean)
    BY <1>31
  <2>2. /\ UNCHANGED <<running, step, attempt, target, candidate>>
        /\ active = s /\ s \notin retired /\ s # None /\ candidate # s
        /\ unit[s] = "running" /\ unit' = [unit EXCEPT ![s] = "gone"]
        /\ active' = None /\ retired' = retired \cup {s}
    BY <2>1, Constants DEF ActiveExits, Exits, Happens
  <2>3. \A t \in Slot : t # s => unit'[t] = unit[t]
    BY <2>2, UnitStep
  <2>4. unit'[s] = "gone"
    BY <2>2, UnitStep
  <2>5. \/ replacement = "none" /\ replacement' = "none"
        \/ replacement # "none" /\ replacement' \in {"failed", "exited"}
    BY <2>1 DEF ActiveExits
  <2>6. step # "retiring"
    BY <2>2 DEF Shape
  <2> QED BY <2>2, <2>3, <2>4, <2>5, <2>6, Constants
             DEF Shape, Attempts, Launchers, Retirers, Enders, NoAttempt, NoCommand, UnitType
<1>32. CASE \E s \in Slot, op \in {"unhealthy", "failed"} : Fails(s, op)
  <2>1. PICK s \in Slot, op \in {"unhealthy", "failed"} : Fails(s, op)
    BY <1>32
  <2>2. UNCHANGED <<running, step, attempt, target, candidate, unit>> /\ s # None
        /\ s \notin retired
    BY <2>1, Constants DEF Fails, Happens
  <2>3. CASE replacement # "none" /\ active = s
    <3>1. active' = None /\ retired' = retired \cup {s} /\ replacement' = "failed"
      BY <2>1, <2>3 DEF Fails
    <3>2. step # "retiring" /\ step \notin {"idle", "ended", "previous"}
      BY <2>3 DEF Shape
    <3> QED BY <2>2, <2>3, <3>1, <3>2 DEF Shape, Attempts
  <2>4. CASE ~(replacement # "none" /\ active = s)
    <3>1. UNCHANGED <<active, retired, replacement>>
      BY <2>1, <2>4 DEF Fails
    <3> QED BY <2>2, <3>1 DEF Shape, Attempts
  <2> QED BY <2>3, <2>4
<1>33. CASE \E s \in Slot : Abandon(s)
  BY <1>33 DEF Happens, Abandon, Shape
<1>34. CASE FailureExpires
  BY <1>34 DEF Happens, FailureExpires, Shape
<1>35. CASE BackoffFires
  BY <1>35 DEF Happens, BackoffFires, Shape
<1>36. CASE CooldownFires
  BY <1>36 DEF Happens, CooldownFires, Shape
<1>37. CASE UNCHANGED vars
  BY <1>37 DEF vars, Shape
<1> QED BY <1>1, <1>2, <1>3, <1>4, <1>5, <1>6, <1>7, <1>8, <1>9, <1>10, <1>11,
           <1>12, <1>13, <1>14, <1>15, <1>16, <1>17, <1>18, <1>19, <1>20, <1>21,
           <1>22, <1>22r, <1>23, <1>24, <1>25, <1>26, <1>27, <1>28, <1>29, <1>30, <1>31,
           <1>32, <1>33, <1>34, <1>35, <1>36, <1>37
           DEF Next, Progress, Deadline

(* A step keeps every unit accounted for: a unit leaves a slot of the        *)
(* supervisor only when it is retired.                                       *)
LEMMA AccountedStep ==
    ASSUME TypeOK, Shape, Accounted, Reported, [Next]_vars
    PROVE  Accounted'
<1>1. CASE Start
  BY <1>1 DEF Start, Accounted
<1>2. CASE Stop
  BY <1>2 DEF Stop, Accounted
<1>3. CASE Kill
  <2>1. candidate # None => unit[candidate] # "none"
    BY DEF Shape, Attempts, TypeOK
  <2>2. retired' = retired \cup ({candidate, active} \ {None}) /\ UNCHANGED <<unit, active, candidate>>
    BY <1>3 DEF Kill
  <2> QED BY <2>1, <2>2, Constants DEF Accounted, TypeOK
<1>4. CASE Restart
  BY <1>4 DEF Restart, Accounted
<1>5. CASE Dispose
  BY <1>5 DEF Dispose, Accounted
<1>6. CASE \E op \in {"replace_stop", "replace_switch"} : Replace(op)
  BY <1>6 DEF Replace, Accounted
<1>7. CASE \E c \in {"start", "backoff", "cooldown"} : BeginLaunch(c)
  BY <1>7 DEF Begin, BeginLaunch, Accounted
<1>8. CASE \E op \in {"stop", "dispose"} : Shutdown(op)
  BY <1>8
     DEF Begin, End, KeepWaiting, ClearTimers, ClearedRetry, Shutdown, Retire,
         Plain, Accounted, Shape, Attempts, Enders, Retirers, UnitType,
         AttemptType, AttemptSet
<1>9. CASE BeginRestart
  BY <1>9
     DEF Begin, RunAttempt, End, KeepWaiting, BeginRestart, Retire, Plain,
         Accounted, Shape, Attempts, Enders, Retirers, UnitType, AttemptType,
         AttemptSet
<1>10. CASE \E op \in {"replace_stop", "replace_switch"} : ReplaceRejected(op)
  BY <1>10 DEF Begin, ReplaceRejected, Accounted
<1>11. CASE BeginReplaceStop
  BY <1>11
     DEF Begin, BeginReplaceStop, Retire, Plain, Accounted, Shape, Attempts,
         Enders, Retirers, UnitType, AttemptType, AttemptSet
<1>12. CASE BeginReplaceSwitch
  BY <1>12 DEF Begin, BeginReplaceSwitch, Accounted
<1>13. CASE \E s \in Slot, op \in {"unhealthy", "failed"} : BeginUnitFailed(op, s)
  <2>1. PICK s \in Slot, op \in {"unhealthy", "failed"} : BeginUnitFailed(op, s)
    BY <1>13
  <2>2. unit[s] # "none"
    BY <2>1, BeginTakes, TakenIsQueued, TypeParts
       DEF BeginUnitFailed, UnitCommand, Reported
  <2>3. retired \subseteq retired' /\ retired' \subseteq retired \cup {s}
    BY <2>1 DEF BeginUnitFailed, Retire
  <2>4. UNCHANGED <<unit, active, candidate>>
    BY <2>1 DEF BeginUnitFailed, Retire
  <2> QED BY <2>2, <2>3, <2>4 DEF Accounted
<1>14. CASE StopRetired
  BY <1>14, TypeParts, Constants
     DEF Retiring, StopRetired, Accounted, Shape, Attempts, Enders, Retirers,
         UnitType, AttemptType, AttemptSet
<1>15. CASE DisposeRetired
  BY <1>15, TypeParts, Constants
    
        DEF Retiring, DisposeRetired, Accounted, Shape, Attempts, Enders, Retirers,
         UnitType, AttemptType, AttemptSet
<1>16. CASE RestartRetired
  BY <1>16, TypeParts, Constants
    
        DEF Retiring, RestartRetired, Accounted, Shape, Attempts, Enders, Retirers,
         UnitType, AttemptType, AttemptSet
<1>17. CASE ReplaceStopRetired
  BY <1>17, TypeParts, Constants
     DEF Retiring, ReplaceStopRetired, Accounted, Shape, Attempts, Enders,
         Retirers, UnitType, AttemptType, AttemptSet
<1>18. CASE \E op \in {"unhealthy", "failed"} : UnitFailedRetired(op)
  BY <1>18, TypeParts, Constants
    
        DEF Retiring, UnitFailedRetired, Accounted, Shape, Attempts, Enders, Retirers,
         UnitType, AttemptType, AttemptSet
<1>19. CASE PreviousRetired
  BY <1>19 DEF PreviousRetired, Accounted
<1>20. CASE \E s \in Slot : BudgetGrants(s)
  BY <1>20, TypeParts, Constants
    
        DEF Attempting, BudgetGrants, Accounted, Shape, Attempts, Enders, Retirers,
         UnitType, AttemptType, AttemptSet
<1>21. CASE BudgetRejects
  BY <1>21
    
        DEF Attempting, EndAttempt, End, OnFailure, OneMoreFailure, Decide, Exhausted,
         EnterTerminal, ScheduleBackoff, NoDecision, ClearedRetry, OldUnitPolicy,
         BudgetRejects, Accounted, Shape, Attempts, Enders, Retirers, UnitType,
         AttemptType, AttemptSet
<1>22. CASE AttemptReady
  BY <1>22
    
        DEF Attempting, AttemptReady, Promote, Accounted, Shape, Attempts, Enders, Retirers,
         UnitType, AttemptType, AttemptSet
<1>22r. CASE ReplaceReturns
  BY <1>22r
    
        DEF Attempting, ReplaceReturns, End, Accounted, Shape, Attempts, Enders, Retirers,
         UnitType, AttemptType, AttemptSet
<1>23. CASE Switch
  BY <1>23
     DEF Attempting, Switch, Accounted, Shape, Attempts, Enders, Retirers,
         UnitType, AttemptType, AttemptSet
<1>24. CASE AttemptFails
  BY <1>24
    
        DEF Attempting, AttemptFails, RollBack, Accounted, Shape, Attempts, Enders,
         Retirers, UnitType, AttemptType, AttemptSet
<1>25. CASE StartupTimeout
  BY <1>25
    
        DEF Attempting, StartupTimeout, RollBack, Accounted, Shape, Attempts, Enders,
         Retirers, UnitType, AttemptType, AttemptSet
<1>26. CASE RolledBack
  BY <1>26
    
        DEF Attempting, EndAttempt, End, OnFailure, OneMoreFailure, Decide, Exhausted,
         EnterTerminal, ScheduleBackoff, NoDecision, ClearedRetry, OldUnitPolicy,
         RolledBack, OwnsFailure, Accounted, Shape, Attempts, Enders, Retirers,
         UnitType, AttemptType, AttemptSet
<1>27. CASE QueueIdles
  BY <1>27 DEF QueueIdles, Accounted
<1>28. CASE \E s \in Slot : LaunchResolves(s) \/ LaunchRejects(s)
  BY <1>28, TypeParts, Constants
     DEF Happens, LaunchResolves, LaunchRejects, Accounted, Shape, Attempts,
         Enders, Retirers, UnitType, AttemptType, AttemptSet
<1>29. CASE \E s \in Slot : RetiredExits(s)
  BY <1>29
     DEF Happens, RetiredExits, Exits, Accounted, Shape, Attempts, Enders,
         Retirers, UnitType, AttemptType, AttemptSet
<1>30. CASE \E s \in Slot : CandidateExits(s)
  BY <1>30
     DEF Happens, CandidateExits, Exits, Accounted, Shape, Attempts, Enders,
         Retirers, UnitType, AttemptType, AttemptSet
<1>31. CASE \E s \in Slot, clean \in BOOLEAN : ActiveExits(s, clean)
  BY <1>31, TypeParts, Constants
     DEF Happens, KeepWaiting, OnFailure, OneMoreFailure, Decide, Exhausted,
         EnterTerminal, ScheduleBackoff, NoDecision, ClearedRetry, ActiveExits,
         Exits, CleanExit, Accounted, Shape, Attempts, Enders, Retirers, UnitType,
         AttemptType, AttemptSet
<1>32. CASE \E s \in Slot, op \in {"unhealthy", "failed"} : Fails(s, op)
  BY <1>32, TypeParts, Constants
    
        DEF Happens, Fails, Accounted, Shape, Attempts, Enders, Retirers, UnitType,
         AttemptType, AttemptSet
<1>33. CASE \E s \in Slot : Abandon(s)
  BY <1>33 DEF Happens, Abandon, Accounted
<1>34. CASE FailureExpires
  BY <1>34 DEF Happens, FailureExpires, Accounted
<1>35. CASE BackoffFires
  BY <1>35 DEF Happens, BackoffFires, Accounted
<1>36. CASE CooldownFires
  BY <1>36 DEF Happens, CooldownFires, Accounted
<1>37. CASE UNCHANGED vars
  BY <1>37 DEF vars, Accounted
<1> QED BY <1>1, <1>2, <1>3, <1>4, <1>5, <1>6, <1>7, <1>8, <1>9, <1>10, <1>11,
           <1>12, <1>13, <1>14, <1>15, <1>16, <1>17, <1>18, <1>19, <1>20, <1>21,
           <1>22, <1>22r, <1>23, <1>24, <1>25, <1>26, <1>27, <1>28, <1>29, <1>30, <1>31,
           <1>32, <1>33, <1>34, <1>35, <1>36, <1>37
           DEF Next, Progress, Deadline

(* A step keeps every failure report about a launched unit.                  *)
LEMMA ReportedStep ==
    ASSUME TypeOK, Shape, Reported, [Next]_vars
    PROVE  Reported'
<1>1. CASE Start
  BY <1>1
     DEF Start, EnqueueLaunch, Enqueue, Launch, Reported, Appended, Taken,
         QueueType
<1>2. CASE Stop
  BY <1>2
     DEF Supersede, Superseded, Authorized, ClearTimers, ClearedRetry, Stop,
         Enqueue, Plain, Reported, Appended, Taken, QueueType
<1>3. CASE Kill
  BY <1>3
     DEF Supersede, Superseded, Authorized, ClearTimers, ClearedRetry, Kill,
         Enqueue, Plain, Reported, Appended, Taken, QueueType
<1>4. CASE Restart
  BY <1>4
     DEF Supersede, Superseded, Authorized, ClearTimers, ClearedRetry, Restart,
         Enqueue, Plain, Reported, Appended, Taken, QueueType
<1>5. CASE Dispose
  BY <1>5
     DEF Supersede, Superseded, Authorized, ClearTimers, ClearedRetry, Dispose,
         Enqueue, Plain, Reported, Appended, Taken, QueueType
<1>6. CASE \E op \in {"replace_stop", "replace_switch"} : Replace(op)
  BY <1>6 DEF Replace, Enqueue, Plain, Reported, Appended, Taken, QueueType
<1>7. CASE \E c \in {"start", "backoff", "cooldown"} : BeginLaunch(c)
  BY <1>7 DEF Begin, BeginLaunch, Reported
<1>8. CASE \E op \in {"stop", "dispose"} : Shutdown(op)
  BY <1>8
     DEF Begin, End, KeepWaiting, ClearTimers, ClearedRetry, Shutdown, Retire,
         Plain, Reported, Appended, Taken, QueueType
<1>9. CASE BeginRestart
  BY <1>9
     DEF Begin, RunAttempt, End, KeepWaiting, BeginRestart, Retire, Plain,
         Reported, Appended, Taken, QueueType
<1>10. CASE \E op \in {"replace_stop", "replace_switch"} : ReplaceRejected(op)
  BY <1>10 DEF Begin, ReplaceRejected, Reported
<1>11. CASE BeginReplaceStop
  BY <1>11
     DEF Begin, BeginReplaceStop, Retire, Plain, Reported, Appended, Taken,
         QueueType
<1>12. CASE BeginReplaceSwitch
  BY <1>12 DEF Begin, BeginReplaceSwitch, Reported
<1>13. CASE \E s \in Slot, op \in {"unhealthy", "failed"} : BeginUnitFailed(op, s)
  BY <1>13
     DEF Begin, End, BeginUnitFailed, Retire, UnitCommand, Reported, Appended,
         Taken, QueueType
<1>14. CASE StopRetired
  BY <1>14 DEF Retiring, StopRetired, Reported
<1>15. CASE DisposeRetired
  BY <1>15 DEF Retiring, DisposeRetired, Reported
<1>16. CASE RestartRetired
  BY <1>16 DEF Retiring, RestartRetired, Reported
<1>17. CASE ReplaceStopRetired
  BY <1>17 DEF Retiring, ReplaceStopRetired, Reported
<1>18. CASE \E op \in {"unhealthy", "failed"} : UnitFailedRetired(op)
  BY <1>18 DEF Retiring, UnitFailedRetired, Reported
<1>19. CASE PreviousRetired
  BY <1>19 DEF PreviousRetired, Reported
<1>20. CASE \E s \in Slot : BudgetGrants(s)
  BY <1>20 DEF Attempting, BudgetGrants, Reported
<1>21. CASE BudgetRejects
  BY <1>21 DEF Attempting, BudgetRejects, Reported
<1>22. CASE AttemptReady
  BY <1>22 DEF Attempting, AttemptReady, Promote, Reported
<1>22r. CASE ReplaceReturns
  BY <1>22r DEF Attempting, ReplaceReturns, End, Reported
<1>23. CASE Switch
  BY <1>23 DEF Attempting, Switch, Reported
<1>24. CASE AttemptFails
  BY <1>24
    
        DEF Attempting, AttemptFails, RollBack, Reported, Appended, Taken, QueueType
<1>25. CASE StartupTimeout
  BY <1>25
    
        DEF Attempting, StartupTimeout, RollBack, Reported, Appended, Taken, QueueType
<1>26. CASE RolledBack
  BY <1>26 DEF Attempting, RolledBack, Reported
<1>27. CASE QueueIdles
  BY <1>27 DEF QueueIdles, Reported
<1>28. CASE \E s \in Slot : LaunchResolves(s) \/ LaunchRejects(s)
  <2>1. UNCHANGED queue
    BY <1>28 DEF LaunchResolves, LaunchRejects
  <2>2. \A i \in 1 .. Len(queue) : queue[i].slot \in Slot \cup {None}
    BY TypeParts, QueueElements
  <2> QED BY <2>1, <2>2, UnitsAdvance, TypeParts DEF Reported
<1>29. CASE \E s \in Slot : RetiredExits(s)
  BY <1>29
     DEF Happens, RetiredExits, Exits, Reported, Appended, Taken, QueueType
<1>30. CASE \E s \in Slot : CandidateExits(s)
  BY <1>30
     DEF Happens, CandidateExits, Exits, Reported, Appended, Taken, QueueType
<1>31. CASE \E s \in Slot, clean \in BOOLEAN : ActiveExits(s, clean)
  BY <1>31
     DEF Happens, KeepWaiting, OnFailure, OneMoreFailure, Decide, Exhausted,
         EnterTerminal, ScheduleBackoff, NoDecision, ClearedRetry, ActiveExits,
         Exits, CleanExit, Reported, Appended, Taken, QueueType
<1>32. CASE \E s \in Slot, op \in {"unhealthy", "failed"} : Fails(s, op)
  <2>1. PICK s \in Slot, op \in {"unhealthy", "failed"} : Fails(s, op)
    BY <1>32
  <2>2. unit[s] # "none" /\ UNCHANGED unit
    BY <2>1 DEF Fails, Happens
  <2>3. UNCHANGED queue \/ Appended(UnitCommand(op, s))
    BY <2>1, QueueMoves, TypeParts DEF Commands
  <2> QED BY <2>2, <2>3, Constants, TypeParts
             DEF Reported, Appended, UnitCommand, QueueType
<1>33. CASE \E s \in Slot : Abandon(s)
  BY <1>33 DEF Happens, Abandon, Reported
<1>34. CASE FailureExpires
  BY <1>34 DEF Happens, FailureExpires, Reported
<1>35. CASE BackoffFires
  BY <1>35
    
        DEF Happens, BackoffFires, EnqueueLaunch, Enqueue, Launch, Reported, Appended,
         Taken, QueueType
<1>36. CASE CooldownFires
  BY <1>36
     DEF Happens, CooldownFires, EnqueueLaunch, Enqueue, Launch, Reported,
         Appended, Taken, QueueType
<1>37. CASE UNCHANGED vars
  BY <1>37 DEF vars, Reported
<1> QED BY <1>1, <1>2, <1>3, <1>4, <1>5, <1>6, <1>7, <1>8, <1>9, <1>10, <1>11,
           <1>12, <1>13, <1>14, <1>15, <1>16, <1>17, <1>18, <1>19, <1>20, <1>21,
           <1>22, <1>22r, <1>23, <1>24, <1>25, <1>26, <1>27, <1>28, <1>29, <1>30, <1>31,
           <1>32, <1>33, <1>34, <1>35, <1>36, <1>37
           DEF Next, Progress, Deadline

(* A step keeps the state in accord with the active unit and the attempt.    *)
LEMMA StateFitsStep ==
    ASSUME TypeOK, Shape, Accounted, StateFits, Disposing, RestartSettled,
           LaunchSettled, Timers, [Next]_vars
    PROVE  StateFits'
<1>1. CASE Start
  BY <1>1 DEF Start, StateFits
<1>2. CASE Stop
  BY <1>2
     DEF Supersede, Superseded, Authorized, ClearTimers, ClearedRetry, Stop,
         Enqueue, Plain, StateFits, Shape, Attempts, Enders, Retirers, Launchers
<1>3. CASE Kill
  BY <1>3
     DEF Supersede, Superseded, Authorized, ClearTimers, ClearedRetry, Kill,
         Enqueue, Plain, StateFits, Shape, Attempts, Enders, Retirers, Launchers
<1>4. CASE Restart
  BY <1>4
     DEF Supersede, Superseded, Authorized, ClearTimers, ClearedRetry, Restart,
         Enqueue, Plain, StateFits, Shape, Attempts, Enders, Retirers, Launchers
<1>5. CASE Dispose
  BY <1>5
     DEF Supersede, Superseded, Authorized, ClearTimers, ClearedRetry, Dispose,
         Enqueue, Plain, StateFits, Shape, Attempts, Enders, Retirers, Launchers
<1>6. CASE \E op \in {"replace_stop", "replace_switch"} : Replace(op)
  BY <1>6 DEF Replace, StateFits
<1>7. CASE \E c \in {"start", "backoff", "cooldown"} : BeginLaunch(c)
  <2>1. PICK c \in {"start", "backoff", "cooldown"} : BeginLaunch(c)
    BY <1>7
  <2>2. lifecycle = "open" => active = None
    BY <2>1, LaunchTaken, TypeParts
  <2>3. CASE lifecycle = "open"
    BY <2>1, <2>2, <2>3
       DEF BeginLaunch, Begin, RunAttempt, Launch, StateFits, Attempts
  <2>4. CASE lifecycle # "open"
    BY <2>1, <2>4
       DEF BeginLaunch, Begin, RunAttempt, End, Launch, StateFits, Attempts
  <2> QED BY <2>3, <2>4
<1>8. CASE \E op \in {"stop", "dispose"} : Shutdown(op)
  BY <1>8
     DEF Begin, End, KeepWaiting, ClearTimers, ClearedRetry, Shutdown, Retire,
         Plain, StateFits, Shape, Attempts, Enders, Retirers, Launchers
<1>9. CASE BeginRestart
  BY <1>9
     DEF Begin, RunAttempt, End, KeepWaiting, BeginRestart, Retire, Plain,
         StateFits, Shape, Attempts, Enders, Retirers, Launchers
<1>10. CASE \E op \in {"replace_stop", "replace_switch"} : ReplaceRejected(op)
  BY <1>10
    
        DEF Begin, End, ReplaceRejected, Plain, StateFits, Shape, Attempts, Enders,
         Retirers, Launchers
<1>11. CASE BeginReplaceStop
  BY <1>11
     DEF Begin, BeginReplaceStop, Retire, Plain, StateFits, Shape, Attempts,
         Enders, Retirers, Launchers
<1>12. CASE BeginReplaceSwitch
  BY <1>12
    
        DEF Begin, End, BeginReplaceSwitch, Plain, StateFits, Shape, Attempts, Enders,
         Retirers, Launchers
<1>13. CASE \E s \in Slot, op \in {"unhealthy", "failed"} : BeginUnitFailed(op, s)
  BY <1>13
     DEF Begin, End, BeginUnitFailed, Retire, UnitCommand, StateFits, Shape,
         Attempts, Enders, Retirers, Launchers
<1>14. CASE StopRetired
  BY <1>14
     DEF Retiring, End, KeepWaiting, StopRetired, StateFits, Shape, Attempts,
         Enders, Retirers, Launchers
<1>15. CASE DisposeRetired
  BY <1>15
    
        DEF Retiring, End, KeepWaiting, DisposeRetired, StateFits, Shape, Attempts,
         Enders, Retirers, Launchers
<1>16. CASE RestartRetired
  BY <1>16
    
        DEF Retiring, RunAttempt, End, KeepWaiting, RestartRetired, StateFits, Shape,
         Attempts, Enders, Retirers, Launchers
<1>17. CASE ReplaceStopRetired
  BY <1>17
     DEF Retiring, RunAttempt, End, KeepWaiting, ReplaceStopRetired, StateFits,
         Shape, Attempts, Enders, Retirers, Launchers
<1>18. CASE \E op \in {"unhealthy", "failed"} : UnitFailedRetired(op)
  BY <1>18
    
        DEF Retiring, End, KeepWaiting, OnFailure, OneMoreFailure, Decide, Exhausted,
         EnterTerminal, ScheduleBackoff, NoDecision, ClearedRetry,
         UnitFailedRetired, StateFits, Shape, Attempts, Enders, Retirers, Launchers
<1>19. CASE PreviousRetired
  BY <1>19
     DEF PreviousRetired, End, StateFits, Shape, Attempts, Enders, Retirers,
         Launchers
<1>20. CASE \E s \in Slot : BudgetGrants(s)
  BY <1>20
    
        DEF Attempting, BudgetGrants, StateFits, Shape, Attempts, Enders, Retirers,
         Launchers
<1>21. CASE BudgetRejects
  BY <1>21
    
        DEF Attempting, EndAttempt, End, OnFailure, OneMoreFailure, Decide, Exhausted,
         EnterTerminal, ScheduleBackoff, NoDecision, ClearedRetry, OldUnitPolicy,
         BudgetRejects, StateFits, Shape, Attempts, Enders, Retirers, Launchers
<1>22. CASE AttemptReady
  BY <1>22
    
        DEF Attempting, End, KeepWaiting, AttemptReady, Promote, StateFits, Shape, Attempts,
         Enders, Retirers, Launchers
<1>22r. CASE ReplaceReturns
  BY <1>22r
    
        DEF Attempting, End, ReplaceReturns, StateFits, Shape, Attempts,
         Enders, Retirers, Launchers
<1>23. CASE Switch
  BY <1>23
     DEF Attempting, Switch, StateFits, Shape, Attempts, Enders, Retirers,
         Launchers
<1>24. CASE AttemptFails
  BY <1>24
    
        DEF Attempting, AttemptFails, RollBack, StateFits, Shape, Attempts, Enders,
         Retirers, Launchers
<1>25. CASE StartupTimeout
  BY <1>25
    
        DEF Attempting, StartupTimeout, RollBack, StateFits, Shape, Attempts, Enders,
         Retirers, Launchers
<1>26. CASE RolledBack
  BY <1>26
    
        DEF Attempting, EndAttempt, End, OnFailure, OneMoreFailure, Decide, Exhausted,
         EnterTerminal, ScheduleBackoff, NoDecision, ClearedRetry, OldUnitPolicy,
         RolledBack, OwnsFailure, StateFits, Shape, Attempts, Enders, Retirers,
         Launchers
<1>27. CASE QueueIdles
  BY <1>27
     DEF QueueIdles, StateFits, Shape, Attempts, Enders, Retirers, Launchers
<1>28. CASE \E s \in Slot : LaunchResolves(s) \/ LaunchRejects(s)
  BY <1>28 DEF Happens, LaunchResolves, LaunchRejects, StateFits
<1>29. CASE \E s \in Slot : RetiredExits(s)
  BY <1>29
     DEF Happens, RetiredExits, Exits, StateFits, Shape, Attempts, Enders,
         Retirers, Launchers
<1>30. CASE \E s \in Slot : CandidateExits(s)
  BY <1>30
     DEF Happens, CandidateExits, Exits, StateFits, Shape, Attempts, Enders,
         Retirers, Launchers
<1>31. CASE \E s \in Slot, clean \in BOOLEAN : ActiveExits(s, clean)
  <2>1. PICK s \in Slot, clean \in BOOLEAN : ActiveExits(s, clean)
    BY <1>31
  <2>2. active' = None /\ UNCHANGED <<running, step, attempt>>
    BY <2>1 DEF ActiveExits, Exits, Happens
  <2>3. state' \in {state, "stopped", "backoff", "terminal"}
    BY <1>31, VerdictStep, TypeParts
       DEF Verdict, ScheduleBackoff, EnterTerminal
  <2>4. step \in Attempts => ~attempt.promote /\ UNCHANGED state
    BY <2>1, Constants DEF ActiveExits, Shape
  <2> QED BY <2>2, <2>3, <2>4 DEF StateFits
<1>32. CASE \E s \in Slot, op \in {"unhealthy", "failed"} : Fails(s, op)
  BY <1>32 DEF Happens, Fails, StateFits
<1>33. CASE \E s \in Slot : Abandon(s)
  BY <1>33 DEF Happens, Abandon, StateFits
<1>34. CASE FailureExpires
  BY <1>34 DEF Happens, FailureExpires, StateFits
<1>35. CASE BackoffFires
  BY <1>35 DEF Happens, BackoffFires, StateFits
<1>36. CASE CooldownFires
  BY <1>36 DEF Happens, CooldownFires, StateFits
<1>37. CASE UNCHANGED vars
  BY <1>37 DEF vars, StateFits
<1> QED BY <1>1, <1>2, <1>3, <1>4, <1>5, <1>6, <1>7, <1>8, <1>9, <1>10, <1>11,
           <1>12, <1>13, <1>14, <1>15, <1>16, <1>17, <1>18, <1>19, <1>20, <1>21,
           <1>22, <1>22r, <1>23, <1>24, <1>25, <1>26, <1>27, <1>28, <1>29, <1>30, <1>31,
           <1>32, <1>33, <1>34, <1>35, <1>36, <1>37
           DEF Next, Progress, Deadline

(* A step keeps dispose() the last command.                                  *)
LEMMA DisposingStep ==
    ASSUME TypeOK, Shape, Accounted, Reported, StateFits, Disposing,
           [Next]_vars
    PROVE  Disposing'
<1>1. CASE Start
  BY <1>1
     DEF Start, EnqueueLaunch, Enqueue, Launch, Disposing, Pending, Ops, Pos,
         Shape, Attempts
<1>2. CASE Stop
  BY <1>2
     DEF Supersede, Superseded, Authorized, ClearTimers, ClearedRetry, Stop,
         Enqueue, Plain, Disposing, Pending, Ops, Pos, Shape, Attempts
<1>3. CASE Kill
  BY <1>3, TypeParts, QueueMoves, QueueElements, QueuedSame, QueuedAppended,
     QueuedTaken, BeginTakes, TakenIsQueued
     DEF Supersede, Superseded, Authorized, ClearTimers, ClearedRetry, Kill,
         Enqueue, Plain, Disposing, Pending, Ops, Pos, Shape, Attempts
<1>4. CASE Restart
  BY <1>4
     DEF Supersede, Superseded, Authorized, ClearTimers, ClearedRetry, Restart,
         Enqueue, Plain, Disposing, Pending, Ops, Pos, Shape, Attempts
<1>5. CASE Dispose
  <2>1. Appended(Plain("dispose")) /\ Plain("dispose").op = "dispose"
    BY <1>5, QueueMoves, TypeParts DEF Plain
  <2>2. \A i \in 1 .. Len(queue) : queue[i].op # "dispose"
    BY <1>5 DEF Dispose, Disposing, Pending
  <2>3. Queued({"dispose"})'
    BY <2>1, QueuedAppended, TypeParts
  <2>4. /\ lifecycle = "open" /\ lifecycle' = "closed" /\ state # "disposed" /\ running.op # "dispose"
        /\ UNCHANGED <<state, running>>
    BY <1>5 DEF Dispose, Supersede, Disposing, Pending
  <2> QED BY <2>1, <2>2, <2>3, <2>4, QueueElements, TypeParts
             DEF Disposing, Ops, Pos, Appended
<1>6. CASE \E op \in {"replace_stop", "replace_switch"} : Replace(op)
  BY <1>6
     DEF Replace, Enqueue, Plain, Disposing, Pending, Ops, Pos, Shape, Attempts
<1>7. CASE \E c \in {"start", "backoff", "cooldown"} : BeginLaunch(c)
  BY <1>7, TypeParts, QueueMoves, QueueElements, QueuedSame, QueuedAppended,
     QueuedTaken, BeginTakes, TakenIsQueued
     DEF Begin, RunAttempt, End, KeepWaiting, BeginLaunch, Launch, Disposing,
         Pending, Ops, Pos, Shape, Attempts
<1>8. CASE \E op \in {"stop", "dispose"} : Shutdown(op)
  BY <1>8, TypeParts, QueueMoves, QueueElements, QueuedSame, QueuedAppended,
     QueuedTaken, BeginTakes, TakenIsQueued
     DEF Begin, End, KeepWaiting, Stable, ClearTimers, ClearedRetry, Shutdown,
         Retire, Plain, Disposing, Pending, Ops, Pos, Shape, Attempts
<1>9. CASE BeginRestart
  BY <1>9, TypeParts, QueueMoves, QueueElements, QueuedSame, QueuedAppended,
     QueuedTaken, BeginTakes, TakenIsQueued
     DEF Begin, RunAttempt, End, KeepWaiting, BeginRestart, Retire, Plain,
         Disposing, Pending, Ops, Pos, Shape, Attempts
<1>10. CASE \E op \in {"replace_stop", "replace_switch"} : ReplaceRejected(op)
  BY <1>10, TypeParts, QueueMoves, QueueElements, QueuedSame, QueuedAppended,
     QueuedTaken, BeginTakes, TakenIsQueued
    
        DEF Begin, End, ReplaceRejected, Plain, Disposing, Pending, Ops, Pos, Shape,
         Attempts
<1>11. CASE BeginReplaceStop
  BY <1>11, TypeParts, QueueMoves, QueueElements, QueuedSame, QueuedAppended,
     QueuedTaken, BeginTakes, TakenIsQueued
     DEF Begin, BeginReplaceStop, Retire, Plain, Disposing, Pending, Ops, Pos,
         Shape, Attempts
<1>12. CASE BeginReplaceSwitch
  BY <1>12, TypeParts, QueueMoves, QueueElements, QueuedSame, QueuedAppended,
     QueuedTaken, BeginTakes, TakenIsQueued
     DEF Begin, End, BeginReplaceSwitch, Plain, Disposing, Pending, Ops, Pos,
         Shape, Attempts
<1>13. CASE \E s \in Slot, op \in {"unhealthy", "failed"} : BeginUnitFailed(op, s)
  <2>1. PICK s \in Slot, op \in {"unhealthy", "failed"} : BeginUnitFailed(op, s)
    BY <1>13
  <2>2. Taken(UnitCommand(op, s)) /\ UnitCommand(op, s).op = op
    BY <2>1, BeginTakes, TypeParts DEF BeginUnitFailed, UnitCommand
  <2>3. Queued({"dispose"}) => Queued({"dispose"})'
    BY <2>2, QueuedTaken, TypeParts
  <2>4. UNCHANGED <<state, lifecycle, active>>
    BY <2>1 DEF BeginUnitFailed
  <2>5. Pending({"dispose"})' => Pending({"dispose"})
    <3> SUFFICES ASSUME Pending({"dispose"})' PROVE Pending({"dispose"})
      OBVIOUS
    <3>1. Len(queue) \in Nat
      BY QueueElements, TypeParts
    <3>2. running' = UnitCommand(op, s)
      BY <2>2 DEF Taken
    <3>3. PICK i \in 1 .. Len(queue') : queue'[i].op \in {"dispose"}
      BY <2>2, <3>2 DEF Pending
    <3>4. i + 1 \in 1 .. Len(queue) /\ queue'[i] = queue[i + 1]
      BY <2>2, <3>1, <3>3 DEF Taken
    <3> QED BY <3>3, <3>4 DEF Pending
  <2>6. lifecycle = "closed" => Queued({"dispose"})
    BY <2>2 DEF Disposing, Taken
  <2>7. lifecycle # "terminal" \/ step' = "ended"
    <3>1. unit[s] # "none"
      BY <2>2, TakenIsQueued, TypeParts DEF Reported, UnitCommand
    <3>2. lifecycle = "terminal" => active = None /\ candidate = None
      BY <2>2 DEF Disposing, Shape, Taken
    <3>3. lifecycle = "terminal" => s \in retired
      BY <3>1, <3>2, Constants DEF Accounted
    <3> QED BY <2>1, <3>3 DEF BeginUnitFailed, End
  <2>8. running'.op \in {"unhealthy", "failed"} /\ step' # "idle"
    BY <2>1, <2>2 DEF Taken, BeginUnitFailed, Retire, End
  <2>9. \A i \in 1 .. Len(queue') : i + 1 \in Pos /\ queue'[i] = queue[i + 1]
    BY <2>2, QueueElements, TypeParts DEF Pos, Taken
  <2>10. \A i, j \in Pos' : Ops(i)' = "dispose" /\ i < j => Ops(j)' \in {"unhealthy", "failed"}
    <3> SUFFICES ASSUME NEW i \in Pos', NEW j \in Pos', Ops(i)' = "dispose", i < j
                 PROVE  Ops(j)' \in {"unhealthy", "failed"}
      OBVIOUS
    <3>1. i + 1 \in Pos /\ j + 1 \in Pos /\ Ops(i + 1) = "dispose" /\ i + 1 < j + 1
      BY <2>9 DEF Ops, Pos
    <3>2. Ops(j + 1) \in {"unhealthy", "failed"}
      BY <3>1 DEF Disposing
    <3> QED BY <2>9, <3>2 DEF Ops, Pos
  <2>11. lifecycle = "terminal" => \A j \in Pos' : Ops(j)' \in {"unhealthy", "failed"}
    BY <2>9 DEF Disposing, Ops, Pos
  <2> QED BY <2>3, <2>4, <2>5, <2>6, <2>7, <2>8, <2>10, <2>11 DEF Disposing
<1>14. CASE StopRetired
  BY <1>14, TypeParts, QueueMoves, QueueElements, QueuedSame, QueuedAppended,
     QueuedTaken, BeginTakes, TakenIsQueued
     DEF Retiring, StopRetired, Disposing, Pending, Ops, Pos, Shape, Attempts
<1>15. CASE DisposeRetired
  BY <1>15
    
        DEF Retiring, End, KeepWaiting, DisposeRetired, Disposing, Pending, Ops, Pos,
         Shape, Attempts
<1>16. CASE RestartRetired
  BY <1>16, TypeParts, QueueMoves, QueueElements, QueuedSame, QueuedAppended,
     QueuedTaken, BeginTakes, TakenIsQueued
     DEF Retiring, RunAttempt, End, KeepWaiting, RestartRetired, Disposing,
         Pending, Ops, Pos, Shape, Attempts
<1>17. CASE ReplaceStopRetired
  BY <1>17, TypeParts, QueueMoves, QueueElements, QueuedSame, QueuedAppended,
     QueuedTaken, BeginTakes, TakenIsQueued
     DEF Retiring, RunAttempt, End, KeepWaiting, ReplaceStopRetired, Disposing,
         Pending, Ops, Pos, Shape, Attempts
<1>18. CASE \E op \in {"unhealthy", "failed"} : UnitFailedRetired(op)
  BY <1>18, TypeParts, QueueMoves, QueueElements, QueuedSame, QueuedAppended,
     QueuedTaken, BeginTakes, TakenIsQueued
    
        DEF Retiring, End, KeepWaiting, OnFailure, OneMoreFailure, Decide, Exhausted,
         EnterTerminal, ScheduleBackoff, NoDecision, ClearedRetry,
         UnitFailedRetired, Disposing, Pending, Ops, Pos, Shape, Attempts
<1>19. CASE PreviousRetired
  BY <1>19, TypeParts, QueueMoves, QueueElements, QueuedSame, QueuedAppended,
     QueuedTaken, BeginTakes, TakenIsQueued
     DEF PreviousRetired, Disposing, Pending, Ops, Pos, Shape, Attempts
<1>20. CASE \E s \in Slot : BudgetGrants(s)
  BY <1>20, TypeParts, QueueMoves, QueueElements, QueuedSame, QueuedAppended,
     QueuedTaken, BeginTakes, TakenIsQueued
    
        DEF Attempting, BudgetGrants, Disposing, Pending, Ops, Pos, Shape, Attempts
<1>21. CASE BudgetRejects
  BY <1>21, TypeParts, QueueMoves, QueueElements, QueuedSame, QueuedAppended,
     QueuedTaken, BeginTakes, TakenIsQueued
    
        DEF Attempting, EndAttempt, End, OnFailure, OneMoreFailure, Decide, Exhausted,
         EnterTerminal, ScheduleBackoff, NoDecision, ClearedRetry, OldUnitPolicy,
         BudgetRejects, Disposing, Pending, Ops, Pos, Shape, Attempts
<1>22. CASE AttemptReady
  BY <1>22, TypeParts, QueueMoves, QueueElements, QueuedSame, QueuedAppended,
     QueuedTaken, BeginTakes, TakenIsQueued
    
        DEF Attempting, AttemptReady, Promote, Disposing, Pending, Ops, Pos, Shape, Attempts
<1>22r. CASE ReplaceReturns
  BY <1>22r, TypeParts, QueueMoves, QueueElements, QueuedSame, QueuedAppended,
     QueuedTaken, BeginTakes, TakenIsQueued
    
        DEF Attempting, ReplaceReturns, End, Disposing, Pending, Ops, Pos, Shape, Attempts
<1>23. CASE Switch
  BY <1>23, TypeParts, QueueMoves, QueueElements, QueuedSame, QueuedAppended,
     QueuedTaken, BeginTakes, TakenIsQueued
     DEF Attempting, Switch, Disposing, Pending, Ops, Pos, Shape, Attempts
<1>24. CASE AttemptFails
  BY <1>24, TypeParts, QueueMoves, QueueElements, QueuedSame, QueuedAppended,
     QueuedTaken, BeginTakes, TakenIsQueued
    
        DEF Attempting, AttemptFails, RollBack, Disposing, Pending, Ops, Pos, Shape,
         Attempts
<1>25. CASE StartupTimeout
  BY <1>25, TypeParts, QueueMoves, QueueElements, QueuedSame, QueuedAppended,
     QueuedTaken, BeginTakes, TakenIsQueued
    
        DEF Attempting, StartupTimeout, RollBack, Disposing, Pending, Ops, Pos, Shape,
         Attempts
<1>26. CASE RolledBack
  BY <1>26, TypeParts, QueueMoves, QueueElements, QueuedSame, QueuedAppended,
     QueuedTaken, BeginTakes, TakenIsQueued
    
        DEF Attempting, EndAttempt, End, OnFailure, OneMoreFailure, Decide, Exhausted,
         EnterTerminal, ScheduleBackoff, NoDecision, ClearedRetry, OldUnitPolicy,
         RolledBack, OwnsFailure, Disposing, Pending, Ops, Pos, Shape, Attempts
<1>27. CASE QueueIdles
  <2>1. queue = <<>> /\ UNCHANGED <<queue, lifecycle, state, active>> /\ step' = "idle"
        /\ running' = NoCommand /\ step = "ended"
    BY <1>27 DEF QueueIdles
  <2>2. ~Queued({"dispose"}) /\ ~Pending({"dispose"})'
    BY <2>1 DEF Queued, Pending, NoCommand, Plain
  <2> QED BY <2>1, <2>2 DEF Disposing, Ops, Pos, NoCommand, Plain
<1>28. CASE \E s \in Slot : LaunchResolves(s) \/ LaunchRejects(s)
  BY <1>28, TypeParts, QueueMoves, QueueElements, QueuedSame, QueuedAppended,
     QueuedTaken, BeginTakes, TakenIsQueued
     DEF Happens, LaunchResolves, LaunchRejects, Disposing, Pending, Ops, Pos,
         Shape, Attempts
<1>29. CASE \E s \in Slot : RetiredExits(s)
  BY <1>29, TypeParts, QueueMoves, QueueElements, QueuedSame, QueuedAppended,
     QueuedTaken, BeginTakes, TakenIsQueued
     DEF Happens, RetiredExits, Exits, Disposing, Pending, Ops, Pos, Shape,
         Attempts
<1>30. CASE \E s \in Slot : CandidateExits(s)
  BY <1>30, TypeParts, QueueMoves, QueueElements, QueuedSame, QueuedAppended,
     QueuedTaken, BeginTakes, TakenIsQueued
     DEF Happens, CandidateExits, Exits, Disposing, Pending, Ops, Pos, Shape,
         Attempts
<1>31. CASE \E s \in Slot, clean \in BOOLEAN : ActiveExits(s, clean)
  BY <1>31, TypeParts, QueueMoves, QueueElements, QueuedSame, QueuedAppended,
     QueuedTaken, BeginTakes, TakenIsQueued
     DEF Happens, KeepWaiting, OnFailure, OneMoreFailure, Decide, Exhausted,
         EnterTerminal, ScheduleBackoff, NoDecision, ClearedRetry, ActiveExits,
         Exits, CleanExit, Disposing, Pending, Ops, Pos, Shape, Attempts
<1>32. CASE \E s \in Slot, op \in {"unhealthy", "failed"} : Fails(s, op)
  <2>1. PICK s \in Slot, op \in {"unhealthy", "failed"} : Fails(s, op)
    BY <1>32
  <2>2. UNCHANGED <<state, lifecycle, running, step>> /\ active' \in {active, None}
    BY <2>1 DEF Fails, Happens
  <2>3. CASE UNCHANGED queue
    BY <2>2, <2>3, QueuedSame DEF Disposing, Pending, Ops, Pos
  <2>4. CASE Appended(UnitCommand(op, s))
    <3>1. UnitCommand(op, s).op = op
      BY DEF UnitCommand
    <3>2. Queued({"dispose"}) => Queued({"dispose"})'
      BY <2>4, QueuedAppended, TypeParts
    <3> QED BY <2>2, <2>4, <3>1, <3>2, QueueElements, TypeParts
               DEF Disposing, Pending, Ops, Pos, Appended
  <2> QED BY <2>1, <2>3, <2>4, QueueMoves, TypeParts DEF Commands
<1>33. CASE \E s \in Slot : Abandon(s)
  BY <1>33, TypeParts, QueueMoves, QueueElements, QueuedSame, QueuedAppended,
     QueuedTaken, BeginTakes, TakenIsQueued
     DEF Happens, Abandon, Disposing, Pending, Ops, Pos, Shape, Attempts
<1>34. CASE FailureExpires
  BY <1>34, TypeParts, QueueMoves, QueueElements, QueuedSame, QueuedAppended,
     QueuedTaken, BeginTakes, TakenIsQueued
     DEF Happens, FailureExpires, Disposing, Pending, Ops, Pos, Shape, Attempts
<1>35. CASE BackoffFires
  BY <1>35, TypeParts, QueueMoves, QueueElements, QueuedSame, QueuedAppended, SMTT(30)
    
        DEF Happens, Turn, BackoffFires, TimerTurn, EnqueueLaunch, Enqueue, Launch,
         Disposing, Pending, Ops, Pos, Shape, Attempts
<1>36. CASE CooldownFires
  BY <1>36, TypeParts, QueueMoves, QueueElements, QueuedSame, QueuedAppended, SMTT(30)
    
        DEF Happens, Turn, CooldownFires, TimerTurn, EnqueueLaunch, Enqueue, Launch,
         Disposing, Pending, Ops, Pos, Shape, Attempts
<1>37. CASE UNCHANGED vars
  BY <1>37, TypeParts, QueueMoves, QueueElements, QueuedSame, QueuedAppended,
     QueuedTaken, BeginTakes, TakenIsQueued
     DEF vars, Disposing, Pending, Ops, Pos, Shape, Attempts
<1> QED BY <1>1, <1>2, <1>3, <1>4, <1>5, <1>6, <1>7, <1>8, <1>9, <1>10, <1>11,
           <1>12, <1>13, <1>14, <1>15, <1>16, <1>17, <1>18, <1>19, <1>20, <1>21,
           <1>22, <1>22r, <1>23, <1>24, <1>25, <1>26, <1>27, <1>28, <1>29, <1>30, <1>31,
           <1>32, <1>33, <1>34, <1>35, <1>36, <1>37
           DEF Next, Progress, Deadline

-----------------------------------------------------------------------------
(* Timers, and the order of the waiting commands. *)

(* Which call puts a command into the queue, for the commands whose order    *)
(* matters.                                                                  *)
Called(c) ==
    /\ c.op = "restart" => Restart
    /\ c.op = "launch" => \/ c = Launch("start") /\ Start
                          \/ c = Launch("backoff") /\ BackoffFires
                          \/ c = Launch("cooldown") /\ CooldownFires

(* A step leaves the queue alone, takes its first command, or is one of      *)
(* these calls.                                                              *)
LEMMA QueueChange ==
    ASSUME QueueType, [Next]_vars
    PROVE  \/ UNCHANGED queue
           \/ \E c \in Command : Taken(c)
           \/ \E c \in Command : Appended(c) /\ Called(c)
<1> USE CommandTypes DEF Commands, Causes, Called
<1>1. CASE Start
  BY <1>1, QueueMoves DEF Launch
<1>2. CASE Stop
  BY <1>2, QueueMoves DEF Plain
<1>3. CASE Kill
  BY <1>3, QueueMoves DEF Plain
<1>4. CASE Restart
  BY <1>4, QueueMoves DEF Plain
<1>5. CASE Dispose
  BY <1>5, QueueMoves DEF Plain
<1>6. CASE \E op \in {"replace_stop", "replace_switch"} : Replace(op)
  BY <1>6, QueueMoves DEF Plain
<1>7. ASSUME NEW s \in Slot, NEW op \in {"unhealthy", "failed"}, Fails(s, op)
      PROVE  \/ UNCHANGED queue
             \/ \E c \in Command : Appended(c) /\ c.op \in {"unhealthy", "failed"}
  BY <1>7, QueueMoves DEF UnitCommand
<1>8. CASE BackoffFires
  BY <1>8, QueueMoves DEF Launch
<1>9. CASE CooldownFires
  BY <1>9, QueueMoves DEF Launch
<1>10. CASE \E c \in Command : Begin(c)
  BY <1>10, BeginTakes
<1>11. CASE UNCHANGED queue
  BY <1>11
<1>12. (\E c \in {"start", "backoff", "cooldown"} : BeginLaunch(c)) => \E c \in Command : Begin(c)
  BY DEF BeginLaunch
<1>13. Shutdown("stop") \/ Shutdown("dispose") \/ BeginRestart \/ BeginReplaceStop
         \/ BeginReplaceSwitch \/ ReplaceRejected("replace_stop")
         \/ ReplaceRejected("replace_switch") => \E c \in Command : Begin(c)
  BY
     DEF Shutdown, BeginRestart, BeginReplaceStop, BeginReplaceSwitch, ReplaceRejected
<1>14. (\E s \in Slot, op \in {"unhealthy", "failed"} : BeginUnitFailed(op, s))
         => \E c \in Command : Begin(c)
  BY DEF BeginUnitFailed
<1>15. StopRetired \/ DisposeRetired \/ RestartRetired \/ ReplaceStopRetired
         \/ UnitFailedRetired("unhealthy") \/ UnitFailedRetired("failed") => UNCHANGED queue
  BY
     DEF StopRetired, DisposeRetired, RestartRetired, ReplaceStopRetired, UnitFailedRetired, Retiring
<1>16. PreviousRetired \/ QueueIdles \/ FailureExpires \/ UNCHANGED vars => UNCHANGED queue
  BY DEF PreviousRetired, QueueIdles, FailureExpires, vars
<1>17. BudgetRejects \/ (\E s \in Slot : BudgetGrants(s)) \/ AttemptReady \/ Switch
         \/ ReplaceReturns \/ AttemptFails \/ StartupTimeout \/ RolledBack => UNCHANGED queue
  BY
     DEF BudgetRejects, BudgetGrants, AttemptReady, Promote, ReplaceReturns, Switch, AttemptFails,
         StartupTimeout,
         RolledBack, Attempting
<1>18. (\E s \in Slot : \/ LaunchResolves(s) \/ LaunchRejects(s) \/ RetiredExits(s)
                         \/ CandidateExits(s) \/ ActiveExits(s, TRUE) \/ ActiveExits(s, FALSE)
                         \/ Abandon(s)) => UNCHANGED queue
  BY
     DEF LaunchResolves, LaunchRejects, RetiredExits, CandidateExits, ActiveExits, Abandon
<1> QED BY <1>1, <1>2, <1>3, <1>4, <1>5, <1>6, <1>7, <1>8, <1>9, <1>10, <1>11, <1>12, <1>13,
           <1>14, <1>15, <1>16, <1>17, <1>18 DEF Next, Progress, Deadline

(* No timer is alive while a unit is active or an attempt is in progress.    *)
LEMMA BusyWithoutTimers ==
    ASSUME PolicyType, StateFits, Timers, lifecycle = "open", active # None \/
           step \in Attempts
    PROVE  NoTimers
<1>1. state \notin {"backoff", "terminal"}
  BY DEF StateFits
<1> QED BY <1>1 DEF Timers, NoTimers, PolicyType, RetryType

(* A verdict sets a timer only where none was.                               *)
LEMMA VerdictTimers ==
    ASSUME PolicyType, Timers, Verdict, UNCHANGED lifecycle, lifecycle = "open"
           => NoTimers
    PROVE  Timers'
<1> SUFFICES ASSUME lifecycle = "open" PROVE Timers'
  BY DEF Timers
<1>1. CASE UNCHANGED timers
  BY <1>1 DEF Timers, NoTimers
<1>2. CASE ScheduleBackoff
  BY <1>2 DEF ScheduleBackoff, Timers, NoTimers
<1>3. CASE EnterTerminal
  <2>1. ~retry.held
    BY DEF Timers, NoTimers
  <2>2. ClearedRetry.live = 0 /\ ~ClearedRetry.held
    BY <2>1, ClearedRetryType DEF PolicyType, NoTimers
  <2> QED BY <1>3, <2>2 DEF EnterTerminal, Timers
<1> QED BY <1>1, <1>2, <1>3 DEF Verdict

(* clearTimers() leaves no timer, because the one there is has its handle.   *)
LEMMA ClearedTimers ==
    ASSUME PolicyType, Timers, lifecycle = "open", ClearTimers
    PROVE  NoTimers'
<1>1. CASE retry.held
  BY <1>1, ClearedRetryType DEF ClearTimers, Timers, NoTimers, PolicyType
<1>2. CASE ~retry.held
  BY <1>2, ClearedRetryType DEF ClearTimers, Timers, NoTimers, PolicyType
<1> QED BY <1>1, <1>2

(* A restart that begins finds no timer.                                     *)
LEMMA RestartTaken ==
    ASSUME QueueType, RestartSettled, NEW c, Taken(c), c.op = "restart",
           lifecycle = "open"
    PROVE  NoTimers
BY TakenIsQueued DEF RestartSettled

(* Untouched timers stay consistent with an untouched lifecycle if there are *)
(* none.                                                                     *)
LEMMA KeptTimers ==
    ASSUME Timers, UNCHANGED <<lifecycle, timers>>, lifecycle = "open" =>
           NoTimers
    PROVE  Timers'
BY DEF Timers, NoTimers

(* A step keeps at most one timer, in the state it belongs to.               *)
LEMMA TimersStep ==
    ASSUME TypeOK, Shape, StateFits, RestartSettled, LaunchSettled, Timers,
           [Next]_vars
    PROVE  Timers'
<1>1. CASE Start
  BY <1>1 DEF Start, Timers
<1>2. CASE Stop
  BY <1>2
     DEF Supersede, Superseded, Authorized, ClearTimers, ClearedRetry, Stop,
         Enqueue, Plain, Timers, RetryType, PolicyType, Stable
<1>3. CASE Kill
  BY <1>3
     DEF Supersede, Superseded, Authorized, ClearTimers, ClearedRetry, Kill,
         Enqueue, Plain, Timers, RetryType, PolicyType, Stable
<1>4. CASE Restart
  BY <1>4
     DEF Supersede, Superseded, Authorized, ClearTimers, ClearedRetry, Restart,
         Enqueue, Plain, Timers, RetryType, PolicyType, Stable
<1>5. CASE Dispose
  BY <1>5 DEF Dispose, Timers
<1>6. CASE \E op \in {"replace_stop", "replace_switch"} : Replace(op)
  BY <1>6 DEF Replace, Timers
<1>7. CASE \E c \in {"start", "backoff", "cooldown"} : BeginLaunch(c)
  <2>1. UNCHANGED <<lifecycle, timers>>
    BY <1>7 DEF BeginLaunch
  <2>2. lifecycle = "open" => NoTimers
    BY <1>7, TypeParts, LaunchTaken
  <2> QED BY <2>1, <2>2, KeptTimers
<1>8. CASE \E op \in {"stop", "dispose"} : Shutdown(op)
  BY <1>8
     DEF Begin, End, KeepWaiting, ClearTimers, ClearedRetry, Shutdown, Retire,
         Plain, Timers, RetryType, PolicyType, Stable
<1>9. CASE BeginRestart
  <2>1. UNCHANGED <<lifecycle, timers>>
    BY <1>9 DEF BeginRestart
  <2>2. lifecycle = "open" => NoTimers
    BY <1>9, TypeParts, BeginTakes, RestartTaken DEF BeginRestart, Plain
  <2> QED BY <2>1, <2>2, KeptTimers
<1>10. CASE \E op \in {"replace_stop", "replace_switch"} : ReplaceRejected(op)
  BY <1>10 DEF Begin, ReplaceRejected, Timers
<1>11. CASE BeginReplaceStop
  BY <1>11 DEF Begin, BeginReplaceStop, Timers
<1>12. CASE BeginReplaceSwitch
  BY <1>12 DEF Begin, BeginReplaceSwitch, Timers
<1>13. CASE \E s \in Slot, op \in {"unhealthy", "failed"} : BeginUnitFailed(op, s)
  BY <1>13 DEF Begin, BeginUnitFailed, Timers
<1>14. CASE StopRetired
  <2>1. UNCHANGED <<lifecycle, timers>>
    BY <1>14 DEF StopRetired
  <2>2. lifecycle = "open" => NoTimers
    BY <1>14, TypeParts, BusyWithoutTimers DEF StopRetired, Retiring, Shape
  <2> QED BY <2>1, <2>2, KeptTimers
<1>15. CASE DisposeRetired
  BY <1>15 DEF Retiring, DisposeRetired, Timers
<1>16. CASE RestartRetired
  <2>1. UNCHANGED <<lifecycle, timers>>
    BY <1>16 DEF RestartRetired
  <2>2. lifecycle = "open" => NoTimers
    BY <1>16, TypeParts, BusyWithoutTimers DEF RestartRetired, Retiring, Shape
  <2> QED BY <2>1, <2>2, KeptTimers
<1>17. CASE ReplaceStopRetired
  <2>1. UNCHANGED <<lifecycle, timers>>
    BY <1>17 DEF ReplaceStopRetired
  <2>2. lifecycle = "open" => NoTimers
    BY <1>17, TypeParts, BusyWithoutTimers
       DEF ReplaceStopRetired, Retiring, Shape
  <2> QED BY <2>1, <2>2, KeptTimers
<1>18. CASE \E op \in {"unhealthy", "failed"} : UnitFailedRetired(op)
  <2>1. Verdict /\ UNCHANGED lifecycle
    BY <1>18, TypeParts, VerdictStep DEF UnitFailedRetired, Retiring
  <2>2. lifecycle = "open" => NoTimers
    BY <1>18, TypeParts, BusyWithoutTimers
       DEF UnitFailedRetired, Retiring, Shape
  <2> QED BY <2>1, <2>2, TypeParts, VerdictTimers
<1>19. CASE PreviousRetired
  BY <1>19 DEF PreviousRetired, Timers
<1>20. CASE \E s \in Slot : BudgetGrants(s)
  <2>1. UNCHANGED <<lifecycle, timers>>
    BY <1>20 DEF BudgetGrants, Attempting
  <2>2. lifecycle = "open" => NoTimers
    BY <1>20, TypeParts, BusyWithoutTimers
       DEF BudgetGrants, Attempting, Attempts
  <2> QED BY <2>1, <2>2, KeptTimers
<1>21. CASE BudgetRejects
  <2>1. Verdict /\ UNCHANGED lifecycle
    BY <1>21, TypeParts, VerdictStep DEF BudgetRejects, Attempting
  <2>2. lifecycle = "open" => NoTimers
    BY <1>21, TypeParts, BusyWithoutTimers
       DEF BudgetRejects, Attempting, Attempts
  <2> QED BY <2>1, <2>2, TypeParts, VerdictTimers
<1>22. CASE AttemptReady
  <2>1. UNCHANGED <<lifecycle, timers>>
    BY <1>22 DEF AttemptReady, Promote, Attempting
  <2>2. lifecycle = "open" => NoTimers
    BY <1>22, TypeParts, BusyWithoutTimers
       DEF AttemptReady, Promote, Attempting, Attempts
  <2> QED BY <2>1, <2>2, KeptTimers
<1>22r. CASE ReplaceReturns
  BY <1>22r DEF ReplaceReturns, Attempting, Timers
<1>23. CASE Switch
  <2>1. UNCHANGED <<lifecycle, timers>>
    BY <1>23 DEF Switch, Attempting
  <2>2. lifecycle = "open" => NoTimers
    BY <1>23, TypeParts, BusyWithoutTimers DEF Switch, Attempting, Attempts
  <2> QED BY <2>1, <2>2, KeptTimers
<1>24. CASE AttemptFails
  BY <1>24
    
        DEF Attempting, AttemptFails, RollBack, Timers, RetryType, PolicyType, Stable
<1>25. CASE StartupTimeout
  BY <1>25
     DEF Attempting, StartupTimeout, RollBack, Timers, RetryType, PolicyType,
         Stable
<1>26. CASE RolledBack
  <2>1. Verdict /\ UNCHANGED lifecycle
    BY <1>26, TypeParts, VerdictStep DEF RolledBack, Attempting
  <2>2. lifecycle = "open" => NoTimers
    BY <1>26, TypeParts, BusyWithoutTimers DEF RolledBack, Attempting, Attempts
  <2> QED BY <2>1, <2>2, TypeParts, VerdictTimers
<1>27. CASE QueueIdles
  BY <1>27 DEF QueueIdles, Timers
<1>28. CASE \E s \in Slot : LaunchResolves(s) \/ LaunchRejects(s)
  BY <1>28 DEF Happens, LaunchResolves, LaunchRejects, Timers
<1>29. CASE \E s \in Slot : RetiredExits(s)
  BY <1>29
     DEF Happens, RetiredExits, Exits, Timers, RetryType, PolicyType, Stable
<1>30. CASE \E s \in Slot : CandidateExits(s)
  BY <1>30
     DEF Happens, CandidateExits, Exits, Timers, RetryType, PolicyType, Stable
<1>31. CASE \E s \in Slot, clean \in BOOLEAN : ActiveExits(s, clean)
  <2>1. Verdict /\ UNCHANGED lifecycle
    BY <1>31, TypeParts, VerdictStep DEF ActiveExits, Exits, Happens
  <2>2. lifecycle = "open" => NoTimers
    BY <1>31, TypeParts, BusyWithoutTimers, Constants DEF ActiveExits
  <2> QED BY <2>1, <2>2, TypeParts, VerdictTimers
<1>32. CASE \E s \in Slot, op \in {"unhealthy", "failed"} : Fails(s, op)
  BY <1>32 DEF Happens, Fails, Timers
<1>33. CASE \E s \in Slot : Abandon(s)
  BY <1>33 DEF Happens, Abandon, Timers
<1>34. CASE FailureExpires
  BY <1>34 DEF Happens, FailureExpires, Timers
<1>35. CASE BackoffFires
  BY <1>35 DEF Happens, BackoffFires, Timers
<1>36. CASE CooldownFires
  BY <1>36 DEF Happens, CooldownFires, Timers
<1>37. CASE UNCHANGED vars
  BY <1>37 DEF vars, Timers
<1> QED BY <1>1, <1>2, <1>3, <1>4, <1>5, <1>6, <1>7, <1>8, <1>9, <1>10, <1>11,
           <1>12, <1>13, <1>14, <1>15, <1>16, <1>17, <1>18, <1>19, <1>20, <1>21,
           <1>22, <1>22r, <1>23, <1>24, <1>25, <1>26, <1>27, <1>28, <1>29, <1>30, <1>31,
           <1>32, <1>33, <1>34, <1>35, <1>36, <1>37
           DEF Next, Progress, Deadline

(* A step keeps stops alone in front of a restart.                           *)
LEMMA RestartFirstStep ==
    ASSUME TypeOK, RestartFirst, QuietRaces, [Next]_vars
    PROVE  RestartFirst'
<1>1. CASE UNCHANGED queue
  BY <1>1 DEF RestartFirst, Ops, Pos
<1>2. ASSUME NEW c \in Command, Taken(c) PROVE RestartFirst'
  <2>1. \A i \in 1 .. Len(queue') : i + 1 \in 1 .. Len(queue) /\ queue'[i] = queue[i + 1]
    BY <1>2, QueueElements, TypeParts DEF Taken
  <2>2. Len(queue') \in Nat
    BY <1>2, QueueElements, TypeParts DEF Taken
  <2>3. SUFFICES ASSUME NEW i \in 1 .. Len(queue'), NEW j \in 1 .. Len(queue'),
                        queue'[i].op = "restart", j < i
                 PROVE  queue'[j].op = "stop"
    BY DEF RestartFirst, Ops, Pos
  <2>4. i + 1 \in Pos /\ j + 1 \in Pos /\ j + 1 < i + 1
    BY <2>1, <2>2, <2>3 DEF Pos
  <2>5. Ops(i + 1) = "restart"
    BY <2>1, <2>3 DEF Ops
  <2>6. Ops(j + 1) = "stop"
    BY <2>4, <2>5 DEF RestartFirst
  <2> QED BY <2>1, <2>6 DEF Ops
<1>3. ASSUME NEW c \in Command, Appended(c), Called(c)
      PROVE RestartFirst'
  <2>1. CASE c.op # "restart"
    BY <1>3, <2>1, QueueElements, TypeParts
       DEF RestartFirst, Ops, Pos, Appended
  <2>2. CASE c.op = "restart"
    <3>1. \A i \in 1 .. Len(queue) : queue[i].op = "stop"
      BY <1>3, <2>2, QueueElements, TypeParts
         DEF Called, Restart, RestartBehindPolicy, QuietRaces, Queued
    <3> QED BY <1>3, <3>1, QueueElements, TypeParts
               DEF RestartFirst, Ops, Pos, Appended
  <2> QED BY <2>1, <2>2
<1>4. QueueType
  BY TypeParts
<1>5. \/ UNCHANGED queue
      \/ \E c \in Command : Taken(c)
      \/ \E c \in Command : Appended(c) /\ Called(c)
  BY <1>4, QueueChange
<1> QED BY <1>1, <1>2, <1>3, <1>5

(* A closed supervisor never opens again.                                    *)
LEMMA LifecycleOnward ==
    ASSUME lifecycle' = "open", [Next]_vars
    PROVE  lifecycle = "open"
<1>1. CASE Start
  BY <1>1 DEF Start
<1>2. CASE Stop
  BY <1>2 DEF Stop
<1>3. CASE Kill
  BY <1>3 DEF Kill
<1>4. CASE Restart
  BY <1>4 DEF Restart
<1>5. CASE Dispose
  BY <1>5 DEF Dispose
<1>6. CASE \E op \in {"replace_stop", "replace_switch"} : Replace(op)
  BY <1>6 DEF Replace
<1>7. CASE \E c \in {"start", "backoff", "cooldown"} : BeginLaunch(c)
  BY <1>7 DEF Begin, BeginLaunch
<1>8. CASE \E op \in {"stop", "dispose"} : Shutdown(op)
  BY <1>8 DEF Begin, Shutdown
<1>9. CASE BeginRestart
  BY <1>9 DEF Begin, BeginRestart
<1>10. CASE \E op \in {"replace_stop", "replace_switch"} : ReplaceRejected(op)
  BY <1>10 DEF Begin, ReplaceRejected
<1>11. CASE BeginReplaceStop
  BY <1>11 DEF Begin, BeginReplaceStop
<1>12. CASE BeginReplaceSwitch
  BY <1>12 DEF Begin, BeginReplaceSwitch
<1>13. CASE \E s \in Slot, op \in {"unhealthy", "failed"} : BeginUnitFailed(op, s)
  BY <1>13 DEF Begin, BeginUnitFailed
<1>14. CASE StopRetired
  BY <1>14 DEF Retiring, StopRetired
<1>15. CASE DisposeRetired
  BY <1>15 DEF Retiring, DisposeRetired
<1>16. CASE RestartRetired
  BY <1>16 DEF Retiring, RestartRetired
<1>17. CASE ReplaceStopRetired
  BY <1>17 DEF Retiring, ReplaceStopRetired
<1>18. CASE \E op \in {"unhealthy", "failed"} : UnitFailedRetired(op)
  BY <1>18 DEF Retiring, UnitFailedRetired
<1>19. CASE PreviousRetired
  BY <1>19 DEF PreviousRetired
<1>20. CASE \E s \in Slot : BudgetGrants(s)
  BY <1>20 DEF Attempting, BudgetGrants
<1>21. CASE BudgetRejects
  BY <1>21 DEF Attempting, BudgetRejects
<1>22. CASE AttemptReady
  BY <1>22 DEF Attempting, AttemptReady, Promote
<1>22r. CASE ReplaceReturns
  BY <1>22r DEF Attempting, ReplaceReturns, End
<1>23. CASE Switch
  BY <1>23 DEF Attempting, Switch
<1>24. CASE AttemptFails
  BY <1>24 DEF Attempting, AttemptFails
<1>25. CASE StartupTimeout
  BY <1>25 DEF Attempting, StartupTimeout
<1>26. CASE RolledBack
  BY <1>26 DEF Attempting, RolledBack
<1>27. CASE QueueIdles
  BY <1>27 DEF QueueIdles
<1>28. CASE \E s \in Slot : LaunchResolves(s) \/ LaunchRejects(s)
  BY <1>28 DEF Happens, LaunchResolves, LaunchRejects
<1>29. CASE \E s \in Slot : RetiredExits(s)
  BY <1>29 DEF Happens, RetiredExits, Exits
<1>30. CASE \E s \in Slot : CandidateExits(s)
  BY <1>30 DEF Happens, CandidateExits, Exits
<1>31. CASE \E s \in Slot, clean \in BOOLEAN : ActiveExits(s, clean)
  BY <1>31
     DEF Happens, KeepWaiting, OnFailure, OneMoreFailure, Decide, Exhausted,
         EnterTerminal, ScheduleBackoff, NoDecision, ClearedRetry, ActiveExits,
         Exits, CleanExit
<1>32. CASE \E s \in Slot, op \in {"unhealthy", "failed"} : Fails(s, op)
  BY <1>32 DEF Happens, Fails
<1>33. CASE \E s \in Slot : Abandon(s)
  BY <1>33 DEF Happens, Abandon
<1>34. CASE FailureExpires
  BY <1>34 DEF Happens, FailureExpires
<1>35. CASE BackoffFires
  BY <1>35 DEF Happens, BackoffFires
<1>36. CASE CooldownFires
  BY <1>36 DEF Happens, CooldownFires
<1>37. CASE UNCHANGED vars
  BY <1>37 DEF vars
<1> QED BY <1>1, <1>2, <1>3, <1>4, <1>5, <1>6, <1>7, <1>8, <1>9, <1>10, <1>11,
           <1>12, <1>13, <1>14, <1>15, <1>16, <1>17, <1>18, <1>19, <1>20, <1>21,
           <1>22, <1>22r, <1>23, <1>24, <1>25, <1>26, <1>27, <1>28, <1>29, <1>30, <1>31,
           <1>32, <1>33, <1>34, <1>35, <1>36, <1>37
           DEF Next, Progress, Deadline

(* Every step but restart() keeps what is settled behind a queued restart... *)
LEMMA RestartStaysSettled ==
    ASSUME TypeOK, Shape, Accounted, StateFits, RestartFirst, RestartSettled,
           Timers, QuietRaces, ~Restart,
           lifecycle' = "open", Queued({"restart"})', [Next]_vars
    PROVE  /\ running'.op \notin {"replace_switch", "unhealthy", "failed"}
           /\ step' = "retiring" => running'.op = "stop"
           /\ Authorized' => attempt'.authority = "lost"
           /\ NoTimers'
<1>a. QueueType /\ lifecycle = "open"
  BY LifecycleOnward, TypeParts
<1>b. Queued({"restart"})
  <2>1. CASE UNCHANGED queue
    BY <2>1, QueuedSame
  <2>2. ASSUME NEW c, Taken(c) PROVE Queued({"restart"})
    BY <1>a, <2>2, QueuedTaken
  <2>3. ASSUME NEW c, Appended(c), Called(c) PROVE Queued({"restart"})
    BY <1>a, <2>3, QueuedAppended DEF Called
  <2>4. \/ UNCHANGED queue
        \/ \E c \in Command : Taken(c)
        \/ \E c \in Command : Appended(c) /\ Called(c)
    BY <1>a, QueueChange
  <2> QED BY <2>1, <2>2, <2>3, <2>4
<1>c. /\ running.op \notin {"replace_switch", "unhealthy", "failed"}
      /\ step = "retiring" => running.op = "stop"
      /\ Authorized => attempt.authority = "lost"
      /\ NoTimers
  BY <1>a, <1>b DEF RestartSettled
<1>d. ASSUME NEW c, Taken(c) PROVE c.op = "stop"
  <2>1. PICK i \in 1 .. Len(queue) - 1 : queue'[i].op = "restart"
    BY <1>a, <1>d, QueueElements DEF Queued, Taken
  <2>2. i + 1 \in 1 .. Len(queue) /\ queue[i + 1].op = "restart" /\ 1 \in 1 .. Len(queue) /\ 1 < i + 1
    BY <1>a, <1>d, <2>1, QueueElements DEF Taken
  <2> QED BY <1>d, <2>2 DEF RestartFirst, Ops, Pos, Taken
<1>1. CASE Start
  BY <1>1, <1>a, <1>b, <1>c, <1>d, BeginTakes, ClearedRetryType, SupersededRecord,
     TypeParts
     DEF Start, RestartSettled, NoTimers, Authorized, Shape, Attempts,
         RestartBehindPolicy, StartBehindLaunch, CrashBehindCommand, QuietRaces
<1>2. CASE Stop
  <2>1. attempt' = Superseded /\ UNCHANGED <<running, step>> /\ ClearTimers
    BY <1>2 DEF Stop, Supersede
  <2>2. NoTimers'
    BY <1>a, <1>c, <2>1, ClearedTimers, TypeParts
  <2> QED BY <1>c, <2>1, <2>2, SupersededRecord, TypeParts DEF Authorized
<1>3. CASE Kill
  <2>1. attempt' \in {attempt, Superseded} /\ UNCHANGED <<running, step>>
    BY <1>3 DEF Kill
  <2>2. NoTimers'
    BY <1>3, <1>c, ClearedTimers, TypeParts DEF Kill, NoTimers
  <2> QED BY <1>c, <2>1, <2>2, SupersededRecord, TypeParts DEF Authorized
<1>4. CASE Restart
  BY <1>4 DEF Restart, RestartSettled
<1>5. CASE Dispose
  BY <1>5 DEF Dispose, RestartSettled
<1>6. CASE \E op \in {"replace_stop", "replace_switch"} : Replace(op)
  BY <1>6, <1>a, <1>b, <1>c, <1>d, BeginTakes, ClearedRetryType, SupersededRecord,
     TypeParts
     DEF Replace, RestartSettled, NoTimers, Authorized, Shape, Attempts,
         RestartBehindPolicy, StartBehindLaunch, CrashBehindCommand, QuietRaces
<1>7. CASE \E c \in {"start", "backoff", "cooldown"} : BeginLaunch(c)
  BY <1>7, <1>a, <1>b, <1>c, <1>d, BeginTakes, ClearedRetryType, SupersededRecord,
     TypeParts
    
        DEF Begin, RunAttempt, End, KeepWaiting, BeginLaunch, Launch, RestartSettled,
         NoTimers, Authorized, Shape, Attempts, RestartBehindPolicy,
         StartBehindLaunch, CrashBehindCommand, QuietRaces
<1>8. CASE \E op \in {"stop", "dispose"} : Shutdown(op)
  <2>1. Shutdown("stop")
    BY <1>8, <1>d, BeginTakes, <1>a DEF Shutdown, Plain
  <2>2. running' = Plain("stop") /\ Plain("stop").op = "stop" /\ ClearTimers
        /\ step' \in {"retiring", "ended"}
    BY <2>1 DEF Shutdown, Begin, Plain, End, Retire
  <2>3. NoTimers'
    BY <1>a, <1>c, <2>2, ClearedTimers, TypeParts
  <2> QED BY <2>2, <2>3 DEF Authorized
<1>9. CASE BeginRestart
  BY <1>9, <1>a, <1>b, <1>c, <1>d, BeginTakes, ClearedRetryType, SupersededRecord,
     TypeParts
     DEF Begin, RunAttempt, End, KeepWaiting, BeginRestart, Retire, Plain,
         RestartSettled, NoTimers, Authorized, Shape, Attempts,
         RestartBehindPolicy, StartBehindLaunch, CrashBehindCommand, QuietRaces
<1>10. CASE \E op \in {"replace_stop", "replace_switch"} : ReplaceRejected(op)
  BY <1>10, <1>a, <1>b, <1>c, <1>d, BeginTakes, ClearedRetryType, SupersededRecord,
     TypeParts
    
        DEF Begin, End, ReplaceRejected, Plain, RestartSettled, NoTimers, Authorized,
         Shape, Attempts, RestartBehindPolicy, StartBehindLaunch,
         CrashBehindCommand, QuietRaces
<1>11. CASE BeginReplaceStop
  BY <1>11, <1>a, <1>b, <1>c, <1>d, BeginTakes, ClearedRetryType, SupersededRecord,
     TypeParts
     DEF Begin, BeginReplaceStop, Retire, Plain, RestartSettled, NoTimers,
         Authorized, Shape, Attempts, RestartBehindPolicy, StartBehindLaunch,
         CrashBehindCommand, QuietRaces
<1>12. CASE BeginReplaceSwitch
  BY <1>12, <1>a, <1>b, <1>c, <1>d, BeginTakes, ClearedRetryType, SupersededRecord,
     TypeParts
     DEF Begin, End, BeginReplaceSwitch, Plain, RestartSettled, NoTimers,
         Authorized, Shape, Attempts, RestartBehindPolicy, StartBehindLaunch,
         CrashBehindCommand, QuietRaces
<1>13. CASE \E s \in Slot, op \in {"unhealthy", "failed"} : BeginUnitFailed(op, s)
  BY <1>13, <1>a, <1>b, <1>c, <1>d, BeginTakes, ClearedRetryType, SupersededRecord,
     TypeParts
     DEF Begin, End, BeginUnitFailed, Retire, UnitCommand, RestartSettled,
         NoTimers, Authorized, Shape, Attempts, RestartBehindPolicy,
         StartBehindLaunch, CrashBehindCommand, QuietRaces
<1>14. CASE StopRetired
  BY <1>14, <1>a, <1>b, <1>c, <1>d, BeginTakes, ClearedRetryType, SupersededRecord,
     TypeParts
     DEF Retiring, End, KeepWaiting, StopRetired, RestartSettled, NoTimers,
         Authorized, Shape, Attempts, RestartBehindPolicy, StartBehindLaunch,
         CrashBehindCommand, QuietRaces
<1>15. CASE DisposeRetired
  BY <1>15 DEF Retiring, DisposeRetired, RestartSettled
<1>16. CASE RestartRetired
  BY <1>16, <1>a, <1>b, <1>c, <1>d, BeginTakes, ClearedRetryType, SupersededRecord,
     TypeParts
     DEF Retiring, RestartRetired, RestartSettled, NoTimers, Authorized, Shape,
         Attempts, RestartBehindPolicy, StartBehindLaunch, CrashBehindCommand,
         QuietRaces
<1>17. CASE ReplaceStopRetired
  BY <1>17, <1>a, <1>b, <1>c, <1>d, BeginTakes, ClearedRetryType, SupersededRecord,
     TypeParts
    
        DEF Retiring, ReplaceStopRetired, RestartSettled, NoTimers, Authorized, Shape,
         Attempts, RestartBehindPolicy, StartBehindLaunch, CrashBehindCommand,
         QuietRaces
<1>18. CASE \E op \in {"unhealthy", "failed"} : UnitFailedRetired(op)
  BY <1>18, <1>a, <1>b, <1>c, <1>d, BeginTakes, ClearedRetryType, SupersededRecord,
     TypeParts
    
        DEF Retiring, UnitFailedRetired, RestartSettled, NoTimers, Authorized, Shape,
         Attempts, RestartBehindPolicy, StartBehindLaunch, CrashBehindCommand,
         QuietRaces
<1>19. CASE PreviousRetired
  BY <1>19, <1>a, <1>b, <1>c, <1>d, BeginTakes, ClearedRetryType, SupersededRecord,
     TypeParts
    
        DEF PreviousRetired, RestartSettled, NoTimers, Authorized, Shape, Attempts,
         RestartBehindPolicy, StartBehindLaunch, CrashBehindCommand, QuietRaces
<1>20. CASE \E s \in Slot : BudgetGrants(s)
  BY <1>20, <1>a, <1>b, <1>c, <1>d, BeginTakes, ClearedRetryType, SupersededRecord,
     TypeParts
     DEF Attempting, BudgetGrants, RestartSettled, NoTimers, Authorized, Shape,
         Attempts, RestartBehindPolicy, StartBehindLaunch, CrashBehindCommand,
         QuietRaces
<1>21. CASE BudgetRejects
  BY <1>21, <1>a, <1>b, <1>c, <1>d, BeginTakes, ClearedRetryType, SupersededRecord,
     TypeParts
    
        DEF Attempting, EndAttempt, End, OnFailure, OneMoreFailure, Decide, Exhausted,
         EnterTerminal, ScheduleBackoff, NoDecision, ClearedRetry, OldUnitPolicy,
         BudgetRejects, RestartSettled, NoTimers, Authorized, Shape, Attempts,
         RestartBehindPolicy, StartBehindLaunch, CrashBehindCommand, QuietRaces
<1>22. CASE AttemptReady
  BY <1>22, <1>a, <1>b, <1>c, <1>d, BeginTakes, ClearedRetryType, SupersededRecord,
     TypeParts
     DEF Attempting, AttemptReady, Promote, RestartSettled, NoTimers, Authorized, Shape,
         Attempts, RestartBehindPolicy, StartBehindLaunch, CrashBehindCommand,
         QuietRaces
<1>22r. CASE ReplaceReturns
  BY <1>22r, <1>a, <1>b, <1>c, <1>d, BeginTakes, ClearedRetryType, SupersededRecord,
     TypeParts
     DEF Attempting, ReplaceReturns, End, RestartSettled, NoTimers, Authorized, Shape,
         Attempts, RestartBehindPolicy, StartBehindLaunch, CrashBehindCommand,
         QuietRaces
<1>23. CASE Switch
  BY <1>23, <1>a, <1>b, <1>c, <1>d, BeginTakes, ClearedRetryType, SupersededRecord,
     TypeParts
    
        DEF Attempting, Switch, RestartSettled, NoTimers, Authorized, Shape, Attempts,
         RestartBehindPolicy, StartBehindLaunch, CrashBehindCommand, QuietRaces
<1>24. CASE AttemptFails
  BY <1>24, <1>a, <1>b, <1>c, <1>d, BeginTakes, ClearedRetryType, SupersededRecord,
     TypeParts
    
        DEF Attempting, AttemptFails, RollBack, RestartSettled, NoTimers, Authorized,
         Shape, Attempts, RestartBehindPolicy, StartBehindLaunch,
         CrashBehindCommand, QuietRaces
<1>25. CASE StartupTimeout
  BY <1>25, <1>a, <1>b, <1>c, <1>d, BeginTakes, ClearedRetryType, SupersededRecord,
     TypeParts
    
        DEF Attempting, StartupTimeout, RestartSettled, NoTimers, Authorized, Shape,
         Attempts, RestartBehindPolicy, StartBehindLaunch, CrashBehindCommand,
         QuietRaces
<1>26. CASE RolledBack
  BY <1>26, <1>a, <1>b, <1>c, <1>d, BeginTakes, ClearedRetryType, SupersededRecord,
     TypeParts
    
        DEF Attempting, EndAttempt, End, OnFailure, OneMoreFailure, Decide, Exhausted,
         EnterTerminal, ScheduleBackoff, NoDecision, ClearedRetry, OldUnitPolicy,
         RolledBack, OwnsFailure, RestartSettled, NoTimers, Authorized, Shape,
         Attempts, RestartBehindPolicy, StartBehindLaunch, CrashBehindCommand,
         QuietRaces
<1>27. CASE QueueIdles
  <2> QED BY <1>27, <1>b DEF QueueIdles, Queued
<1>28. CASE \E s \in Slot : LaunchResolves(s) \/ LaunchRejects(s)
  BY <1>28, <1>a, <1>b, <1>c, <1>d, BeginTakes, ClearedRetryType, SupersededRecord,
     TypeParts
     DEF Happens, LaunchResolves, LaunchRejects, RestartSettled, NoTimers,
         Authorized, Shape, Attempts, RestartBehindPolicy, StartBehindLaunch,
         CrashBehindCommand, QuietRaces
<1>29. CASE \E s \in Slot : RetiredExits(s)
  BY <1>29, <1>a, <1>b, <1>c, <1>d, BeginTakes, ClearedRetryType, SupersededRecord,
     TypeParts
    
        DEF Happens, RetiredExits, Exits, RestartSettled, NoTimers, Authorized, Shape,
         Attempts, RestartBehindPolicy, StartBehindLaunch, CrashBehindCommand,
         QuietRaces
<1>30. CASE \E s \in Slot : CandidateExits(s)
  BY <1>30, <1>a, <1>b, <1>c, <1>d, BeginTakes, ClearedRetryType, SupersededRecord,
     TypeParts
     DEF Happens, CandidateExits, Exits, RestartSettled, NoTimers, Authorized,
         Shape, Attempts, RestartBehindPolicy, StartBehindLaunch,
         CrashBehindCommand, QuietRaces
<1>31. CASE \E s \in Slot, clean \in BOOLEAN : ActiveExits(s, clean)
  BY <1>31, <1>a, <1>b, <1>c, <1>d, BeginTakes, ClearedRetryType, SupersededRecord,
     TypeParts
     DEF Happens, ActiveExits, RestartSettled, NoTimers, Authorized, Shape,
         Attempts, RestartBehindPolicy, StartBehindLaunch, CrashBehindCommand,
         QuietRaces
<1>32. CASE \E s \in Slot, op \in {"unhealthy", "failed"} : Fails(s, op)
  BY <1>32, <1>a, <1>b, <1>c, <1>d, BeginTakes, ClearedRetryType, SupersededRecord,
     TypeParts
     DEF Happens, Fails, RestartSettled, NoTimers, Authorized, Shape, Attempts,
         RestartBehindPolicy, StartBehindLaunch, CrashBehindCommand, QuietRaces
<1>33. CASE \E s \in Slot : Abandon(s)
  BY <1>33, <1>a, <1>b, <1>c, <1>d, BeginTakes, ClearedRetryType, SupersededRecord,
     TypeParts
    
        DEF Happens, Abandon, RestartSettled, NoTimers, Authorized, Shape, Attempts,
         RestartBehindPolicy, StartBehindLaunch, CrashBehindCommand, QuietRaces
<1>34. CASE FailureExpires
  BY <1>34, <1>a, <1>b, <1>c, <1>d, BeginTakes, ClearedRetryType, SupersededRecord,
     TypeParts
     DEF Happens, FailureExpires, RestartSettled, NoTimers, Authorized, Shape,
         Attempts, RestartBehindPolicy, StartBehindLaunch, CrashBehindCommand,
         QuietRaces
<1>35. CASE BackoffFires
  BY <1>35, <1>a, <1>b, <1>c, <1>d, BeginTakes, ClearedRetryType, SupersededRecord,
     TypeParts
     DEF Happens, BackoffFires, RestartSettled, NoTimers, Authorized, Shape,
         Attempts, RestartBehindPolicy, StartBehindLaunch, CrashBehindCommand,
         QuietRaces
<1>36. CASE CooldownFires
  BY <1>36, <1>a, <1>b, <1>c, <1>d, BeginTakes, ClearedRetryType, SupersededRecord,
     TypeParts
     DEF Happens, CooldownFires, RestartSettled, NoTimers, Authorized, Shape,
         Attempts, RestartBehindPolicy, StartBehindLaunch, CrashBehindCommand,
         QuietRaces
<1>37. CASE UNCHANGED vars
  BY <1>37, <1>a, <1>b, <1>c, <1>d, BeginTakes, ClearedRetryType, SupersededRecord,
     TypeParts
     DEF vars, RestartSettled, NoTimers, Authorized, Shape, Attempts,
         RestartBehindPolicy, StartBehindLaunch, CrashBehindCommand, QuietRaces
<1> QED BY <1>1, <1>2, <1>3, <1>4, <1>5, <1>6, <1>7, <1>8, <1>9, <1>10, <1>11,
           <1>12, <1>13, <1>14, <1>15, <1>16, <1>17, <1>18, <1>19, <1>20, <1>21,
           <1>22, <1>22r, <1>23, <1>24, <1>25, <1>26, <1>27, <1>28, <1>29, <1>30, <1>31,
           <1>32, <1>33, <1>34, <1>35, <1>36, <1>37
           DEF Next, Progress, Deadline

(* ...and restart() settles it: this is where a late retry must be left out. *)
LEMMA RestartSettles ==
    ASSUME TypeOK, Shape, Disposing, Timers, QuietRaces, Restart
    PROVE  /\ running'.op \notin {"replace_switch", "unhealthy", "failed"}
           /\ step' = "retiring" => running'.op = "stop"
           /\ Authorized' => attempt'.authority = "lost"
           /\ NoTimers'
<1>1. /\ lifecycle = "open" /\ ClearTimers /\ attempt' = Superseded
      /\ ~RestartBehindPolicy /\ UNCHANGED <<running, step>>
  BY DEF Restart, Supersede, QuietRaces
<1>2. NoTimers'
  BY <1>1, ClearedTimers, TypeParts
<1>3. step = "retiring" => running.op = "stop"
  BY <1>1 DEF RestartBehindPolicy, Shape, Retirers, Disposing, Pending
<1>4. Authorized' => attempt'.authority = "lost"
  BY <1>1, SupersededRecord, TypeParts DEF Authorized
<1> QED BY <1>1, <1>2, <1>3, <1>4 DEF RestartBehindPolicy

(* Together they keep RestartSettled.                                        *)
LEMMA RestartSettledStep ==
    ASSUME TypeOK, Shape, Accounted, StateFits, Disposing, RestartFirst,
           RestartSettled, Timers,
           QuietRaces, [Next]_vars
    PROVE  RestartSettled'
<1>1. CASE Restart
  BY <1>1, RestartSettles DEF RestartSettled
<1>2. CASE ~Restart
  BY <1>2, RestartStaysSettled DEF RestartSettled
<1> QED BY <1>1, <1>2

(* A step keeps one launch at most: start() and the timers add none to       *)
(* another.                                                                  *)
LEMMA LaunchOnceStep ==
    ASSUME TypeOK, RestartSettled, LaunchOnce, LaunchSettled, QuietRaces,
           [Next]_vars
    PROVE  LaunchOnce'
<1> SUFFICES ASSUME lifecycle' = "open" PROVE LaunchOnce'
  BY DEF LaunchOnce
<1>a. QueueType /\ lifecycle = "open"
  BY TypeParts, LifecycleOnward
<1>1. CASE UNCHANGED queue
  BY <1>a, <1>1 DEF LaunchOnce, Ops, Pos
<1>2. ASSUME NEW c \in Command, Taken(c) PROVE LaunchOnce'
  <2>1. \A i \in 1 .. Len(queue') : i + 1 \in 1 .. Len(queue) /\ queue'[i] = queue[i + 1]
    BY <1>a, <1>2, QueueElements DEF Taken
  <2>2. Len(queue') \in Nat
    BY <1>a, <1>2, QueueElements DEF Taken
  <2>3. ASSUME NEW i \in 1 .. Len(queue'), NEW j \in 1 .. Len(queue'),
               queue'[i].op = "launch", queue'[j].op = "launch"
        PROVE  i = j
    BY <1>a, <2>1, <2>2, <2>3 DEF LaunchOnce, Ops, Pos
  <2>4. ASSUME NEW i \in 1 .. Len(queue'), NEW j \in 1 .. Len(queue'),
               queue'[i].op = "launch", j < i
        PROVE  queue'[j].op # "restart"
    BY <1>a, <2>1, <2>2, <2>4 DEF LaunchOnce, Ops, Pos
  <2> QED BY <2>3, <2>4 DEF LaunchOnce, Ops, Pos
<1>3. ASSUME NEW c \in Command, Appended(c), Called(c) PROVE LaunchOnce'
  <2>1. CASE c.op # "launch"
    BY <1>a, <1>3, <2>1, QueueElements DEF LaunchOnce, Ops, Pos, Appended
  <2>2. CASE c.op = "launch"
    <3>1. ~Queued({"launch"}) /\ ~Queued({"restart"})
      <4>1. CASE Start
        BY <4>1
           DEF Start, StartPending, StartBehindLaunch, QuietRaces, Pending, Queued
      <4>2. CASE BackoffFires \/ CooldownFires
        BY <1>a, <4>2
           DEF BackoffFires, CooldownFires, RestartSettled, LaunchSettled, NoTimers
      <4> QED BY <1>3, <2>2, <4>1, <4>2 DEF Called
    <3>2. \A i \in 1 .. Len(queue) : queue[i].op # "launch" /\ queue[i].op # "restart"
      BY <3>1 DEF Queued
    <3> QED BY <1>a, <1>3, <2>2, <3>2, QueueElements
               DEF LaunchOnce, Ops, Pos, Appended
  <2> QED BY <2>1, <2>2
<1>5. \/ UNCHANGED queue
      \/ \E c \in Command : Taken(c)
      \/ \E c \in Command : Appended(c) /\ Called(c)
  BY <1>a, QueueChange
<1> QED BY <1>1, <1>2, <1>3, <1>5

(* The three steps that queue a launch find the supervisor settled.          *)
LEMMA LaunchSettles ==
    ASSUME TypeOK, Shape, StateFits, Disposing, Timers, QuietRaces, lifecycle =
           "open",
           Start \/ (BackoffFires /\ state = "backoff") \/ (CooldownFires /\ state = "terminal")
    PROVE  /\ \/ step \in {"idle", "ended", "previous", "promoted"} /\ active = None
              \/ step = "retiring" /\ running.op = "stop"
           /\ NoTimers'
           /\ UNCHANGED <<step, active, running>>
<1>1. CASE Start
  <2>1. state \notin {"backoff", "terminal", "queued", "starting"}
    BY <1>1 DEF Start, JoinsRetry
  <2>2. ~(active = None /\ running.op = "replace_switch") /\ ~(state = "ready" /\ active # None)
        /\ UNCHANGED <<step, active, running, timers>>
    BY <1>1 DEF Start, StartBehindLaunch, QuietRaces
  <2>3. NoTimers'
    BY <2>1, <2>2, TypeParts DEF Timers, NoTimers, PolicyType, RetryType
  <2>4. running.op # "dispose"
    BY DEF Disposing, Pending
  <2>5. step \notin Attempts
    BY <2>1, <2>2 DEF StateFits, Shape
  <2>6. active # None => step = "retiring" /\ running.op = "stop"
    BY <2>2, <2>4 DEF StateFits, Enders
  <2>7. step = "retiring" => active # None
    BY DEF Shape
  <2> QED BY <2>2, <2>3, <2>5, <2>6, <2>7 DEF TypeOK, Attempts
<1>2. CASE (BackoffFires /\ state = "backoff") \/ (CooldownFires /\ state = "terminal")
  <2>1. active = None /\ step \notin Attempts
    BY <1>2, TypeParts DEF StateFits, AttemptType, AttemptSet
  <2>2. step # "retiring"
    BY <2>1 DEF Shape
  <2>3. UNCHANGED <<step, active, running>>
    BY <1>2 DEF BackoffFires, CooldownFires, Happens
  <2>4. NoTimers'
    BY <1>2, TypeParts
       DEF BackoffFires, CooldownFires, Timers, NoTimers, PolicyType, RetryType
  <2> QED BY <2>1, <2>2, <2>3, <2>4 DEF TypeOK, Attempts
<1> QED BY <1>1, <1>2

(* While a launch waits, the command that is taken first is a stop or a      *)
(* report.                                                                   *)
LEMMA BehindLaunch ==
    ASSUME TypeOK, Disposing, LaunchOnce, LaunchSettled, [Next]_vars,
           ~Start, ~(BackoffFires /\ state = "backoff"), ~(CooldownFires /\ state = "terminal"),
           lifecycle' = "open", Queued({"launch"})'
    PROVE  /\ lifecycle = "open" /\ Queued({"launch"})
           /\ \/ step \in {"idle", "ended", "previous", "promoted"} /\ active = None
              \/ step = "retiring" /\ running.op = "stop"
           /\ NoTimers
           /\ \A c \in Command : Taken(c) => c.op \notin {"launch", "restart", "dispose"}
<1>1. QueueType /\ lifecycle = "open"
  BY LifecycleOnward, TypeParts
<1>2. Queued({"launch"})
  <2>1. CASE UNCHANGED queue
    BY <2>1, QueuedSame
  <2>2. ASSUME NEW c, Taken(c) PROVE Queued({"launch"})
    BY <1>1, <2>2, QueuedTaken
  <2>3. ASSUME NEW c, Appended(c), Called(c) PROVE Queued({"launch"})
    <3>1. c.op = "launch" => Queued({"launch"})
      <4>1. ASSUME c = Launch("backoff"), BackoffFires PROVE state = "backoff"
        BY <1>1, <2>3, <4>1, QueueMoves DEF Appended
      <4>2. ASSUME c = Launch("cooldown"), CooldownFires
            PROVE  state = "terminal"
        BY <1>1, <2>3, <4>2, QueueMoves DEF Appended
      <4> QED BY <2>3, <4>1, <4>2 DEF Called
    <3> QED BY <1>1, <2>3, <3>1, QueuedAppended
  <2>4. \/ UNCHANGED queue
        \/ \E c \in Command : Taken(c)
        \/ \E c \in Command : Appended(c) /\ Called(c)
    BY <1>1, QueueChange
  <2> QED BY <2>1, <2>2, <2>3, <2>4
<1>3. ASSUME NEW c \in Command, Taken(c)
      PROVE  c.op \notin {"launch", "restart", "dispose"}
  <2>1. PICK i \in 1 .. Len(queue) - 1 : queue'[i].op = "launch"
    BY <1>1, <1>3, QueueElements DEF Queued, Taken
  <2>2. i + 1 \in 1 .. Len(queue) /\ queue[i + 1].op = "launch" /\ 1 \in 1 .. Len(queue) /\ 1 < i + 1
    BY <1>1, <1>3, <2>1, QueueElements DEF Taken
  <2>3. c.op \notin {"launch", "restart"}
    BY <1>1, <1>3, <2>2 DEF LaunchOnce, Ops, Pos, Taken
  <2>4. c.op # "dispose"
    BY <1>1, <1>3, TakenIsQueued DEF Disposing, Pending
  <2> QED BY <2>3, <2>4
<1> QED BY <1>1, <1>2, <1>3 DEF LaunchSettled

(* Every other step keeps it settled.                                        *)
LEMMA LaunchStaysSettled ==
    ASSUME TypeOK, Shape, Accounted, Reported, StateFits, Disposing,
           LaunchOnce, LaunchSettled, Timers,
           ~Start, ~(BackoffFires /\ state = "backoff"), ~(CooldownFires /\ state = "terminal"),
           lifecycle' = "open", Queued({"launch"})', [Next]_vars
    PROVE  /\ \/ step' \in {"idle", "ended", "previous", "promoted"} /\ active' = None
              \/ step' = "retiring" /\ running'.op = "stop"
           /\ NoTimers'
<1>a. /\ lifecycle = "open" /\ Queued({"launch"})
      /\ \/ step \in {"idle", "ended", "previous", "promoted"} /\ active = None
         \/ step = "retiring" /\ running.op = "stop"
      /\ NoTimers
      /\ \A c \in Command : Taken(c) => c.op \notin {"launch", "restart", "dispose"}
  BY BehindLaunch
<1>1. CASE Start
  BY <1>1 DEF Start, NoTimers
<1>2. CASE Stop
  <2>1. ClearTimers /\ UNCHANGED <<step, active, running>>
    BY <1>2 DEF Stop, Supersede
  <2>2. NoTimers'
    BY <1>a, <2>1, ClearedTimers, TypeParts
  <2> QED BY <1>a, <2>1, <2>2
<1>3. CASE Kill
  <2>1. (ClearTimers \/ UNCHANGED timers) /\ UNCHANGED <<step, active, running>>
    BY <1>3 DEF Kill
  <2>2. NoTimers'
    BY <1>a, <2>1, ClearedTimers, TypeParts DEF NoTimers
  <2> QED BY <1>a, <2>1, <2>2
<1>4. CASE Restart
  <2>1. ClearTimers /\ UNCHANGED <<step, active, running>>
    BY <1>4 DEF Restart, Supersede
  <2>2. NoTimers'
    BY <1>a, <2>1, ClearedTimers, TypeParts
  <2> QED BY <1>a, <2>1, <2>2
<1>5. CASE Dispose
  BY <1>5 DEF Dispose, NoTimers
<1>6. CASE \E op \in {"replace_stop", "replace_switch"} : Replace(op)
  BY <1>6, <1>a, BeginTakes, CommandTypes, TypeParts
     DEF Replace, NoTimers, Shape, Attempts
<1>7. CASE \E c \in {"start", "backoff", "cooldown"} : BeginLaunch(c)
  <2> QED BY <1>7, <1>a, CommandTypes, BeginTakes, TypeParts
             DEF BeginLaunch, Launch, Causes
<1>8. CASE \E op \in {"stop", "dispose"} : Shutdown(op)
  <2>1. PICK op \in {"stop", "dispose"} : Shutdown(op)
    BY <1>8
  <2>2. Taken(Plain(op)) /\ Plain(op).op = op /\ ClearTimers
    BY <2>1, BeginTakes, TypeParts DEF Shutdown, Plain
  <2>3. active = None
    BY <1>a, <2>2 DEF Taken
  <2>4. step' = "ended" /\ active' = None
    BY <2>1, <2>3 DEF Shutdown, End
  <2>5. NoTimers'
    BY <1>a, <2>2, ClearedTimers, TypeParts
  <2> QED BY <2>4, <2>5
<1>9. CASE BeginRestart
  <2> QED BY <1>9, <1>a, CommandTypes, BeginTakes, TypeParts
             DEF BeginRestart, Plain, Commands
<1>10. CASE \E op \in {"replace_stop", "replace_switch"} : ReplaceRejected(op)
  BY <1>10, <1>a, BeginTakes, CommandTypes, TypeParts
     DEF Begin, End, ReplaceRejected, Plain, NoTimers, Shape, Attempts
<1>11. CASE BeginReplaceStop
  BY <1>11, <1>a, BeginTakes, CommandTypes, TypeParts
     DEF Begin, BeginReplaceStop, NoTimers, Shape, Attempts
<1>12. CASE BeginReplaceSwitch
  BY <1>12, <1>a, BeginTakes, CommandTypes, TypeParts
     DEF Begin, BeginReplaceSwitch, NoTimers, Shape, Attempts
<1>13. CASE \E s \in Slot, op \in {"unhealthy", "failed"} : BeginUnitFailed(op, s)
  <2>1. PICK s \in Slot, op \in {"unhealthy", "failed"} : BeginUnitFailed(op, s)
    BY <1>13
  <2>2. Taken(UnitCommand(op, s)) /\ UnitCommand(op, s).op = op /\ UnitCommand(op, s).slot = s
    BY <2>1, BeginTakes, TypeParts DEF BeginUnitFailed, UnitCommand
  <2>3. unit[s] # "none"
    BY <2>2, TakenIsQueued, TypeParts DEF Reported
  <2>4. active = None /\ candidate = None
    BY <1>a, <2>2 DEF Taken, Shape
  <2>5. s \in retired
    BY <2>3, <2>4, Constants DEF Accounted
  <2> QED BY <1>a, <2>1, <2>4, <2>5 DEF BeginUnitFailed, End, NoTimers
<1>14. CASE StopRetired
  BY <1>14, <1>a, BeginTakes, CommandTypes, TypeParts
     DEF Retiring, End, KeepWaiting, StopRetired, NoTimers, Shape, Attempts
<1>15. CASE DisposeRetired
  BY <1>15 DEF Retiring, DisposeRetired, NoTimers
<1>16. CASE RestartRetired
  BY <1>16, <1>a, BeginTakes, CommandTypes, TypeParts
     DEF Retiring, RestartRetired, NoTimers, Shape, Attempts
<1>17. CASE ReplaceStopRetired
  BY <1>17, <1>a, BeginTakes, CommandTypes, TypeParts
     DEF Retiring, ReplaceStopRetired, NoTimers, Shape, Attempts
<1>18. CASE \E op \in {"unhealthy", "failed"} : UnitFailedRetired(op)
  BY <1>18, <1>a, BeginTakes, CommandTypes, TypeParts
     DEF Retiring, UnitFailedRetired, NoTimers, Shape, Attempts
<1>19. CASE PreviousRetired
  BY <1>19, <1>a, BeginTakes, CommandTypes, TypeParts
     DEF PreviousRetired, End, NoTimers, Shape, Attempts
<1>20. CASE \E s \in Slot : BudgetGrants(s)
  BY <1>20, <1>a, BeginTakes, CommandTypes, TypeParts
     DEF Attempting, BudgetGrants, NoTimers, Shape, Attempts
<1>21. CASE BudgetRejects
  BY <1>21, <1>a, BeginTakes, CommandTypes, TypeParts
     DEF Attempting, BudgetRejects, NoTimers, Shape, Attempts
<1>22. CASE AttemptReady
  BY <1>22, <1>a, BeginTakes, CommandTypes, TypeParts
     DEF Attempting, AttemptReady, Promote, NoTimers, Shape, Attempts
<1>22r. CASE ReplaceReturns
  BY <1>22r, <1>a, BeginTakes, CommandTypes, TypeParts
     DEF Attempting, ReplaceReturns, End, NoTimers, Shape, Attempts
<1>23. CASE Switch
  BY <1>23, <1>a, BeginTakes, CommandTypes, TypeParts
     DEF Attempting, Switch, NoTimers, Shape, Attempts
<1>24. CASE AttemptFails
  BY <1>24, <1>a, BeginTakes, CommandTypes, TypeParts
     DEF Attempting, AttemptFails, NoTimers, Shape, Attempts
<1>25. CASE StartupTimeout
  BY <1>25, <1>a, BeginTakes, CommandTypes, TypeParts
     DEF Attempting, StartupTimeout, NoTimers, Shape, Attempts
<1>26. CASE RolledBack
  BY <1>26, <1>a, BeginTakes, CommandTypes, TypeParts
     DEF Attempting, RolledBack, NoTimers, Shape, Attempts
<1>27. CASE QueueIdles
  BY <1>27, <1>a, BeginTakes, CommandTypes, TypeParts
     DEF QueueIdles, NoTimers, Shape, Attempts
<1>28. CASE \E s \in Slot : LaunchResolves(s) \/ LaunchRejects(s)
  BY <1>28, <1>a, BeginTakes, CommandTypes, TypeParts
     DEF Happens, LaunchResolves, LaunchRejects, NoTimers, Shape, Attempts
<1>29. CASE \E s \in Slot : RetiredExits(s)
  BY <1>29, <1>a, BeginTakes, CommandTypes, TypeParts
     DEF Happens, RetiredExits, Exits, NoTimers, Shape, Attempts
<1>30. CASE \E s \in Slot : CandidateExits(s)
  BY <1>30, <1>a, BeginTakes, CommandTypes, TypeParts
     DEF Happens, CandidateExits, Exits, NoTimers, Shape, Attempts
<1>31. CASE \E s \in Slot, clean \in BOOLEAN : ActiveExits(s, clean)
  BY <1>31, <1>a, BeginTakes, CommandTypes, TypeParts
     DEF Happens, ActiveExits, NoTimers, Shape, Attempts
<1>32. CASE \E s \in Slot, op \in {"unhealthy", "failed"} : Fails(s, op)
  BY <1>32, <1>a, BeginTakes, CommandTypes, TypeParts
     DEF Happens, Fails, NoTimers, Shape, Attempts
<1>33. CASE \E s \in Slot : Abandon(s)
  BY <1>33, <1>a, BeginTakes, CommandTypes, TypeParts
     DEF Happens, Abandon, NoTimers, Shape, Attempts
<1>34. CASE FailureExpires
  BY <1>34, <1>a, BeginTakes, CommandTypes, TypeParts
     DEF Happens, FailureExpires, NoTimers, Shape, Attempts
<1>35. CASE BackoffFires
  BY <1>35, <1>a, BeginTakes, CommandTypes, TypeParts
     DEF Happens, BackoffFires, NoTimers, Shape, Attempts
<1>36. CASE CooldownFires
  BY <1>36, <1>a, BeginTakes, CommandTypes, TypeParts
     DEF Happens, CooldownFires, NoTimers, Shape, Attempts
<1>37. CASE UNCHANGED vars
  BY <1>37, <1>a, BeginTakes, CommandTypes, TypeParts
     DEF vars, NoTimers, Shape, Attempts
<1> QED BY <1>1, <1>2, <1>3, <1>4, <1>5, <1>6, <1>7, <1>8, <1>9, <1>10, <1>11,
           <1>12, <1>13, <1>14, <1>15, <1>16, <1>17, <1>18, <1>19, <1>20, <1>21,
           <1>22, <1>22r, <1>23, <1>24, <1>25, <1>26, <1>27, <1>28, <1>29, <1>30, <1>31,
           <1>32, <1>33, <1>34, <1>35, <1>36, <1>37
           DEF Next, Progress, Deadline

(* A step keeps timers cleared behind a stop that waits for a replacement.   *)
LEMMA StopBehindSwitchStep ==
    ASSUME TypeOK, Shape, Accounted, StateFits, Disposing, Timers,
           StopBehindSwitch, QuietRaces, [Next]_vars
    PROVE  StopBehindSwitch'
<1>1. CASE Start
  <2>1. UNCHANGED <<step, timers>> /\ (lifecycle' = "open" => lifecycle = "open")
    BY <1>1 DEF Start, Happens
  <2>2. Queued({"stop"})' => Queued({"stop"})
    BY <1>1, QueueMoves, QueuedAppended, QueuedSame, TypeParts DEF Launch
  <2> QED BY <2>1, <2>2 DEF StopBehindSwitch, NoTimers
<1>2. CASE Stop
  BY <1>2, TypeParts, QueueMoves, QueuedSame, QueuedAppended, ClearedTimers,
     ClearedRetryType, BusyWithoutTimers
     DEF Stop, StopBehindSwitch, NoTimers, Shape, Attempts, CrashBehindCommand,
         QuietRaces
<1>3. CASE Kill
  BY <1>3, TypeParts, QueueMoves, QueuedSame, QueuedAppended, ClearedTimers,
     ClearedRetryType, BusyWithoutTimers
     DEF Kill, StopBehindSwitch, NoTimers, Shape, Attempts, CrashBehindCommand,
         QuietRaces
<1>4. CASE Restart
  BY <1>4, TypeParts, QueueMoves, QueuedSame, QueuedAppended, ClearedTimers,
     ClearedRetryType, BusyWithoutTimers
    
        DEF Restart, StopBehindSwitch, NoTimers, Shape, Attempts, CrashBehindCommand,
         QuietRaces
<1>5. CASE Dispose
  BY <1>5 DEF Dispose, StopBehindSwitch
<1>6. CASE \E op \in {"replace_stop", "replace_switch"} : Replace(op)
  <2>1. UNCHANGED <<step, timers>> /\ (lifecycle' = "open" => lifecycle = "open")
    BY <1>6 DEF Replace, Happens
  <2>2. Queued({"stop"})' => Queued({"stop"})
    BY <1>6, QueueMoves, QueuedAppended, QueuedSame, TypeParts
       DEF Plain, Commands
  <2> QED BY <2>1, <2>2 DEF StopBehindSwitch, NoTimers
<1>7. CASE \E c \in {"start", "backoff", "cooldown"} : BeginLaunch(c)
  BY <1>7
     DEF Begin, RunAttempt, End, KeepWaiting, BeginLaunch, Launch,
         StopBehindSwitch, NoTimers, Shape, Attempts, CrashBehindCommand,
         QuietRaces
<1>8. CASE \E op \in {"stop", "dispose"} : Shutdown(op)
  BY <1>8
     DEF Begin, End, KeepWaiting, ClearTimers, ClearedRetry, Shutdown, Retire,
         Plain, StopBehindSwitch, NoTimers, Shape, Attempts, CrashBehindCommand,
         QuietRaces
<1>9. CASE BeginRestart
  BY <1>9
     DEF Begin, RunAttempt, End, KeepWaiting, BeginRestart, Retire, Plain,
         StopBehindSwitch, NoTimers, Shape, Attempts, CrashBehindCommand,
         QuietRaces
<1>10. CASE \E op \in {"replace_stop", "replace_switch"} : ReplaceRejected(op)
  BY <1>10
     DEF Begin, End, ReplaceRejected, Plain, StopBehindSwitch, NoTimers, Shape,
         Attempts, CrashBehindCommand, QuietRaces
<1>11. CASE BeginReplaceStop
  BY <1>11
    
        DEF Begin, BeginReplaceStop, Retire, Plain, StopBehindSwitch, NoTimers, Shape,
         Attempts, CrashBehindCommand, QuietRaces
<1>12. CASE BeginReplaceSwitch
  BY <1>12 DEF Begin, BeginReplaceSwitch, StopBehindSwitch
<1>13. CASE \E s \in Slot, op \in {"unhealthy", "failed"} : BeginUnitFailed(op, s)
  BY <1>13
     DEF Begin, End, BeginUnitFailed, Retire, UnitCommand, StopBehindSwitch,
         NoTimers, Shape, Attempts, CrashBehindCommand, QuietRaces
<1>14. CASE StopRetired
  BY <1>14
     DEF Retiring, End, KeepWaiting, StopRetired, StopBehindSwitch, NoTimers,
         Shape, Attempts, CrashBehindCommand, QuietRaces
<1>15. CASE DisposeRetired
  BY <1>15 DEF Retiring, DisposeRetired, StopBehindSwitch
<1>16. CASE RestartRetired
  BY <1>16
    
        DEF Retiring, RunAttempt, End, KeepWaiting, RestartRetired, StopBehindSwitch,
         NoTimers, Shape, Attempts, CrashBehindCommand, QuietRaces
<1>17. CASE ReplaceStopRetired
  BY <1>17
     DEF Retiring, RunAttempt, End, KeepWaiting, ReplaceStopRetired,
         StopBehindSwitch, NoTimers, Shape, Attempts, CrashBehindCommand,
         QuietRaces
<1>18. CASE \E op \in {"unhealthy", "failed"} : UnitFailedRetired(op)
  BY <1>18
    
        DEF Retiring, End, KeepWaiting, OnFailure, OneMoreFailure, Decide, Exhausted,
         EnterTerminal, ScheduleBackoff, NoDecision, ClearedRetry,
         UnitFailedRetired, StopBehindSwitch, NoTimers, Shape, Attempts,
         CrashBehindCommand, QuietRaces
<1>19. CASE PreviousRetired
  BY <1>19
     DEF PreviousRetired, End, StopBehindSwitch, NoTimers, Shape, Attempts,
         CrashBehindCommand, QuietRaces
<1>20. CASE \E s \in Slot : BudgetGrants(s)
  BY <1>20 DEF Attempting, BudgetGrants, StopBehindSwitch
<1>21. CASE BudgetRejects
  BY <1>21
    
        DEF Attempting, EndAttempt, End, OnFailure, OneMoreFailure, Decide, Exhausted,
         EnterTerminal, ScheduleBackoff, NoDecision, ClearedRetry, OldUnitPolicy,
         BudgetRejects, StopBehindSwitch, NoTimers, Shape, Attempts,
         CrashBehindCommand, QuietRaces
<1>22. CASE AttemptReady
  BY <1>22
    
        DEF Attempting, End, KeepWaiting, AttemptReady, Promote, StopBehindSwitch, NoTimers,
         Shape, Attempts, CrashBehindCommand, QuietRaces
<1>22r. CASE ReplaceReturns
  BY <1>22r
    
        DEF Attempting, End, ReplaceReturns, StopBehindSwitch, NoTimers,
         Shape, Attempts, CrashBehindCommand, QuietRaces
<1>23. CASE Switch
  BY <1>23, TypeParts, QueueMoves, QueuedSame, QueuedAppended, ClearedTimers,
     ClearedRetryType, BusyWithoutTimers
     DEF Attempting, Switch, StopBehindSwitch, NoTimers, Shape, Attempts,
         CrashBehindCommand, QuietRaces
<1>24. CASE AttemptFails
  BY <1>24
     DEF Attempting, AttemptFails, RollBack, StopBehindSwitch, NoTimers, Shape,
         Attempts, CrashBehindCommand, QuietRaces
<1>25. CASE StartupTimeout
  BY <1>25
    
        DEF Attempting, StartupTimeout, RollBack, StopBehindSwitch, NoTimers, Shape,
         Attempts, CrashBehindCommand, QuietRaces
<1>26. CASE RolledBack
  BY <1>26
    
        DEF Attempting, EndAttempt, End, OnFailure, OneMoreFailure, Decide, Exhausted,
         EnterTerminal, ScheduleBackoff, NoDecision, ClearedRetry, OldUnitPolicy,
         RolledBack, OwnsFailure, StopBehindSwitch, NoTimers, Shape, Attempts,
         CrashBehindCommand, QuietRaces
<1>27. CASE QueueIdles
  BY <1>27 DEF QueueIdles, StopBehindSwitch
<1>28. CASE \E s \in Slot : LaunchResolves(s) \/ LaunchRejects(s)
  BY <1>28, TypeParts, QueueMoves, QueuedSame, QueuedAppended, ClearedTimers,
     ClearedRetryType, BusyWithoutTimers
    
        DEF Happens, LaunchResolves, LaunchRejects, StopBehindSwitch, NoTimers, Shape,
         Attempts, CrashBehindCommand, QuietRaces
<1>29. CASE \E s \in Slot : RetiredExits(s)
  BY <1>29, TypeParts, QueueMoves, QueuedSame, QueuedAppended, ClearedTimers,
     ClearedRetryType, BusyWithoutTimers
    
        DEF Happens, RetiredExits, Exits, StopBehindSwitch, NoTimers, Shape, Attempts,
         CrashBehindCommand, QuietRaces
<1>30. CASE \E s \in Slot : CandidateExits(s)
  BY <1>30, TypeParts, QueueMoves, QueuedSame, QueuedAppended, ClearedTimers,
     ClearedRetryType, BusyWithoutTimers
     DEF Happens, CandidateExits, Exits, StopBehindSwitch, NoTimers, Shape,
         Attempts, CrashBehindCommand, QuietRaces
<1>31. CASE \E s \in Slot, clean \in BOOLEAN : ActiveExits(s, clean)
  BY <1>31, TypeParts, QueueMoves, QueuedSame, QueuedAppended, ClearedTimers,
     ClearedRetryType, BusyWithoutTimers
     DEF Happens, KeepWaiting, OnFailure, OneMoreFailure, Decide, Exhausted,
         EnterTerminal, ScheduleBackoff, NoDecision, ClearedRetry, ActiveExits,
         Exits, CleanExit, StopBehindSwitch, NoTimers, Shape, Attempts,
         CrashBehindCommand, QuietRaces
<1>32. CASE \E s \in Slot, op \in {"unhealthy", "failed"} : Fails(s, op)
  <2>1. PICK s \in Slot, op \in {"unhealthy", "failed"} : Fails(s, op)
    BY <1>32
  <2>2. UNCHANGED <<step, timers, lifecycle>>
    BY <2>1 DEF Fails, Happens
  <2>3. UNCHANGED queue \/ Appended(UnitCommand(op, s))
    BY <2>1, QueueMoves, TypeParts DEF Commands
  <2>4. Queued({"stop"})' => Queued({"stop"})
    BY <2>3, QueuedAppended, QueuedSame, TypeParts DEF UnitCommand
  <2> QED BY <2>2, <2>4 DEF StopBehindSwitch, NoTimers
<1>33. CASE \E s \in Slot : Abandon(s)
  BY <1>33, TypeParts, QueueMoves, QueuedSame, QueuedAppended, ClearedTimers,
     ClearedRetryType, BusyWithoutTimers
     DEF Happens, Abandon, StopBehindSwitch, NoTimers, Shape, Attempts,
         CrashBehindCommand, QuietRaces
<1>34. CASE FailureExpires
  BY <1>34, TypeParts, QueueMoves, QueuedSame, QueuedAppended, ClearedTimers,
     ClearedRetryType, BusyWithoutTimers
     DEF Happens, FailureExpires, StopBehindSwitch, NoTimers, Shape, Attempts,
         CrashBehindCommand, QuietRaces
<1>35. CASE BackoffFires
  <2>1. step' = step /\ lifecycle' = lifecycle /\ retry.live > 0
    BY <1>35 DEF BackoffFires, Happens
  <2>2. Queued({"stop"})' => Queued({"stop"})
    BY <1>35, QueueMoves, QueuedAppended, QueuedSame, TypeParts DEF Launch
  <2> QED BY <2>1, <2>2 DEF StopBehindSwitch, NoTimers
<1>36. CASE CooldownFires
  <2>1. step' = step /\ lifecycle' = lifecycle /\ cooldownTimer
    BY <1>36 DEF CooldownFires, Happens
  <2>2. Queued({"stop"})' => Queued({"stop"})
    BY <1>36, QueueMoves, QueuedAppended, QueuedSame, TypeParts DEF Launch
  <2> QED BY <2>1, <2>2 DEF StopBehindSwitch, NoTimers
<1>37. CASE UNCHANGED vars
  BY <1>37, TypeParts, QueueMoves, QueuedSame, QueuedAppended, ClearedTimers,
     ClearedRetryType, BusyWithoutTimers
     DEF vars, StopBehindSwitch, NoTimers, Shape, Attempts, CrashBehindCommand,
         QuietRaces
<1> QED BY <1>1, <1>2, <1>3, <1>4, <1>5, <1>6, <1>7, <1>8, <1>9, <1>10, <1>11,
           <1>12, <1>13, <1>14, <1>15, <1>16, <1>17, <1>18, <1>19, <1>20, <1>21,
           <1>22, <1>22r, <1>23, <1>24, <1>25, <1>26, <1>27, <1>28, <1>29, <1>30, <1>31,
           <1>32, <1>33, <1>34, <1>35, <1>36, <1>37
           DEF Next, Progress, Deadline

(* Together they keep LaunchSettled.                                         *)
LEMMA LaunchSettledStep ==
    ASSUME TypeOK, Shape, Accounted, Reported, StateFits, Disposing,
           LaunchOnce, LaunchSettled,
           Timers, QuietRaces, [Next]_vars
    PROVE  LaunchSettled'
<1> SUFFICES ASSUME lifecycle' = "open", Queued({"launch"})'
             PROVE  /\ \/ step' \in {"idle", "ended", "previous", "promoted"} /\ active' = None
                       \/ step' = "retiring" /\ running'.op = "stop"
                    /\ NoTimers'
  BY DEF LaunchSettled
<1>1. lifecycle = "open"
  BY LifecycleOnward
<1>2. CASE Start \/ (BackoffFires /\ state = "backoff") \/ (CooldownFires /\ state = "terminal")
  BY <1>1, <1>2, LaunchSettles
<1>3. CASE ~(Start \/ (BackoffFires /\ state = "backoff") \/ (CooldownFires /\ state = "terminal"))
  BY <1>3, LaunchStaysSettled
<1> QED BY <1>2, <1>3

-----------------------------------------------------------------------------
(* What a state promises. *)

(* A waiting command stays while another one runs.                           *)
LEMMA QueuedKept ==
    ASSUME QueueType, [Next]_vars, NEW ops, step \notin {"idle", "ended"},
           Queued(ops)
    PROVE  Queued(ops)'
<1>1. CASE UNCHANGED queue
  BY <1>1, QueuedSame
<1>2. ASSUME NEW c, Taken(c) PROVE FALSE
  BY <1>2 DEF Taken
<1>3. ASSUME NEW c, Appended(c), Called(c) PROVE Queued(ops)'
  BY <1>3, QueuedAppended
<1>4. \/ UNCHANGED queue
      \/ \E c \in Command : Taken(c)
      \/ \E c \in Command : Appended(c) /\ Called(c)
  BY QueueChange
<1> QED BY <1>1, <1>2, <1>3, <1>4

(* A step keeps a superseding command behind the attempt it superseded.      *)
LEMMA PlannedAttemptStep ==
    ASSUME TypeOK, Shape, PlannedAttempt, [Next]_vars
    PROVE  PlannedAttempt'
<1>a. QueueType /\ AttemptType
  BY TypeParts
<1>b. Authorized /\ Queued(Superseders) => Queued(Superseders)'
  BY <1>a, QueuedKept DEF Authorized
<1>1. CASE Start
  BY <1>1, <1>a, <1>b
     DEF Start, PlannedAttempt, Authorized, AttemptType, AttemptSet
<1>2. CASE Stop
  <2>1. Queued(Superseders)'
    BY <1>2, <1>a, QueueMoves, QueuedAppended DEF Plain
  <2> QED BY <2>1 DEF PlannedAttempt
<1>3. CASE Kill
  <2>1. CASE lifecycle # "open"
    BY <1>3, <2>1, <1>b DEF Kill, PlannedAttempt, Authorized
  <2>2. CASE lifecycle = "open" /\ ~Pending({"stop"})
    <3>1. Queued(Superseders)'
      BY <1>3, <2>2, <1>a, QueueMoves, QueuedAppended DEF Plain
    <3> QED BY <3>1 DEF PlannedAttempt
  <2>3. CASE lifecycle = "open" /\ Pending({"stop"})
    <3>1. Authorized => Queued(Superseders)
      BY <2>3 DEF Pending, Queued, Authorized, Shape, Enders
    <3>2. UNCHANGED step
      BY <1>3 DEF Kill
    <3> QED BY <1>b, <3>1, <3>2 DEF PlannedAttempt, Authorized
  <2> QED BY <2>1, <2>2, <2>3
<1>4. CASE Restart
  <2>1. Queued(Superseders)'
    BY <1>4, <1>a, QueueMoves, QueuedAppended DEF Plain
  <2> QED BY <2>1 DEF PlannedAttempt
<1>5. CASE Dispose
  <2>1. Queued(Superseders)'
    BY <1>5, <1>a, QueueMoves, QueuedAppended DEF Plain
  <2> QED BY <2>1 DEF PlannedAttempt
<1>6. CASE \E op \in {"replace_stop", "replace_switch"} : Replace(op)
  BY <1>6, <1>a, <1>b
     DEF Replace, PlannedAttempt, Authorized, AttemptType, AttemptSet
<1>7. CASE \E c \in {"start", "backoff", "cooldown"} : BeginLaunch(c)
  BY <1>7
    
        DEF Begin, RunAttempt, End, KeepWaiting, BeginLaunch, Launch, PlannedAttempt,
         Authorized, AttemptType, AttemptSet
<1>8. CASE \E op \in {"stop", "dispose"} : Shutdown(op)
  BY <1>8
     DEF Begin, End, KeepWaiting, ClearTimers, ClearedRetry, Shutdown, Retire,
         Plain, PlannedAttempt, Authorized, AttemptType, AttemptSet
<1>9. CASE BeginRestart
  BY <1>9
     DEF Begin, RunAttempt, End, KeepWaiting, BeginRestart, Retire, Plain,
         PlannedAttempt, Authorized, AttemptType, AttemptSet
<1>10. CASE \E op \in {"replace_stop", "replace_switch"} : ReplaceRejected(op)
  BY <1>10
     DEF Begin, End, ReplaceRejected, Plain, PlannedAttempt, Authorized,
         AttemptType, AttemptSet
<1>11. CASE BeginReplaceStop
  BY <1>11
     DEF Begin, BeginReplaceStop, Retire, Plain, PlannedAttempt, Authorized,
         AttemptType, AttemptSet
<1>12. CASE BeginReplaceSwitch
  BY <1>12
     DEF Begin, End, BeginReplaceSwitch, Plain, PlannedAttempt, Authorized,
         AttemptType, AttemptSet
<1>13. CASE \E s \in Slot, op \in {"unhealthy", "failed"} : BeginUnitFailed(op, s)
  BY <1>13
     DEF Begin, End, BeginUnitFailed, Retire, UnitCommand, PlannedAttempt,
         Authorized, AttemptType, AttemptSet
<1>14. CASE StopRetired
  BY <1>14
     DEF Retiring, End, KeepWaiting, StopRetired, PlannedAttempt, Authorized,
         AttemptType, AttemptSet
<1>15. CASE DisposeRetired
  BY <1>15
    
        DEF Retiring, End, KeepWaiting, DisposeRetired, PlannedAttempt, Authorized,
         AttemptType, AttemptSet
<1>16. CASE RestartRetired
  BY <1>16
    
        DEF Retiring, RunAttempt, End, KeepWaiting, RestartRetired, PlannedAttempt,
         Authorized, AttemptType, AttemptSet
<1>17. CASE ReplaceStopRetired
  BY <1>17
     DEF Retiring, RunAttempt, End, KeepWaiting, ReplaceStopRetired,
         PlannedAttempt, Authorized, AttemptType, AttemptSet
<1>18. CASE \E op \in {"unhealthy", "failed"} : UnitFailedRetired(op)
  BY <1>18
    
        DEF Retiring, End, KeepWaiting, OnFailure, OneMoreFailure, Decide, Exhausted,
         EnterTerminal, ScheduleBackoff, NoDecision, ClearedRetry,
         UnitFailedRetired, PlannedAttempt, Authorized, AttemptType, AttemptSet
<1>19. CASE PreviousRetired
  BY <1>19
    
        DEF PreviousRetired, End, PlannedAttempt, Authorized, AttemptType, AttemptSet
<1>20. CASE \E s \in Slot : BudgetGrants(s)
  BY <1>20, <1>a, <1>b
     DEF Attempting, BudgetGrants, PlannedAttempt, Authorized, AttemptType,
         AttemptSet
<1>21. CASE BudgetRejects
  BY <1>21
    
        DEF Attempting, EndAttempt, End, OnFailure, OneMoreFailure, Decide, Exhausted,
         EnterTerminal, ScheduleBackoff, NoDecision, ClearedRetry, OldUnitPolicy,
         BudgetRejects, PlannedAttempt, Authorized, AttemptType, AttemptSet
<1>22. CASE AttemptReady
  BY <1>22
    
        DEF Attempting, End, KeepWaiting, AttemptReady, Promote, PlannedAttempt, Authorized,
         AttemptType, AttemptSet
<1>22r. CASE ReplaceReturns
  BY <1>22r
    
        DEF Attempting, End, ReplaceReturns, PlannedAttempt, Authorized,
         AttemptType, AttemptSet
<1>23. CASE Switch
  BY <1>23
    
        DEF Attempting, Switch, PlannedAttempt, Authorized, AttemptType, AttemptSet
<1>24. CASE AttemptFails
  BY <1>24, <1>a, <1>b
     DEF Attempting, AttemptFails, RollBack, PlannedAttempt, Authorized,
         AttemptType, AttemptSet
<1>25. CASE StartupTimeout
  BY <1>25
     DEF Attempting, StartupTimeout, RollBack, PlannedAttempt, Authorized,
         AttemptType, AttemptSet
<1>26. CASE RolledBack
  BY <1>26
    
        DEF Attempting, EndAttempt, End, OnFailure, OneMoreFailure, Decide, Exhausted,
         EnterTerminal, ScheduleBackoff, NoDecision, ClearedRetry, OldUnitPolicy,
         RolledBack, OwnsFailure, PlannedAttempt, Authorized, AttemptType,
         AttemptSet
<1>27. CASE QueueIdles
  BY <1>27 DEF QueueIdles, PlannedAttempt, Authorized, AttemptType, AttemptSet
<1>28. CASE \E s \in Slot : LaunchResolves(s) \/ LaunchRejects(s)
  BY <1>28, <1>a, <1>b
     DEF Happens, LaunchResolves, LaunchRejects, PlannedAttempt, Authorized,
         AttemptType, AttemptSet
<1>29. CASE \E s \in Slot : RetiredExits(s)
  BY <1>29, <1>a, <1>b
     DEF Happens, RetiredExits, Exits, PlannedAttempt, Authorized, AttemptType,
         AttemptSet
<1>30. CASE \E s \in Slot : CandidateExits(s)
  BY <1>30, <1>a, <1>b
    
        DEF Happens, CandidateExits, Exits, PlannedAttempt, Authorized, AttemptType,
         AttemptSet
<1>31. CASE \E s \in Slot, clean \in BOOLEAN : ActiveExits(s, clean)
  BY <1>31, <1>a, <1>b
     DEF Happens, KeepWaiting, OnFailure, OneMoreFailure, Decide, Exhausted,
         EnterTerminal, ScheduleBackoff, NoDecision, ClearedRetry, ActiveExits,
         Exits, CleanExit, PlannedAttempt, Authorized, AttemptType, AttemptSet
<1>32. CASE \E s \in Slot, op \in {"unhealthy", "failed"} : Fails(s, op)
  BY <1>32, <1>a, <1>b
     DEF Happens, Fails, PlannedAttempt, Authorized, AttemptType, AttemptSet
<1>33. CASE \E s \in Slot : Abandon(s)
  BY <1>33, <1>a, <1>b
     DEF Happens, Abandon, PlannedAttempt, Authorized, AttemptType, AttemptSet
<1>34. CASE FailureExpires
  BY <1>34, <1>a, <1>b
     DEF Happens, FailureExpires, PlannedAttempt, Authorized, AttemptType,
         AttemptSet
<1>35. CASE BackoffFires
  BY <1>35, <1>a, <1>b
    
        DEF Happens, BackoffFires, PlannedAttempt, Authorized, AttemptType, AttemptSet
<1>36. CASE CooldownFires
  BY <1>36, <1>a, <1>b
     DEF Happens, CooldownFires, PlannedAttempt, Authorized, AttemptType,
         AttemptSet
<1>37. CASE UNCHANGED vars
  BY <1>37, <1>a, <1>b
     DEF vars, PlannedAttempt, Authorized, AttemptType, AttemptSet
<1> QED BY <1>1, <1>2, <1>3, <1>4, <1>5, <1>6, <1>7, <1>8, <1>9, <1>10, <1>11,
           <1>12, <1>13, <1>14, <1>15, <1>16, <1>17, <1>18, <1>19, <1>20, <1>21,
           <1>22, <1>22r, <1>23, <1>24, <1>25, <1>26, <1>27, <1>28, <1>29, <1>30, <1>31,
           <1>32, <1>33, <1>34, <1>35, <1>36, <1>37
           DEF Next, Progress, Deadline

(* In a closed supervisor that is not disposed yet the dispose command       *)
(* waits.                                                                    *)
LEMMA ClosedIsPlanned ==
    ASSUME TypeOK, Disposing, lifecycle # "open", state # "disposed",
           step # "retiring" \/ running.op # "dispose"
    PROVE  Queued({"dispose"}) /\ Queued(Superseders)
<1>1. lifecycle = "closed"
  BY DEF TypeOK, Disposing
<1>2. Queued({"dispose"})
  BY <1>1 DEF Disposing
<1> QED BY <1>2 DEF Queued

(* The states each decision of the policy leads to.                          *)
LEMMA PolicyDecides ==
    ASSUME OnFailure \/ CleanExit
    PROVE  /\ lifecycle = "open" => state' \in {"backoff", "terminal", "stopped"}
           /\ state' \in {state, "backoff", "terminal", "stopped"}
<1>1. CASE OnFailure
  BY <1>1 DEF OnFailure, NoDecision, Decide, ScheduleBackoff, EnterTerminal
<1>2. CASE CleanExit
  BY <1>2 DEF CleanExit, ScheduleBackoff
<1> QED BY <1>1, <1>2

(* What the end of the old unit makes of the state.                          *)
LEMMA OldUnitDecides ==
    ASSUME Shape, step \in Attempts, ~attempt.promote, OldUnitPolicy
    PROVE  /\ lifecycle = "open" /\ active = None => state' \in {"backoff", "terminal", "stopped"}
           /\ active # None => state' = state
           /\ state' \in {state, "backoff", "terminal", "stopped"}
<1>a. active = None => replacement \in {"failed", "exited"}
  BY DEF Shape
<1>1. CASE active # None \/ replacement = "running"
  BY <1>a, <1>1 DEF OldUnitPolicy
<1>2. CASE active = None /\ replacement = "failed"
  BY <1>2 DEF OldUnitPolicy, Decide, ScheduleBackoff, EnterTerminal
<1>3. CASE active = None /\ replacement = "exited"
  BY <1>3 DEF OldUnitPolicy, ScheduleBackoff
<1> QED BY <1>a, <1>1, <1>2, <1>3

(* What an attempt that is given up makes of the state.                      *)
LEMMA AttemptDecides ==
    ASSUME TypeOK, Shape, StateFits, Disposing, PlannedAttempt,
           BudgetRejects \/ RolledBack
    PROVE  /\ state' \in {state, "backoff", "terminal", "stopped"}
           /\ state' = state /\ ~attempt.promote /\ active = None => Queued({"dispose"})
           /\ state' = state /\ attempt.promote => Queued(Superseders)
           /\ step \in Attempts /\ step' = "ended" /\ UNCHANGED active
<1>1. /\ step \in Attempts /\ step # "retiring" /\ step' = "ended" /\ UNCHANGED active
      /\ step \in {"budget", "rollback"}
  BY DEF BudgetRejects, RolledBack, Attempting, Attempts, EndAttempt, End
<1>2. CASE ~attempt.promote
  <2>1. OldUnitPolicy
    BY <1>2 DEF BudgetRejects, RolledBack
  <2>2. state = "ready"
    BY <1>1, <1>2 DEF StateFits
  <2> QED BY <1>1, <1>2, <2>1, <2>2, OldUnitDecides, ClosedIsPlanned
<1>3. CASE attempt.promote
  <2>1. state \in {"queued", "starting"}
    BY <1>1, <1>3 DEF StateFits
  <2>2. CASE attempt.authority = "lost"
    <3>1. Queued(Superseders)
      BY <1>1, <2>2 DEF PlannedAttempt, Authorized
    <3>2. UNCHANGED state
      BY <1>3, <2>2 DEF BudgetRejects, RolledBack, OwnsFailure, NoDecision
    <3> QED BY <1>1, <1>3, <3>1, <3>2
  <2>3. CASE attempt.authority # "lost"
    <3>1. OnFailure \/ state' = "stopped"
      <4>1. CASE BudgetRejects
        <5>1. attempt.authority = "current"
          BY <2>3, <4>1, TypeParts
             DEF BudgetRejects, Attempting, Shape, AttemptType, AttemptSet
        <5> QED BY <1>3, <4>1, <5>1 DEF BudgetRejects
      <4>2. CASE RolledBack
        <5>1. OwnsFailure
          BY <2>3, TypeParts DEF OwnsFailure, AttemptType, AttemptSet
        <5> QED BY <1>3, <4>2, <5>1 DEF RolledBack
      <4> QED BY <4>1, <4>2
    <3>2. state' \in {state, "backoff", "terminal", "stopped"}
      BY <3>1, PolicyDecides
    <3>3. lifecycle = "open" => state' # state
      BY <2>1, <3>1, PolicyDecides
    <3> QED BY <1>1, <1>3, <2>1, <3>2, <3>3, ClosedIsPlanned
  <2> QED BY <2>2, <2>3
<1>4. attempt.promote \in BOOLEAN
  BY TypeParts DEF AttemptType, AttemptSet
<1> QED BY <1>2, <1>3, <1>4

(* A step keeps a start that is announced under way or awaited.              *)
LEMMA PlannedStartStep ==
    ASSUME TypeOK, Shape, StateFits, Disposing, PlannedAttempt, PlannedStart,
           [Next]_vars
    PROVE  PlannedStart'
<1>a. QueueType
  BY TypeParts
<1>b. step \notin {"idle", "ended"} =>
        /\ Queued(Superseders) => Queued(Superseders)'
        /\ Queued({"dispose"}) => Queued({"dispose"})'
  BY <1>a, QueuedKept
<1>1. CASE Start
  BY <1>1, <1>a, <1>b, QueueMoves, QueuedSame, QueuedAppended, QueuedTaken,
     BeginTakes, TakenIsQueued
     DEF Start, PlannedStart, PlannedAttempt, Shape, StateFits, Attempts
<1>2. CASE Stop
  BY <1>2, <1>a, <1>b, QueueMoves, QueuedSame, QueuedAppended, QueuedTaken,
     BeginTakes, TakenIsQueued
     DEF Supersede, Superseded, Authorized, ClearTimers, ClearedRetry, Stop,
         Enqueue, Plain, PlannedStart, PlannedAttempt, Shape, StateFits, Attempts
<1>3. CASE Kill
  BY <1>3, <1>a, <1>b, QueueMoves, QueuedSame, QueuedAppended, QueuedTaken,
     BeginTakes, TakenIsQueued
     DEF Kill, PlannedStart, PlannedAttempt, Shape, StateFits, Attempts
<1>4. CASE Restart
  BY <1>4, <1>a, <1>b, QueueMoves, QueuedSame, QueuedAppended, QueuedTaken,
     BeginTakes, TakenIsQueued
     DEF Supersede, Superseded, Authorized, ClearTimers, ClearedRetry, Restart,
         Enqueue, Plain, PlannedStart, PlannedAttempt, Shape, StateFits, Attempts
<1>5. CASE Dispose
  BY <1>5, <1>a, <1>b, QueueMoves, QueuedSame, QueuedAppended, QueuedTaken,
     BeginTakes, TakenIsQueued
     DEF Supersede, Superseded, Authorized, ClearTimers, ClearedRetry, Dispose,
         Enqueue, Plain, PlannedStart, PlannedAttempt, Shape, StateFits, Attempts
<1>6. CASE \E op \in {"replace_stop", "replace_switch"} : Replace(op)
  <2>1. PICK op \in {"replace_stop", "replace_switch"} : Replace(op)
    BY <1>6
  <2>2. Appended(Plain(op))
    BY <2>1, <1>a, QueueMoves DEF Commands
  <2>3. UNCHANGED <<state, active, step>>
    BY <2>1 DEF Replace
  <2> QED BY <1>a, <2>2, <2>3, QueuedAppended DEF PlannedStart
<1>7. CASE \E c \in {"start", "backoff", "cooldown"} : BeginLaunch(c)
  BY <1>7, <1>a, <1>b, QueueMoves, QueuedSame, QueuedAppended, QueuedTaken,
     BeginTakes, TakenIsQueued
    
        DEF Begin, RunAttempt, End, KeepWaiting, BeginLaunch, Launch, PlannedStart,
         PlannedAttempt, Shape, StateFits, Attempts
<1>8. CASE \E op \in {"stop", "dispose"} : Shutdown(op)
  BY <1>8 DEF Begin, Shutdown, PlannedStart
<1>9. CASE BeginRestart
  <2>1. Taken(Plain("restart")) /\ Plain("restart").op = "restart"
    BY <1>9, <1>a, BeginTakes DEF BeginRestart, Plain
  <2>2. CASE active # None
    BY <1>9, <2>2 DEF BeginRestart, PlannedStart, StateFits
  <2>3. CASE active = None /\ lifecycle = "open"
    BY <1>9, <2>3 DEF BeginRestart, RunAttempt, Attempts, PlannedStart
  <2>4. CASE active = None /\ lifecycle # "open"
    <3>1. UNCHANGED <<state, active>> /\ step # "retiring"
      BY <1>9, <2>1, <2>4 DEF BeginRestart, RunAttempt, Taken
    <3>2. state # "disposed" => Queued({"dispose"})
      BY <2>4, <3>1, ClosedIsPlanned
    <3>3. state # "disposed" => Queued({"dispose"})'
      BY <1>a, <2>1, <3>2, QueuedTaken
    <3>4. Queued({"dispose"})' => Queued(Superseders)'
      BY DEF Queued
    <3> QED BY <3>1, <3>3, <3>4 DEF PlannedStart
  <2> QED BY <2>2, <2>3, <2>4
<1>10. CASE \E op \in {"replace_stop", "replace_switch"} : ReplaceRejected(op)
  BY <1>10, <1>a, <1>b, QueueMoves, QueuedSame, QueuedAppended, QueuedTaken,
     BeginTakes, TakenIsQueued
    
        DEF Begin, End, ReplaceRejected, Plain, PlannedStart, PlannedAttempt, Shape,
         StateFits, Attempts
<1>11. CASE BeginReplaceStop
  BY <1>11
    
        DEF Begin, BeginReplaceStop, PlannedStart, PlannedAttempt, Shape, StateFits,
         Attempts
<1>12. CASE BeginReplaceSwitch
  BY <1>12
    
        DEF Begin, BeginReplaceSwitch, PlannedStart, PlannedAttempt, Shape, StateFits,
         Attempts
<1>13. CASE \E s \in Slot, op \in {"unhealthy", "failed"} : BeginUnitFailed(op, s)
  BY <1>13, <1>a, <1>b, QueueMoves, QueuedSame, QueuedAppended, QueuedTaken,
     BeginTakes, TakenIsQueued
     DEF Begin, End, BeginUnitFailed, Retire, UnitCommand, PlannedStart,
         PlannedAttempt, Shape, StateFits, Attempts
<1>14. CASE StopRetired
  BY <1>14 DEF Retiring, StopRetired, PlannedStart
<1>15. CASE DisposeRetired
  BY <1>15 DEF Retiring, DisposeRetired, PlannedStart
<1>16. CASE RestartRetired
  <2>1. CASE lifecycle = "open"
    BY <1>16, <2>1 DEF RestartRetired, RunAttempt, Attempts, PlannedStart
  <2>2. CASE lifecycle # "open"
    <3>1. step = "retiring" /\ running.op # "dispose" /\ state # "disposed"
      BY <1>16 DEF RestartRetired, Retiring, Shape, StateFits
    <3>2. Queued({"dispose"})' /\ Queued(Superseders)'
      BY <1>b, <2>2, <3>1, ClosedIsPlanned
    <3> QED BY <3>2 DEF PlannedStart
  <2> QED BY <2>1, <2>2
<1>17. CASE ReplaceStopRetired
  <2>1. CASE lifecycle = "open"
    BY <1>17, <2>1 DEF ReplaceStopRetired, RunAttempt, Attempts, PlannedStart
  <2>2. CASE lifecycle # "open"
    <3>1. step = "retiring" /\ running.op # "dispose" /\ state # "disposed"
      BY <1>17 DEF ReplaceStopRetired, Retiring, Shape, StateFits
    <3>2. Queued({"dispose"})' /\ Queued(Superseders)'
      BY <1>b, <2>2, <3>1, ClosedIsPlanned
    <3> QED BY <3>2 DEF PlannedStart
  <2> QED BY <2>1, <2>2
<1>18. CASE \E op \in {"unhealthy", "failed"} : UnitFailedRetired(op)
  <2>1. PICK op \in {"unhealthy", "failed"} : UnitFailedRetired(op)
    BY <1>18
  <2>2. OnFailure /\ step = "retiring" /\ running.op = op /\ active = target /\ active # None
    BY <2>1 DEF UnitFailedRetired, Retiring, Shape
  <2>3. state = "ready"
    BY <2>1, <2>2 DEF StateFits, Enders
  <2>4. lifecycle # "open" => Queued({"dispose"})'
    BY <1>b, <2>1, <2>2, <2>3, ClosedIsPlanned
  <2> QED BY <2>2, <2>3, <2>4, PolicyDecides DEF PlannedStart
<1>19. CASE PreviousRetired
  BY <1>19, <1>a, <1>b, QueueMoves, QueuedSame, QueuedAppended, QueuedTaken,
     BeginTakes, TakenIsQueued
    
        DEF PreviousRetired, PlannedStart, PlannedAttempt, Shape, StateFits, Attempts
<1>20. CASE \E s \in Slot : BudgetGrants(s)
  BY <1>20
    
        DEF Attempting, BudgetGrants, PlannedStart, PlannedAttempt, Shape, StateFits,
         Attempts
<1>21. CASE BudgetRejects
  <2>1. CASE attempt.promote
    <3>1. state' \in {state, "backoff", "terminal", "stopped"}
      BY <1>21, AttemptDecides
    <3>2. state \in {"queued", "starting"}
      BY <1>21, <2>1, AttemptDecides DEF StateFits
    <3>3. state' = state => Queued(Superseders)'
      BY <1>21, <1>b, <2>1, AttemptDecides DEF Attempts
    <3> QED BY <3>1, <3>2, <3>3 DEF PlannedStart
  <2>2. CASE ~attempt.promote
    <3>1. state' \in {state, "backoff", "terminal", "stopped"}
      BY <1>21, AttemptDecides
    <3>2. state = "ready" /\ UNCHANGED active
      BY <1>21, <2>2, AttemptDecides DEF StateFits
    <3>3. state' = state /\ active = None => Queued({"dispose"})'
      BY <1>21, <1>b, <2>2, AttemptDecides DEF Attempts
    <3> QED BY <3>1, <3>2, <3>3 DEF PlannedStart
  <2> QED BY <2>1, <2>2
<1>22. CASE AttemptReady
  BY <1>22
    
        DEF Attempting, AttemptReady, Promote, PlannedStart, PlannedAttempt, Shape, StateFits,
         Attempts
<1>22r. CASE ReplaceReturns
  <2>1. step = "promoted" /\ UNCHANGED <<state, active, queue>>
    BY <1>22r DEF Attempting, ReplaceReturns
  <2>2. \A ops : Queued(ops) => Queued(ops)'
    BY <2>1, QueuedSame
  <2> QED BY <2>1, <2>2 DEF PlannedStart, Attempts
<1>23. CASE Switch
  BY <1>23
     DEF Attempting, Switch, PlannedStart, PlannedAttempt, Shape, StateFits,
         Attempts
<1>24. CASE AttemptFails
  BY <1>24
    
        DEF Attempting, AttemptFails, RollBack, PlannedStart, PlannedAttempt, Shape,
         StateFits, Attempts
<1>25. CASE StartupTimeout
  BY <1>25
    
        DEF Attempting, StartupTimeout, RollBack, PlannedStart, PlannedAttempt, Shape,
         StateFits, Attempts
<1>26. CASE RolledBack
  <2>1. CASE attempt.promote
    <3>1. state' \in {state, "backoff", "terminal", "stopped"}
      BY <1>26, AttemptDecides
    <3>2. state \in {"queued", "starting"}
      BY <1>26, <2>1, AttemptDecides DEF StateFits
    <3>3. state' = state => Queued(Superseders)'
      BY <1>26, <1>b, <2>1, AttemptDecides DEF Attempts
    <3> QED BY <3>1, <3>2, <3>3 DEF PlannedStart
  <2>2. CASE ~attempt.promote
    <3>1. state' \in {state, "backoff", "terminal", "stopped"}
      BY <1>26, AttemptDecides
    <3>2. state = "ready" /\ UNCHANGED active
      BY <1>26, <2>2, AttemptDecides DEF StateFits
    <3>3. state' = state /\ active = None => Queued({"dispose"})'
      BY <1>26, <1>b, <2>2, AttemptDecides DEF Attempts
    <3> QED BY <3>1, <3>2, <3>3 DEF PlannedStart
  <2> QED BY <2>1, <2>2
<1>27. CASE QueueIdles
  BY <1>27, <1>a, <1>b, QueueMoves, QueuedSame, QueuedAppended, QueuedTaken,
     BeginTakes, TakenIsQueued
     DEF QueueIdles, PlannedStart, PlannedAttempt, Shape, StateFits, Attempts
<1>28. CASE \E s \in Slot : LaunchResolves(s) \/ LaunchRejects(s)
  BY <1>28, <1>a, <1>b, QueueMoves, QueuedSame, QueuedAppended, QueuedTaken,
     BeginTakes, TakenIsQueued
     DEF Happens, LaunchResolves, LaunchRejects, PlannedStart, PlannedAttempt,
         Shape, StateFits, Attempts
<1>29. CASE \E s \in Slot : RetiredExits(s)
  BY <1>29, <1>a, <1>b, QueueMoves, QueuedSame, QueuedAppended, QueuedTaken,
     BeginTakes, TakenIsQueued
     DEF Happens, RetiredExits, Exits, PlannedStart, PlannedAttempt, Shape,
         StateFits, Attempts
<1>30. CASE \E s \in Slot : CandidateExits(s)
  BY <1>30, <1>a, <1>b, QueueMoves, QueuedSame, QueuedAppended, QueuedTaken,
     BeginTakes, TakenIsQueued
     DEF Happens, CandidateExits, Exits, PlannedStart, PlannedAttempt, Shape,
         StateFits, Attempts
<1>31. CASE \E s \in Slot, clean \in BOOLEAN : ActiveExits(s, clean)
  <2>1. PICK s \in Slot, clean \in BOOLEAN : ActiveExits(s, clean)
    BY <1>31
  <2>2. active # None /\ step # "retiring" /\ UNCHANGED <<step, running, queue>>
    BY <2>1, Constants DEF ActiveExits, Exits, Happens, Shape
  <2>3. state = "ready"
    BY <2>2 DEF StateFits
  <2>4. CASE replacement # "none"
    <3>1. step \in Attempts \/ step = "promoted"
      BY <2>2, <2>4, TypeParts DEF Shape, StateType, Attempts
    <3>2. step = "promoted" => "fail_in_promotion" \in Races
      BY <2>1 DEF ActiveExits
    <3>3. UNCHANGED state
      BY <2>1, <2>4 DEF ActiveExits
    <3> QED BY <2>2, <2>3, <3>1, <3>2, <3>3 DEF PlannedStart
  <2>5. CASE replacement = "none"
    <3>1. OnFailure \/ CleanExit
      BY <2>1, <2>5 DEF ActiveExits
    <3>2. lifecycle # "open" => Queued({"dispose"})'
      BY <2>2, <2>3, ClosedIsPlanned, QueuedSame
    <3> QED BY <2>3, <3>1, <3>2, PolicyDecides DEF PlannedStart
  <2> QED BY <2>4, <2>5
<1>32. CASE \E s \in Slot, op \in {"unhealthy", "failed"} : Fails(s, op)
  <2>1. PICK s \in Slot, op \in {"unhealthy", "failed"} : Fails(s, op)
    BY <1>32
  <2>2. UNCHANGED <<state, step>>
    BY <2>1 DEF Fails, Happens
  <2>3. CASE replacement # "none" /\ active = s
    <3>1. active # None /\ (step \in Attempts \/ step = "promoted")
      BY <2>1, <2>3, TypeParts, Constants DEF Fails, Shape, StateType, Attempts
    <3>2. step = "promoted" => "fail_in_promotion" \in Races
      BY <2>1 DEF Fails
    <3>3. state = "ready" \/ state = "stopping"
      BY <3>1 DEF StateFits
    <3> QED BY <2>2, <3>1, <3>2, <3>3 DEF PlannedStart
  <2>4. CASE ~(replacement # "none" /\ active = s)
    <3>1. Appended(UnitCommand(op, s)) /\ UNCHANGED active
      BY <1>a, <2>1, <2>4, QueueMoves DEF Commands, Fails
    <3> QED BY <1>a, <2>2, <3>1, QueuedAppended DEF PlannedStart
  <2> QED BY <2>3, <2>4
<1>33. CASE \E s \in Slot : Abandon(s)
  BY <1>33, <1>a, <1>b, QueueMoves, QueuedSame, QueuedAppended, QueuedTaken,
     BeginTakes, TakenIsQueued
    
        DEF Happens, Abandon, PlannedStart, PlannedAttempt, Shape, StateFits, Attempts
<1>34. CASE FailureExpires
  BY <1>34, <1>a, <1>b, QueueMoves, QueuedSame, QueuedAppended, QueuedTaken,
     BeginTakes, TakenIsQueued
    
        DEF Happens, FailureExpires, PlannedStart, PlannedAttempt, Shape, StateFits,
         Attempts
<1>35. CASE BackoffFires
  BY <1>35, <1>a, <1>b, QueueMoves, QueuedSame, QueuedAppended, QueuedTaken,
     BeginTakes, TakenIsQueued
     DEF Happens, BackoffFires, PlannedStart, PlannedAttempt, Shape, StateFits,
         Attempts
<1>36. CASE CooldownFires
  BY <1>36, <1>a, <1>b, QueueMoves, QueuedSame, QueuedAppended, QueuedTaken,
     BeginTakes, TakenIsQueued
    
        DEF Happens, CooldownFires, PlannedStart, PlannedAttempt, Shape, StateFits,
         Attempts
<1>37. CASE UNCHANGED vars
  BY <1>37, <1>a, <1>b, QueueMoves, QueuedSame, QueuedAppended, QueuedTaken,
     BeginTakes, TakenIsQueued
     DEF vars, PlannedStart, PlannedAttempt, Shape, StateFits, Attempts
<1> QED BY <1>1, <1>2, <1>3, <1>4, <1>5, <1>6, <1>7, <1>8, <1>9, <1>10, <1>11,
           <1>12, <1>13, <1>14, <1>15, <1>16, <1>17, <1>18, <1>19, <1>20, <1>21,
           <1>22, <1>22r, <1>23, <1>24, <1>25, <1>26, <1>27, <1>28, <1>29, <1>30, <1>31,
           <1>32, <1>33, <1>34, <1>35, <1>36, <1>37
           DEF Next, Progress, Deadline

(* A step keeps a backoff allowed by the policy, and awaited.                *)
LEMMA PlannedBackoffStep ==
    ASSUME TypeOK, Shape, StateFits, Disposing, LaunchSettled, PlannedAttempt,
           PlannedBackoff, [Next]_vars
    PROVE  PlannedBackoff'
<1>a. QueueType /\ PolicyType
  BY TypeParts
<1>b. step \notin {"idle", "ended"} /\ Queued(Changers) => Queued(Changers)'
  BY <1>a, QueuedKept
<1>c. lifecycle # "open" /\ state \in {"backoff", "terminal"} => Queued({"dispose"})
  BY ClosedIsPlanned DEF Shape, StateFits
<1>d. ASSUME NEW c, Taken(c), c.op # "dispose", Queued({"dispose"})
      PROVE  Queued(Changers)'
  <2>1. Queued({"dispose"})'
    BY <1>a, <1>d, QueuedTaken
  <2> QED BY <2>1 DEF Queued
<1>e. ASSUME NEW c, Taken(c), c.op \notin Changers, Queued(Changers)
      PROVE  Queued(Changers)'
  BY <1>a, <1>e, QueuedTaken
<1>f. ASSUME NEW c, Appended(c), Queued(Changers) \/ c.op \in Changers
      PROVE  Queued(Changers)'
  BY <1>a, <1>f, QueuedAppended
<1>g. UNCHANGED queue /\ Queued(Changers) => Queued(Changers)'
  BY QueuedSame
<1>1. CASE Start
  BY <1>1, <1>a, <1>b, <1>e, <1>f, <1>g, QueueMoves, BeginTakes, Constants
     DEF Start, PlannedBackoff, PolicyType
<1>2. CASE Stop
  <2>1. Queued(Changers)'
    BY <1>2, <1>a, <1>f, QueueMoves DEF Plain
  <2> QED BY <1>2, <2>1, <1>a, Constants DEF Stop, PlannedBackoff
<1>3. CASE Kill
  <2>1. CASE UNCHANGED <<queue, timers>>
    BY <1>3, <1>g, <2>1 DEF Kill, PlannedBackoff
  <2>2. CASE ~UNCHANGED <<queue, timers>>
    <3>1. Queued(Changers)'
      BY <1>3, <1>a, <1>f, <2>2, QueueMoves DEF Plain
    <3> QED BY <1>3, <3>1 DEF Kill, PlannedBackoff
  <2> QED BY <2>1, <2>2
<1>4. CASE Restart
  <2>1. Queued(Changers)'
    BY <1>4, <1>a, <1>f, QueueMoves DEF Plain
  <2> QED BY <1>4, <2>1, <1>a, Constants DEF Restart, PlannedBackoff
<1>5. CASE Dispose
  <2>1. Queued(Changers)'
    BY <1>5, <1>a, <1>f, QueueMoves DEF Plain
  <2> QED BY <1>5, <2>1, <1>a, Constants DEF Dispose, PlannedBackoff
<1>6. CASE \E op \in {"replace_stop", "replace_switch"} : Replace(op)
  <2>1. PICK op \in {"replace_stop", "replace_switch"} : Replace(op)
    BY <1>6
  <2>2. Queued(Changers) => Queued(Changers)'
    BY <1>a, <1>f, <2>1, QueueMoves DEF Commands
  <2>3. UNCHANGED <<state, policy, failures, timers>>
    BY <2>1 DEF Replace
  <2> QED BY <2>2, <2>3 DEF PlannedBackoff
<1>7. CASE \E c \in {"start", "backoff", "cooldown"} : BeginLaunch(c)
  <2>1. PICK c \in {"start", "backoff", "cooldown"} : BeginLaunch(c)
    BY <1>7
  <2>2. Taken(Launch(c)) /\ Launch(c).op = "launch"
    BY <1>a, <2>1, LaunchTaken
  <2>3. CASE lifecycle = "open"
    BY <2>1, <2>3 DEF BeginLaunch, RunAttempt, PlannedBackoff
  <2>4. CASE lifecycle # "open"
    <3>1. UNCHANGED state /\ (state \in {"backoff", "terminal"} => Queued(Changers)')
      BY <1>c, <1>d, <2>1, <2>2, <2>4 DEF BeginLaunch, RunAttempt
    <3> QED BY <2>1, <3>1 DEF BeginLaunch, Begin, PlannedBackoff
  <2> QED BY <2>3, <2>4
<1>8. CASE \E op \in {"stop", "dispose"} : Shutdown(op)
  BY <1>8 DEF Begin, Shutdown, PlannedBackoff
<1>9. CASE BeginRestart
  <2>1. Taken(Plain("restart")) /\ Plain("restart").op = "restart"
    BY <1>9, <1>a, BeginTakes DEF BeginRestart, Plain
  <2>2. CASE active = None
    <3>1. lifecycle = "open" => state' = "queued"
      BY <1>9, <2>2 DEF BeginRestart, RunAttempt
    <3>2. lifecycle # "open" => UNCHANGED state
      BY <1>9, <2>2 DEF BeginRestart, RunAttempt
    <3>3. lifecycle # "open" /\ state \in {"backoff", "terminal"} => Queued(Changers)'
      BY <1>c, <1>d, <2>1
    <3> QED BY <1>9, <3>1, <3>2, <3>3 DEF BeginRestart, Begin, PlannedBackoff
  <2>3. CASE active # None
    BY <1>9, <2>3 DEF BeginRestart, PlannedBackoff, StateFits
  <2> QED BY <2>2, <2>3
<1>10. CASE \E op \in {"replace_stop", "replace_switch"} : ReplaceRejected(op)
  BY <1>10, <1>a, <1>b, <1>e, <1>f, <1>g, QueueMoves, BeginTakes, Constants
     DEF Begin, End, ReplaceRejected, Plain, PlannedBackoff, PolicyType
<1>11. CASE BeginReplaceStop
  BY <1>11, <1>a, <1>b, <1>e, <1>f, <1>g, QueueMoves, BeginTakes, Constants
     DEF Begin, BeginReplaceStop, Retire, Plain, PlannedBackoff, PolicyType
<1>12. CASE BeginReplaceSwitch
  BY <1>12, <1>a, <1>b, <1>e, <1>f, <1>g, QueueMoves, BeginTakes, Constants
     DEF Begin, End, BeginReplaceSwitch, Plain, PlannedBackoff, PolicyType
<1>13. CASE \E s \in Slot, op \in {"unhealthy", "failed"} : BeginUnitFailed(op, s)
  BY <1>13, <1>a, <1>b, <1>e, <1>f, <1>g, QueueMoves, BeginTakes, Constants
     DEF Begin, End, BeginUnitFailed, Retire, UnitCommand, PlannedBackoff,
         PolicyType
<1>14. CASE StopRetired
  BY <1>14 DEF Retiring, StopRetired, PlannedBackoff
<1>15. CASE DisposeRetired
  BY <1>15 DEF Retiring, DisposeRetired, PlannedBackoff
<1>16. CASE RestartRetired
  BY <1>16, <1>a, <1>b, <1>e, <1>f, <1>g, QueueMoves, BeginTakes, Constants
    
        DEF Retiring, RunAttempt, End, KeepWaiting, RestartRetired, PlannedBackoff,
         PolicyType
<1>17. CASE ReplaceStopRetired
  BY <1>17, <1>a, <1>b, <1>e, <1>f, <1>g, QueueMoves, BeginTakes, Constants
     DEF Retiring, RunAttempt, End, KeepWaiting, ReplaceStopRetired,
         PlannedBackoff, PolicyType
<1>18. CASE \E op \in {"unhealthy", "failed"} : UnitFailedRetired(op)
  <2>1. Verdict /\ UNCHANGED policy
    BY <1>18, TypeParts, VerdictStep
  <2>2. state \notin {"backoff", "terminal"}
    BY <1>18, TypeParts
       DEF UnitFailedRetired, Retiring, Shape, StateFits, Enders
  <2> QED BY <1>a, <2>1, <2>2
             DEF Verdict, ScheduleBackoff, EnterTerminal, PlannedBackoff,
                                 PolicyType, RetryType
<1>19. CASE PreviousRetired
  BY <1>19, <1>a, <1>b, <1>e, <1>f, <1>g, QueueMoves, BeginTakes, Constants
     DEF PreviousRetired, PlannedBackoff, PolicyType
<1>20. CASE \E s \in Slot : BudgetGrants(s)
  BY <1>20, <1>a, <1>b, <1>e, <1>f, <1>g, QueueMoves, BeginTakes, Constants
     DEF Attempting, BudgetGrants, PlannedBackoff, PolicyType
<1>21. CASE BudgetRejects
  <2>1. Verdict /\ UNCHANGED policy
    BY <1>21, TypeParts, VerdictStep
  <2>2. state \notin {"backoff", "terminal"}
    BY <1>21, AttemptDecides, TypeParts DEF StateFits, AttemptType, AttemptSet
  <2> QED BY <1>a, <2>1, <2>2
             DEF Verdict, ScheduleBackoff, EnterTerminal, PlannedBackoff,
                                 PolicyType, RetryType
<1>22. CASE AttemptReady
  BY <1>22, <1>a, <1>b, <1>e, <1>f, <1>g, QueueMoves, BeginTakes, Constants
     DEF Attempting, AttemptReady, Promote, PlannedBackoff, PolicyType
<1>22r. CASE ReplaceReturns
  BY <1>22r, <1>a, <1>b, <1>e, <1>f, <1>g, QueueMoves, BeginTakes, Constants
     DEF Attempting, ReplaceReturns, End, PlannedBackoff, PolicyType
<1>23. CASE Switch
  BY <1>23 DEF Attempting, Switch, PlannedBackoff
<1>24. CASE AttemptFails
  BY <1>24, <1>a, <1>b, <1>e, <1>f, <1>g, QueueMoves, BeginTakes, Constants
     DEF Attempting, AttemptFails, RollBack, PlannedBackoff, PolicyType
<1>25. CASE StartupTimeout
  BY <1>25, <1>a, <1>b, <1>e, <1>f, <1>g, QueueMoves, BeginTakes, Constants
     DEF Attempting, StartupTimeout, RollBack, PlannedBackoff, PolicyType
<1>26. CASE RolledBack
  <2>1. Verdict /\ UNCHANGED policy
    BY <1>26, TypeParts, VerdictStep
  <2>2. state \notin {"backoff", "terminal"}
    BY <1>26, AttemptDecides, TypeParts DEF StateFits, AttemptType, AttemptSet
  <2> QED BY <1>a, <2>1, <2>2
             DEF Verdict, ScheduleBackoff, EnterTerminal, PlannedBackoff,
                                 PolicyType, RetryType
<1>27. CASE QueueIdles
  BY <1>27, <1>a, <1>b, <1>e, <1>f, <1>g, QueueMoves, BeginTakes, Constants
     DEF QueueIdles, PlannedBackoff, PolicyType
<1>28. CASE \E s \in Slot : LaunchResolves(s) \/ LaunchRejects(s)
  BY <1>28, <1>a, <1>b, <1>e, <1>f, <1>g, QueueMoves, BeginTakes, Constants
     DEF Happens, LaunchResolves, LaunchRejects, PlannedBackoff, PolicyType
<1>29. CASE \E s \in Slot : RetiredExits(s)
  BY <1>29, <1>a, <1>b, <1>e, <1>f, <1>g, QueueMoves, BeginTakes, Constants
     DEF Happens, RetiredExits, Exits, PlannedBackoff, PolicyType
<1>30. CASE \E s \in Slot : CandidateExits(s)
  BY <1>30, <1>a, <1>b, <1>e, <1>f, <1>g, QueueMoves, BeginTakes, Constants
     DEF Happens, CandidateExits, Exits, PlannedBackoff, PolicyType
<1>31. CASE \E s \in Slot, clean \in BOOLEAN : ActiveExits(s, clean)
  <2>1. Verdict /\ UNCHANGED policy
    BY <1>31, TypeParts, VerdictStep
  <2>2. state \notin {"backoff", "terminal"}
    BY <1>31, Constants DEF ActiveExits, StateFits
  <2> QED BY <1>a, <2>1, <2>2
             DEF Verdict, ScheduleBackoff, EnterTerminal, PlannedBackoff,
                                 PolicyType, RetryType
<1>32. CASE \E s \in Slot, op \in {"unhealthy", "failed"} : Fails(s, op)
  <2>1. PICK s \in Slot, op \in {"unhealthy", "failed"} : Fails(s, op)
    BY <1>32
  <2>2. UNCHANGED <<state, policy, timers>>
    BY <2>1 DEF Fails, Happens
  <2>3. CASE replacement # "none" /\ active = s
    <3>1. state \notin {"backoff", "terminal"}
      BY <2>3, Constants DEF StateFits
    <3> QED BY <2>2, <3>1 DEF PlannedBackoff
  <2>4. CASE ~(replacement # "none" /\ active = s)
    <3>1. Appended(UnitCommand(op, s)) /\ UNCHANGED failures
      BY <1>a, <2>1, <2>4, QueueMoves DEF Commands, Fails
    <3> QED BY <1>f, <2>2, <3>1 DEF PlannedBackoff
  <2> QED BY <2>3, <2>4
<1>33. CASE \E s \in Slot : Abandon(s)
  BY <1>33, <1>a, <1>b, <1>e, <1>f, <1>g, QueueMoves, BeginTakes, Constants
     DEF Happens, Abandon, PlannedBackoff, PolicyType
<1>34. CASE FailureExpires
  BY <1>34, <1>a, <1>b, <1>e, <1>f, <1>g, QueueMoves, BeginTakes, Constants
     DEF Happens, FailureExpires, PlannedBackoff, PolicyType
<1>35. CASE BackoffFires
  <2>1. CASE lifecycle = "open" /\ state = "backoff"
    <3>1. Queued(Changers)'
      BY <1>35, <1>a, <1>f, <2>1, QueueMoves DEF Launch
    <3> QED BY <1>35, <3>1, <2>1 DEF BackoffFires, Happens, PlannedBackoff
  <2>2. CASE ~(lifecycle = "open" /\ state = "backoff")
    <3>1. UNCHANGED <<queue, state, policy, failures>>
      BY <1>35, <2>2 DEF BackoffFires, Happens
    <3>2. lifecycle # "open" /\ state \in {"backoff", "terminal"} => Queued(Changers)'
      BY <1>c, <3>1 DEF Queued
    <3> QED BY <1>35, <1>g, <2>2, <3>1, <3>2 DEF BackoffFires, PlannedBackoff
  <2> QED BY <2>1, <2>2
<1>36. CASE CooldownFires
  <2>1. CASE lifecycle = "open" /\ state = "terminal"
    <3>1. Queued(Changers)'
      BY <1>36, <1>a, <1>f, <2>1, QueueMoves DEF Launch
    <3> QED BY <1>36, <3>1, <2>1 DEF CooldownFires, Happens, PlannedBackoff
  <2>2. CASE ~(lifecycle = "open" /\ state = "terminal")
    <3>1. UNCHANGED <<queue, state, policy, failures>>
      BY <1>36, <2>2 DEF CooldownFires, Happens
    <3>2. lifecycle # "open" /\ state \in {"backoff", "terminal"} => Queued(Changers)'
      BY <1>c, <3>1 DEF Queued
    <3> QED BY <1>36, <1>g, <2>2, <3>1, <3>2 DEF CooldownFires, PlannedBackoff
  <2> QED BY <2>1, <2>2
<1>37. CASE UNCHANGED vars
  BY <1>37, <1>a, <1>b, <1>e, <1>f, <1>g, QueueMoves, BeginTakes, Constants
     DEF vars, PlannedBackoff, PolicyType
<1> QED BY <1>1, <1>2, <1>3, <1>4, <1>5, <1>6, <1>7, <1>8, <1>9, <1>10, <1>11,
           <1>12, <1>13, <1>14, <1>15, <1>16, <1>17, <1>18, <1>19, <1>20, <1>21,
           <1>22, <1>22r, <1>23, <1>24, <1>25, <1>26, <1>27, <1>28, <1>29, <1>30, <1>31,
           <1>32, <1>33, <1>34, <1>35, <1>36, <1>37
           DEF Next, Progress, Deadline

(* A step keeps the cooldown of the terminal state, or a command.            *)
LEMMA PlannedCooldownStep ==
    ASSUME TypeOK, Shape, StateFits, Disposing, LaunchSettled, PlannedAttempt,
           PlannedCooldown, [Next]_vars
    PROVE  PlannedCooldown'
<1>a. QueueType /\ PolicyType
  BY TypeParts
<1>b. step \notin {"idle", "ended"} /\ Queued(Changers) => Queued(Changers)'
  BY <1>a, QueuedKept
<1>c. lifecycle # "open" /\ state \in {"backoff", "terminal"} => Queued({"dispose"})
  BY ClosedIsPlanned DEF Shape, StateFits
<1>d. ASSUME NEW c, Taken(c), c.op # "dispose", Queued({"dispose"})
      PROVE  Queued(Changers)'
  <2>1. Queued({"dispose"})'
    BY <1>a, <1>d, QueuedTaken
  <2> QED BY <2>1 DEF Queued
<1>e. ASSUME NEW c, Taken(c), c.op \notin Changers, Queued(Changers)
      PROVE  Queued(Changers)'
  BY <1>a, <1>e, QueuedTaken
<1>f. ASSUME NEW c, Appended(c), Queued(Changers) \/ c.op \in Changers
      PROVE  Queued(Changers)'
  BY <1>a, <1>f, QueuedAppended
<1>g. UNCHANGED queue /\ Queued(Changers) => Queued(Changers)'
  BY QueuedSame
<1>1. CASE Start
  BY <1>1 DEF Start, PlannedCooldown
<1>2. CASE Stop
  <2>1. Queued(Changers)'
    BY <1>2, <1>a, <1>f, QueueMoves DEF Plain
  <2> QED BY <1>2, <2>1, <1>a, Constants DEF Stop, PlannedCooldown
<1>3. CASE Kill
  <2>1. CASE UNCHANGED <<queue, timers>>
    BY <1>3, <1>g, <2>1 DEF Kill, PlannedCooldown
  <2>2. CASE ~UNCHANGED <<queue, timers>>
    <3>1. Queued(Changers)'
      BY <1>3, <1>a, <1>f, <2>2, QueueMoves DEF Plain
    <3> QED BY <1>3, <3>1 DEF Kill, PlannedCooldown
  <2> QED BY <2>1, <2>2
<1>4. CASE Restart
  <2>1. Queued(Changers)'
    BY <1>4, <1>a, <1>f, QueueMoves DEF Plain
  <2> QED BY <1>4, <2>1, <1>a, Constants DEF Restart, PlannedCooldown
<1>5. CASE Dispose
  <2>1. Queued(Changers)'
    BY <1>5, <1>a, <1>f, QueueMoves DEF Plain
  <2> QED BY <1>5, <2>1, <1>a, Constants DEF Dispose, PlannedCooldown
<1>6. CASE \E op \in {"replace_stop", "replace_switch"} : Replace(op)
  <2>1. PICK op \in {"replace_stop", "replace_switch"} : Replace(op)
    BY <1>6
  <2>2. Queued(Changers) => Queued(Changers)'
    BY <1>a, <1>f, <2>1, QueueMoves DEF Commands
  <2>3. UNCHANGED <<state, policy, failures, timers>>
    BY <2>1 DEF Replace
  <2> QED BY <2>2, <2>3 DEF PlannedCooldown
<1>7. CASE \E c \in {"start", "backoff", "cooldown"} : BeginLaunch(c)
  <2>1. PICK c \in {"start", "backoff", "cooldown"} : BeginLaunch(c)
    BY <1>7
  <2>2. Taken(Launch(c)) /\ Launch(c).op = "launch"
    BY <1>a, <2>1, LaunchTaken
  <2>3. CASE lifecycle = "open"
    BY <2>1, <2>3 DEF BeginLaunch, RunAttempt, PlannedCooldown
  <2>4. CASE lifecycle # "open"
    <3>1. UNCHANGED state /\ (state \in {"backoff", "terminal"} => Queued(Changers)')
      BY <1>c, <1>d, <2>1, <2>2, <2>4 DEF BeginLaunch, RunAttempt
    <3> QED BY <2>1, <3>1 DEF BeginLaunch, Begin, PlannedCooldown
  <2> QED BY <2>3, <2>4
<1>8. CASE \E op \in {"stop", "dispose"} : Shutdown(op)
  BY <1>8 DEF Begin, Shutdown, PlannedCooldown
<1>9. CASE BeginRestart
  <2>1. Taken(Plain("restart")) /\ Plain("restart").op = "restart"
    BY <1>9, <1>a, BeginTakes DEF BeginRestart, Plain
  <2>2. CASE active = None
    <3>1. lifecycle = "open" => state' = "queued"
      BY <1>9, <2>2 DEF BeginRestart, RunAttempt
    <3>2. lifecycle # "open" => UNCHANGED state
      BY <1>9, <2>2 DEF BeginRestart, RunAttempt
    <3>3. lifecycle # "open" /\ state \in {"backoff", "terminal"} => Queued(Changers)'
      BY <1>c, <1>d, <2>1
    <3> QED BY <1>9, <3>1, <3>2, <3>3 DEF BeginRestart, Begin, PlannedCooldown
  <2>3. CASE active # None
    BY <1>9, <2>3 DEF BeginRestart, PlannedCooldown, StateFits
  <2> QED BY <2>2, <2>3
<1>10. CASE \E op \in {"replace_stop", "replace_switch"} : ReplaceRejected(op)
  BY <1>10, <1>a, <1>b, <1>e, <1>f, <1>g, QueueMoves, BeginTakes, Constants
     DEF Begin, End, ReplaceRejected, Plain, PlannedCooldown, PolicyType
<1>11. CASE BeginReplaceStop
  BY <1>11 DEF Begin, BeginReplaceStop, PlannedCooldown
<1>12. CASE BeginReplaceSwitch
  BY <1>12 DEF Begin, BeginReplaceSwitch, PlannedCooldown
<1>13. CASE \E s \in Slot, op \in {"unhealthy", "failed"} : BeginUnitFailed(op, s)
  BY <1>13, <1>a, <1>b, <1>e, <1>f, <1>g, QueueMoves, BeginTakes, Constants
     DEF Begin, End, BeginUnitFailed, Retire, UnitCommand, PlannedCooldown,
         PolicyType
<1>14. CASE StopRetired
  BY <1>14 DEF Retiring, StopRetired, PlannedCooldown
<1>15. CASE DisposeRetired
  BY <1>15 DEF Retiring, DisposeRetired, PlannedCooldown
<1>16. CASE RestartRetired
  BY <1>16, <1>a, <1>b, <1>e, <1>f, <1>g, QueueMoves, BeginTakes, Constants
    
        DEF Retiring, RunAttempt, End, KeepWaiting, RestartRetired, PlannedCooldown,
         PolicyType
<1>17. CASE ReplaceStopRetired
  BY <1>17, <1>a, <1>b, <1>e, <1>f, <1>g, QueueMoves, BeginTakes, Constants
     DEF Retiring, RunAttempt, End, KeepWaiting, ReplaceStopRetired,
         PlannedCooldown, PolicyType
<1>18. CASE \E op \in {"unhealthy", "failed"} : UnitFailedRetired(op)
  <2>1. Verdict /\ UNCHANGED policy
    BY <1>18, TypeParts, VerdictStep
  <2>2. state \notin {"backoff", "terminal"}
    BY <1>18, TypeParts
       DEF UnitFailedRetired, Retiring, Shape, StateFits, Enders
  <2> QED BY <2>1, <2>2
             DEF Verdict, ScheduleBackoff, EnterTerminal, PlannedCooldown
<1>19. CASE PreviousRetired
  BY <1>19, <1>a, <1>b, <1>e, <1>f, <1>g, QueueMoves, BeginTakes, Constants
     DEF PreviousRetired, PlannedCooldown, PolicyType
<1>20. CASE \E s \in Slot : BudgetGrants(s)
  BY <1>20, <1>a, <1>b, <1>e, <1>f, <1>g, QueueMoves, BeginTakes, Constants
     DEF Attempting, BudgetGrants, PlannedCooldown, PolicyType
<1>21. CASE BudgetRejects
  <2>1. Verdict /\ UNCHANGED policy
    BY <1>21, TypeParts, VerdictStep
  <2>2. state \notin {"backoff", "terminal"}
    BY <1>21, AttemptDecides, TypeParts DEF StateFits, AttemptType, AttemptSet
  <2> QED BY <2>1, <2>2
             DEF Verdict, ScheduleBackoff, EnterTerminal, PlannedCooldown
<1>22. CASE AttemptReady
  BY <1>22, <1>a, <1>b, <1>e, <1>f, <1>g, QueueMoves, BeginTakes, Constants
     DEF Attempting, AttemptReady, Promote, PlannedCooldown, PolicyType
<1>22r. CASE ReplaceReturns
  BY <1>22r, <1>a, <1>b, <1>e, <1>f, <1>g, QueueMoves, BeginTakes, Constants
     DEF Attempting, ReplaceReturns, End, PlannedCooldown, PolicyType
<1>23. CASE Switch
  BY <1>23 DEF Attempting, Switch, PlannedCooldown
<1>24. CASE AttemptFails
  BY <1>24, <1>a, <1>b, <1>e, <1>f, <1>g, QueueMoves, BeginTakes, Constants
     DEF Attempting, AttemptFails, RollBack, PlannedCooldown, PolicyType
<1>25. CASE StartupTimeout
  BY <1>25, <1>a, <1>b, <1>e, <1>f, <1>g, QueueMoves, BeginTakes, Constants
     DEF Attempting, StartupTimeout, RollBack, PlannedCooldown, PolicyType
<1>26. CASE RolledBack
  <2>1. Verdict /\ UNCHANGED policy
    BY <1>26, TypeParts, VerdictStep
  <2>2. state \notin {"backoff", "terminal"}
    BY <1>26, AttemptDecides, TypeParts DEF StateFits, AttemptType, AttemptSet
  <2> QED BY <2>1, <2>2
             DEF Verdict, ScheduleBackoff, EnterTerminal, PlannedCooldown
<1>27. CASE QueueIdles
  BY <1>27, <1>a, <1>b, <1>e, <1>f, <1>g, QueueMoves, BeginTakes, Constants
     DEF QueueIdles, PlannedCooldown, PolicyType
<1>28. CASE \E s \in Slot : LaunchResolves(s) \/ LaunchRejects(s)
  BY <1>28, <1>a, <1>b, <1>e, <1>f, <1>g, QueueMoves, BeginTakes, Constants
     DEF Happens, LaunchResolves, LaunchRejects, PlannedCooldown, PolicyType
<1>29. CASE \E s \in Slot : RetiredExits(s)
  BY <1>29, <1>a, <1>b, <1>e, <1>f, <1>g, QueueMoves, BeginTakes, Constants
     DEF Happens, RetiredExits, Exits, PlannedCooldown, PolicyType
<1>30. CASE \E s \in Slot : CandidateExits(s)
  BY <1>30, <1>a, <1>b, <1>e, <1>f, <1>g, QueueMoves, BeginTakes, Constants
     DEF Happens, CandidateExits, Exits, PlannedCooldown, PolicyType
<1>31. CASE \E s \in Slot, clean \in BOOLEAN : ActiveExits(s, clean)
  <2>1. Verdict /\ UNCHANGED policy
    BY <1>31, TypeParts, VerdictStep
  <2>2. state \notin {"backoff", "terminal"}
    BY <1>31, Constants DEF ActiveExits, StateFits
  <2> QED BY <2>1, <2>2
             DEF Verdict, ScheduleBackoff, EnterTerminal, PlannedCooldown
<1>32. CASE \E s \in Slot, op \in {"unhealthy", "failed"} : Fails(s, op)
  <2>1. PICK s \in Slot, op \in {"unhealthy", "failed"} : Fails(s, op)
    BY <1>32
  <2>2. UNCHANGED <<state, policy, timers>>
    BY <2>1 DEF Fails, Happens
  <2>3. CASE replacement # "none" /\ active = s
    <3>1. state \notin {"backoff", "terminal"}
      BY <2>3, Constants DEF StateFits
    <3> QED BY <2>2, <3>1 DEF PlannedCooldown
  <2>4. CASE ~(replacement # "none" /\ active = s)
    <3>1. Appended(UnitCommand(op, s)) /\ UNCHANGED failures
      BY <1>a, <2>1, <2>4, QueueMoves DEF Commands, Fails
    <3> QED BY <1>f, <2>2, <3>1 DEF PlannedCooldown
  <2> QED BY <2>3, <2>4
<1>33. CASE \E s \in Slot : Abandon(s)
  BY <1>33, <1>a, <1>b, <1>e, <1>f, <1>g, QueueMoves, BeginTakes, Constants
     DEF Happens, Abandon, PlannedCooldown, PolicyType
<1>34. CASE FailureExpires
  BY <1>34, <1>a, <1>b, <1>e, <1>f, <1>g, QueueMoves, BeginTakes, Constants
     DEF Happens, FailureExpires, PlannedCooldown, PolicyType
<1>35. CASE BackoffFires
  <2>1. CASE lifecycle = "open" /\ state = "backoff"
    <3>1. Queued(Changers)'
      BY <1>35, <1>a, <1>f, <2>1, QueueMoves DEF Launch
    <3> QED BY <1>35, <3>1, <2>1 DEF BackoffFires, Happens, PlannedCooldown
  <2>2. CASE ~(lifecycle = "open" /\ state = "backoff")
    <3>1. UNCHANGED <<queue, state, policy, failures>>
      BY <1>35, <2>2 DEF BackoffFires, Happens
    <3>2. lifecycle # "open" /\ state \in {"backoff", "terminal"} => Queued(Changers)'
      BY <1>c, <3>1 DEF Queued
    <3> QED BY <1>35, <1>g, <2>2, <3>1, <3>2 DEF BackoffFires, PlannedCooldown
  <2> QED BY <2>1, <2>2
<1>36. CASE CooldownFires
  <2>1. CASE lifecycle = "open" /\ state = "terminal"
    <3>1. Queued(Changers)'
      BY <1>36, <1>a, <1>f, <2>1, QueueMoves DEF Launch
    <3> QED BY <1>36, <3>1, <2>1 DEF CooldownFires, Happens, PlannedCooldown
  <2>2. CASE ~(lifecycle = "open" /\ state = "terminal")
    <3>1. UNCHANGED <<queue, state, policy, failures>>
      BY <1>36, <2>2 DEF CooldownFires, Happens
    <3>2. lifecycle # "open" /\ state \in {"backoff", "terminal"} => Queued(Changers)'
      BY <1>c, <3>1 DEF Queued
    <3> QED BY <1>36, <1>g, <2>2, <3>1, <3>2 DEF CooldownFires, PlannedCooldown
  <2> QED BY <2>1, <2>2
<1>37. CASE UNCHANGED vars
  BY <1>37, <1>a, <1>b, <1>e, <1>f, <1>g, QueueMoves, BeginTakes, Constants
     DEF vars, PlannedCooldown, PolicyType
<1> QED BY <1>1, <1>2, <1>3, <1>4, <1>5, <1>6, <1>7, <1>8, <1>9, <1>10, <1>11,
           <1>12, <1>13, <1>14, <1>15, <1>16, <1>17, <1>18, <1>19, <1>20, <1>21,
           <1>22, <1>22r, <1>23, <1>24, <1>25, <1>26, <1>27, <1>28, <1>29, <1>30, <1>31,
           <1>32, <1>33, <1>34, <1>35, <1>36, <1>37
           DEF Next, Progress, Deadline

-----------------------------------------------------------------------------
(* Killed units. *)

(* kill() leaves a stop or dispose command in the queue whenever it retires  *)
(* something.                                                                *)
LEMMA KillQueues ==
    ASSUME TypeOK, Shape, Disposing, Kill, active # None \/ step \in Attempts
    PROVE  step = "retiring" \/ Queued(Enders)'
<1>1. QueueType /\ UNCHANGED <<step, running>>
  BY TypeParts DEF Kill
<1>2. CASE lifecycle = "open" /\ ~Pending({"stop"})
  BY <1>1, <1>2, QueueMoves, QueuedAppended DEF Plain, Enders
<1>3. CASE lifecycle = "open" /\ Pending({"stop"})
  <2>1. CASE running.op = "stop"
    BY <2>1 DEF Shape, Enders, Attempts
  <2>2. CASE running.op # "stop"
    <3>1. Queued(Enders)
      BY <1>3, <2>2 DEF Pending, Queued, Enders
    <3>2. UNCHANGED queue
      BY <1>1, <1>3, QueueMoves
    <3> QED BY <3>1, <3>2, QueuedSame
  <2> QED BY <2>1, <2>2
<1>4. CASE lifecycle # "open"
  <2>1. UNCHANGED queue
    BY <1>1, <1>4, QueueMoves
  <2>2. step = "retiring" \/ Queued(Enders)
    <3>1. lifecycle = "closed"
      BY <1>4, TypeParts DEF StateType, Disposing, Attempts
    <3> QED BY <3>1 DEF Disposing, Queued, Enders
  <2> QED BY <2>1, <2>2, QueuedSame
<1> QED BY <1>2, <1>3, <1>4

(* A step keeps every killed active unit awaited...                          *)
LEMMA KilledActiveStep ==
    ASSUME TypeOK, Shape, Accounted, Reported, Disposing, KilledActive,
           KilledCandidate, [Next]_vars
    PROVE  KilledActive'
<1>a. QueueType /\ UnitType
  BY TypeParts
<1>b. step \notin {"idle", "ended"} /\ Queued(Enders) => Queued(Enders)'
  BY <1>a, QueuedKept
<1>c. ASSUME NEW c, Taken(c), c.op \notin Enders, Queued(Enders)
      PROVE  Queued(Enders)'
  BY <1>a, <1>c, QueuedTaken
<1>d. ASSUME NEW c, Appended(c), Queued(Enders) \/ c.op \in Enders
      PROVE  Queued(Enders)'
  BY <1>a, <1>d, QueuedAppended
<1>e. UNCHANGED queue /\ Queued(Enders) => Queued(Enders)'
  BY QueuedSame
<1>1. CASE Start
  BY <1>1, <1>a, <1>b, <1>c, <1>d, <1>e, BeginTakes, QueueMoves, Constants
    
        DEF Start, KilledActive, KilledCandidate, Shape, Attempts, Enders, Commands
<1>2. CASE Stop
  BY <1>2, <1>a, <1>b, <1>c, <1>d, <1>e, BeginTakes, QueueMoves, Constants
     DEF Supersede, Superseded, Authorized, ClearTimers, ClearedRetry, Stop,
         Enqueue, Plain, KilledActive, KilledCandidate, Shape, Attempts, Enders,
         Commands
<1>3. CASE Kill
  <2>1. UNCHANGED <<active, step>>
    BY <1>3 DEF Kill
  <2> QED BY <1>3, <2>1, KillQueues DEF KilledActive
<1>4. CASE Restart
  BY <1>4, <1>a, <1>b, <1>c, <1>d, <1>e, BeginTakes, QueueMoves, Constants
     DEF Supersede, Superseded, Authorized, ClearTimers, ClearedRetry, Restart,
         Enqueue, Plain, KilledActive, KilledCandidate, Shape, Attempts, Enders,
         Commands
<1>5. CASE Dispose
  BY <1>5, <1>a, <1>b, <1>c, <1>d, <1>e, BeginTakes, QueueMoves, Constants
     DEF Supersede, Superseded, Authorized, ClearTimers, ClearedRetry, Dispose,
         Enqueue, Plain, KilledActive, KilledCandidate, Shape, Attempts, Enders,
         Commands
<1>6. CASE \E op \in {"replace_stop", "replace_switch"} : Replace(op)
  BY <1>6, <1>a, <1>b, <1>c, <1>d, <1>e, BeginTakes, QueueMoves, Constants
    
        DEF Replace, KilledActive, KilledCandidate, Shape, Attempts, Enders, Commands
<1>7. CASE \E c \in {"start", "backoff", "cooldown"} : BeginLaunch(c)
  BY <1>7, <1>a, <1>b, <1>c, <1>d, <1>e, BeginTakes, QueueMoves, Constants
    
        DEF Begin, RunAttempt, End, KeepWaiting, BeginLaunch, Launch, KilledActive,
         KilledCandidate, Shape, Attempts, Enders, Commands
<1>8. CASE \E op \in {"stop", "dispose"} : Shutdown(op)
  BY <1>8
     DEF Begin, End, KeepWaiting, ClearTimers, ClearedRetry, Shutdown, Retire,
         Plain, KilledActive, KilledCandidate, Shape, Attempts, Enders, Commands
<1>9. CASE BeginRestart
  BY <1>9
     DEF Begin, RunAttempt, End, KeepWaiting, BeginRestart, Retire, Plain,
         KilledActive, KilledCandidate, Shape, Attempts, Enders, Commands
<1>10. CASE \E op \in {"replace_stop", "replace_switch"} : ReplaceRejected(op)
  BY <1>10, <1>a, <1>b, <1>c, <1>d, <1>e, BeginTakes, QueueMoves, Constants
    
        DEF Begin, End, ReplaceRejected, Plain, KilledActive, KilledCandidate, Shape,
         Attempts, Enders, Commands
<1>11. CASE BeginReplaceStop
  BY <1>11
     DEF Begin, BeginReplaceStop, Retire, Plain, KilledActive, KilledCandidate,
         Shape, Attempts, Enders, Commands
<1>12. CASE BeginReplaceSwitch
  BY <1>12, <1>a, <1>b, <1>c, <1>d, <1>e, BeginTakes, QueueMoves, Constants
     DEF Begin, End, BeginReplaceSwitch, Plain, KilledActive, KilledCandidate,
         Shape, Attempts, Enders, Commands
<1>13. CASE \E s \in Slot, op \in {"unhealthy", "failed"} : BeginUnitFailed(op, s)
  <2>1. PICK s \in Slot, op \in {"unhealthy", "failed"} : BeginUnitFailed(op, s)
    BY <1>13
  <2>2. Taken(UnitCommand(op, s)) /\ UnitCommand(op, s).op \notin Enders
    BY <1>a, <2>1, BeginTakes DEF BeginUnitFailed, UnitCommand, Enders
  <2>3. step' = "retiring" \/ UNCHANGED <<active, retired>>
    BY <2>1 DEF BeginUnitFailed, Retire
  <2>4. step # "retiring"
    BY <2>2 DEF Taken
  <2>5. UNCHANGED active
    BY <2>1 DEF BeginUnitFailed
  <2> QED BY <1>c, <2>2, <2>3, <2>4, <2>5 DEF KilledActive
<1>14. CASE StopRetired
  BY <1>14 DEF Retiring, StopRetired, KilledActive
<1>15. CASE DisposeRetired
  BY <1>15 DEF Retiring, DisposeRetired, KilledActive
<1>16. CASE RestartRetired
  BY <1>16 DEF Retiring, RestartRetired, KilledActive
<1>17. CASE ReplaceStopRetired
  BY <1>17 DEF Retiring, ReplaceStopRetired, KilledActive
<1>18. CASE \E op \in {"unhealthy", "failed"} : UnitFailedRetired(op)
  BY <1>18
     DEF Retiring, UnitFailedRetired, KilledActive, KilledCandidate, Shape,
         Attempts, Enders, Commands
<1>19. CASE PreviousRetired
  BY <1>19, <1>a, <1>b, <1>c, <1>d, <1>e, BeginTakes, QueueMoves, Constants
    
        DEF PreviousRetired, KilledActive, KilledCandidate, Shape, Attempts, Enders,
         Commands
<1>20. CASE \E s \in Slot : BudgetGrants(s)
  BY <1>20, <1>a, <1>b, <1>c, <1>d, <1>e, BeginTakes, QueueMoves, Constants
    
        DEF Attempting, BudgetGrants, KilledActive, KilledCandidate, Shape, Attempts,
         Enders, Commands
<1>21. CASE BudgetRejects
  BY <1>21, <1>a, <1>b, <1>c, <1>d, <1>e, BeginTakes, QueueMoves, Constants
    
        DEF Attempting, EndAttempt, End, OnFailure, OneMoreFailure, Decide, Exhausted,
         EnterTerminal, ScheduleBackoff, NoDecision, ClearedRetry, OldUnitPolicy,
         BudgetRejects, KilledActive, KilledCandidate, Shape, Attempts, Enders,
         Commands
<1>22. CASE AttemptReady
  BY <1>22, <1>a, <1>b, <1>c, <1>d, <1>e, BeginTakes, QueueMoves, Constants
    
        DEF Attempting, AttemptReady, Promote, KilledActive, KilledCandidate, Shape, Attempts,
         Enders, Commands
<1>22r. CASE ReplaceReturns
  BY <1>22r, <1>a, <1>b, <1>c, <1>d, <1>e, BeginTakes, QueueMoves, Constants
    
        DEF Attempting, ReplaceReturns, End, KilledActive, KilledCandidate, Shape, Attempts,
         Enders, Commands
<1>23. CASE Switch
  <2>1. ~attempt.promote /\ candidate = attempt.slot /\ candidate # target /\ candidate # None
    BY <1>23 DEF Switch, Attempting, Shape, Attempts
  <2>2. candidate \in retired => Queued(Enders)'
    BY <1>23, <1>b DEF Switch, Attempting, KilledCandidate
  <2> QED BY <1>23, <2>1, <2>2 DEF Switch, KilledActive
<1>24. CASE AttemptFails
  BY <1>24, <1>a, <1>b, <1>c, <1>d, <1>e, BeginTakes, QueueMoves, Constants
    
        DEF Attempting, AttemptFails, RollBack, KilledActive, KilledCandidate, Shape,
         Attempts, Enders, Commands
<1>25. CASE StartupTimeout
  BY <1>25, <1>a, <1>b, <1>c, <1>d, <1>e, BeginTakes, QueueMoves, Constants
     DEF Attempting, StartupTimeout, RollBack, KilledActive, KilledCandidate,
         Shape, Attempts, Enders, Commands
<1>26. CASE RolledBack
  BY <1>26, <1>a, <1>b, <1>c, <1>d, <1>e, BeginTakes, QueueMoves, Constants
    
        DEF Attempting, EndAttempt, End, OnFailure, OneMoreFailure, Decide, Exhausted,
         EnterTerminal, ScheduleBackoff, NoDecision, ClearedRetry, OldUnitPolicy,
         RolledBack, OwnsFailure, KilledActive, KilledCandidate, Shape, Attempts,
         Enders, Commands
<1>27. CASE QueueIdles
  BY <1>27, <1>a, <1>b, <1>c, <1>d, <1>e, BeginTakes, QueueMoves, Constants
     DEF QueueIdles, KilledActive, KilledCandidate, Shape, Attempts, Enders,
         Commands
<1>28. CASE \E s \in Slot : LaunchResolves(s) \/ LaunchRejects(s)
  BY <1>28, <1>a, <1>b, <1>c, <1>d, <1>e, BeginTakes, QueueMoves, Constants
     DEF Happens, LaunchResolves, LaunchRejects, KilledActive, KilledCandidate,
         Shape, Attempts, Enders, Commands
<1>29. CASE \E s \in Slot : RetiredExits(s)
  BY <1>29, <1>a, <1>b, <1>c, <1>d, <1>e, BeginTakes, QueueMoves, Constants
     DEF Happens, RetiredExits, Exits, KilledActive, KilledCandidate, Shape,
         Attempts, Enders, Commands
<1>30. CASE \E s \in Slot : CandidateExits(s)
  <2>1. PICK s \in Slot : CandidateExits(s)
    BY <1>30
  <2>2. UNCHANGED <<active, step, queue>> /\ retired' = retired \cup {s}
    BY <2>1 DEF CandidateExits, Exits, Happens
  <2>3. candidate = s => active # s
    BY TypeParts, Constants
       DEF Shape, StateType, Attempts, AttemptType, AttemptSet
  <2>4. active # s
    BY <2>1, <2>3 DEF CandidateExits
  <2> QED BY <1>e, <2>2, <2>4 DEF KilledActive
<1>31. CASE \E s \in Slot, clean \in BOOLEAN : ActiveExits(s, clean)
  BY <1>31 DEF Happens, ActiveExits, KilledActive
<1>32. CASE \E s \in Slot, op \in {"unhealthy", "failed"} : Fails(s, op)
  <2>1. PICK s \in Slot, op \in {"unhealthy", "failed"} : Fails(s, op)
    BY <1>32
  <2>2. UNCHANGED step /\ (active' = None \/ UNCHANGED <<active, retired>>)
    BY <2>1 DEF Fails, Happens
  <2>3. Queued(Enders) => Queued(Enders)'
    BY <1>a, <1>d, <1>e, <2>1, QueueMoves DEF Commands
  <2> QED BY <2>2, <2>3 DEF KilledActive
<1>33. CASE \E s \in Slot : Abandon(s)
  BY <1>33, <1>a, <1>b, <1>c, <1>d, <1>e, BeginTakes, QueueMoves, Constants
    
        DEF Happens, Abandon, KilledActive, KilledCandidate, Shape, Attempts, Enders,
         Commands
<1>34. CASE FailureExpires
  BY <1>34, <1>a, <1>b, <1>c, <1>d, <1>e, BeginTakes, QueueMoves, Constants
    
        DEF Happens, FailureExpires, KilledActive, KilledCandidate, Shape, Attempts,
         Enders, Commands
<1>35. CASE BackoffFires
  BY <1>35, <1>a, <1>b, <1>c, <1>d, <1>e, BeginTakes, QueueMoves, Constants
     DEF Happens, BackoffFires, KilledActive, KilledCandidate, Shape, Attempts,
         Enders, Commands
<1>36. CASE CooldownFires
  BY <1>36, <1>a, <1>b, <1>c, <1>d, <1>e, BeginTakes, QueueMoves, Constants
    
        DEF Happens, CooldownFires, KilledActive, KilledCandidate, Shape, Attempts,
         Enders, Commands
<1>37. CASE UNCHANGED vars
  BY <1>37, <1>a, <1>b, <1>c, <1>d, <1>e, BeginTakes, QueueMoves, Constants
     DEF vars, KilledActive, KilledCandidate, Shape, Attempts, Enders, Commands
<1> QED BY <1>1, <1>2, <1>3, <1>4, <1>5, <1>6, <1>7, <1>8, <1>9, <1>10, <1>11,
           <1>12, <1>13, <1>14, <1>15, <1>16, <1>17, <1>18, <1>19, <1>20, <1>21,
           <1>22, <1>22r, <1>23, <1>24, <1>25, <1>26, <1>27, <1>28, <1>29, <1>30, <1>31,
           <1>32, <1>33, <1>34, <1>35, <1>36, <1>37
           DEF Next, Progress, Deadline

(* ...and every killed candidate, unless it exits on its own between         *)
(* readiness and switch.                                                     *)
LEMMA KilledCandidateStep ==
    ASSUME TypeOK, Shape, Accounted, Disposing, KilledCandidate,
           "exit_in_switch" \notin Races, [Next]_vars
    PROVE  KilledCandidate'
<1>a. QueueType /\ UnitType
  BY TypeParts
<1>b. step \notin {"idle", "ended"} /\ Queued(Enders) => Queued(Enders)'
  BY <1>a, QueuedKept
<1>c. ASSUME NEW c, Taken(c), c.op \notin Enders, Queued(Enders)
      PROVE  Queued(Enders)'
  BY <1>a, <1>c, QueuedTaken
<1>d. ASSUME NEW c, Appended(c), Queued(Enders) \/ c.op \in Enders
      PROVE  Queued(Enders)'
  BY <1>a, <1>d, QueuedAppended
<1>e. UNCHANGED queue /\ Queued(Enders) => Queued(Enders)'
  BY QueuedSame
<1>1. CASE Start
  BY <1>1, <1>a, <1>b, <1>c, <1>d, <1>e, BeginTakes, QueueMoves, Constants
     DEF Start, KilledCandidate, Shape, Attempts, Enders, Commands, Accounted,
         UnitType
<1>2. CASE Stop
  BY <1>2, <1>a, <1>b, <1>c, <1>d, <1>e, BeginTakes, QueueMoves, Constants
     DEF Supersede, Superseded, Authorized, ClearTimers, ClearedRetry, Stop,
         Enqueue, Plain, KilledCandidate, Shape, Attempts, Enders, Commands,
         Accounted, UnitType
<1>3. CASE Kill
  <2>1. UNCHANGED <<candidate, step, unit>>
    BY <1>3 DEF Kill
  <2> QED BY <1>3, <2>1, KillQueues DEF KilledCandidate, Attempts
<1>4. CASE Restart
  BY <1>4, <1>a, <1>b, <1>c, <1>d, <1>e, BeginTakes, QueueMoves, Constants
     DEF Supersede, Superseded, Authorized, ClearTimers, ClearedRetry, Restart,
         Enqueue, Plain, KilledCandidate, Shape, Attempts, Enders, Commands,
         Accounted, UnitType
<1>5. CASE Dispose
  BY <1>5, <1>a, <1>b, <1>c, <1>d, <1>e, BeginTakes, QueueMoves, Constants
     DEF Supersede, Superseded, Authorized, ClearTimers, ClearedRetry, Dispose,
         Enqueue, Plain, KilledCandidate, Shape, Attempts, Enders, Commands,
         Accounted, UnitType
<1>6. CASE \E op \in {"replace_stop", "replace_switch"} : Replace(op)
  BY <1>6, <1>a, <1>b, <1>c, <1>d, <1>e, BeginTakes, QueueMoves, Constants
    
        DEF Replace, KilledCandidate, Shape, Attempts, Enders, Commands, Accounted,
         UnitType
<1>7. CASE \E c \in {"start", "backoff", "cooldown"} : BeginLaunch(c)
  BY <1>7
    
        DEF Begin, RunAttempt, End, KeepWaiting, BeginLaunch, Launch, KilledCandidate,
         Shape, Attempts, Enders, Commands, Accounted, UnitType
<1>8. CASE \E op \in {"stop", "dispose"} : Shutdown(op)
  BY <1>8
     DEF Begin, End, KeepWaiting, ClearTimers, ClearedRetry, Shutdown, Retire,
         Plain, KilledCandidate, Shape, Attempts, Enders, Commands, Accounted,
         UnitType
<1>9. CASE BeginRestart
  BY <1>9
     DEF Begin, RunAttempt, End, KeepWaiting, BeginRestart, Retire, Plain,
         KilledCandidate, Shape, Attempts, Enders, Commands, Accounted, UnitType
<1>10. CASE \E op \in {"replace_stop", "replace_switch"} : ReplaceRejected(op)
  BY <1>10
     DEF Begin, End, ReplaceRejected, Plain, KilledCandidate, Shape, Attempts,
         Enders, Commands, Accounted, UnitType
<1>11. CASE BeginReplaceStop
  BY <1>11
    
        DEF Begin, BeginReplaceStop, Retire, Plain, KilledCandidate, Shape, Attempts,
         Enders, Commands, Accounted, UnitType
<1>12. CASE BeginReplaceSwitch
  BY <1>12
    
        DEF Begin, End, BeginReplaceSwitch, Plain, KilledCandidate, Shape, Attempts,
         Enders, Commands, Accounted, UnitType
<1>13. CASE \E s \in Slot, op \in {"unhealthy", "failed"} : BeginUnitFailed(op, s)
  BY <1>13
    
        DEF Begin, End, BeginUnitFailed, Retire, UnitCommand, KilledCandidate, Shape,
         Attempts, Enders, Commands, Accounted, UnitType
<1>14. CASE StopRetired
  BY <1>14
    
        DEF Retiring, End, KeepWaiting, StopRetired, KilledCandidate, Shape, Attempts,
         Enders, Commands, Accounted, UnitType
<1>15. CASE DisposeRetired
  BY <1>15
     DEF Retiring, End, KeepWaiting, DisposeRetired, KilledCandidate, Shape,
         Attempts, Enders, Commands, Accounted, UnitType
<1>16. CASE RestartRetired
  BY <1>16
    
        DEF Retiring, RunAttempt, End, KeepWaiting, RestartRetired, KilledCandidate,
         Shape, Attempts, Enders, Commands, Accounted, UnitType
<1>17. CASE ReplaceStopRetired
  BY <1>17
     DEF Retiring, RunAttempt, End, KeepWaiting, ReplaceStopRetired,
         KilledCandidate, Shape, Attempts, Enders, Commands, Accounted, UnitType
<1>18. CASE \E op \in {"unhealthy", "failed"} : UnitFailedRetired(op)
  BY <1>18
    
        DEF Retiring, End, KeepWaiting, OnFailure, OneMoreFailure, Decide, Exhausted,
         EnterTerminal, ScheduleBackoff, NoDecision, ClearedRetry,
         UnitFailedRetired, KilledCandidate, Shape, Attempts, Enders, Commands,
         Accounted, UnitType
<1>19. CASE PreviousRetired
  BY <1>19
    
        DEF PreviousRetired, End, KilledCandidate, Shape, Attempts, Enders, Commands,
         Accounted, UnitType
<1>20. CASE \E s \in Slot : BudgetGrants(s)
  BY <1>20
     DEF Attempting, BudgetGrants, KilledCandidate, Shape, Attempts, Enders,
         Commands, Accounted, UnitType
<1>21. CASE BudgetRejects
  BY <1>21
    
        DEF Attempting, EndAttempt, End, OnFailure, OneMoreFailure, Decide, Exhausted,
         EnterTerminal, ScheduleBackoff, NoDecision, ClearedRetry, OldUnitPolicy,
         BudgetRejects, KilledCandidate, Shape, Attempts, Enders, Commands,
         Accounted, UnitType
<1>22. CASE AttemptReady
  BY <1>22, <1>a, <1>b, <1>c, <1>d, <1>e, BeginTakes, QueueMoves, Constants
     DEF Attempting, AttemptReady, Promote, KilledCandidate, Shape, Attempts, Enders,
         Commands, Accounted, UnitType
<1>22r. CASE ReplaceReturns
  BY <1>22r, <1>a, <1>b, <1>c, <1>d, <1>e, BeginTakes, QueueMoves, Constants
     DEF Attempting, ReplaceReturns, End, KilledCandidate, Shape, Attempts, Enders,
         Commands, Accounted, UnitType
<1>23. CASE Switch
  BY <1>23 DEF Attempting, Switch, KilledCandidate
<1>24. CASE AttemptFails
  BY <1>24
     DEF Attempting, AttemptFails, RollBack, KilledCandidate, Shape, Attempts,
         Enders, Commands, Accounted, UnitType
<1>25. CASE StartupTimeout
  BY <1>25
    
        DEF Attempting, StartupTimeout, RollBack, KilledCandidate, Shape, Attempts,
         Enders, Commands, Accounted, UnitType
<1>26. CASE RolledBack
  BY <1>26
    
        DEF Attempting, EndAttempt, End, OnFailure, OneMoreFailure, Decide, Exhausted,
         EnterTerminal, ScheduleBackoff, NoDecision, ClearedRetry, OldUnitPolicy,
         RolledBack, OwnsFailure, KilledCandidate, Shape, Attempts, Enders,
         Commands, Accounted, UnitType
<1>27. CASE QueueIdles
  BY <1>27 DEF QueueIdles, KilledCandidate
<1>28. CASE \E s \in Slot : LaunchResolves(s) \/ LaunchRejects(s)
  <2>1. PICK s \in Slot : LaunchResolves(s) \/ LaunchRejects(s)
    BY <1>28
  <2>2. unit[s] = "launching" /\ UNCHANGED <<step, candidate, retired, queue>>
    BY <2>1 DEF LaunchResolves, LaunchRejects, Happens
  <2>3. \A t \in Slot : t # s => unit'[t] = unit[t]
    BY <2>1, <1>a, UnitStep DEF LaunchResolves, LaunchRejects
  <2>4. step = "starting" => candidate \in Slot
    BY <1>a, Constants DEF Shape, UnitType
  <2>5. step = "starting" /\ unit'[candidate] # "gone" => unit[candidate] # "gone"
    BY <2>2, <2>3, <2>4
  <2>6. Queued(Enders)' <=> Queued(Enders)
    BY <2>2, QueuedSame
  <2> QED BY <2>2, <2>5, <2>6 DEF KilledCandidate
<1>29. CASE \E s \in Slot : RetiredExits(s)
  BY <1>29, <1>a, <1>b, <1>c, <1>d, <1>e, BeginTakes, QueueMoves, Constants
    
        DEF Happens, RetiredExits, Exits, KilledCandidate, Shape, Attempts, Enders,
         Commands, Accounted, UnitType
<1>30. CASE \E s \in Slot : CandidateExits(s)
  BY <1>30, <1>a, <1>b, <1>c, <1>d, <1>e, BeginTakes, QueueMoves, Constants
    
        DEF Happens, CandidateExits, Exits, KilledCandidate, Shape, Attempts, Enders,
         Commands, Accounted, UnitType
<1>31. CASE \E s \in Slot, clean \in BOOLEAN : ActiveExits(s, clean)
  BY <1>31, <1>a, <1>b, <1>c, <1>d, <1>e, BeginTakes, QueueMoves, Constants
     DEF Happens, KeepWaiting, OnFailure, OneMoreFailure, Decide, Exhausted,
         EnterTerminal, ScheduleBackoff, NoDecision, ClearedRetry, ActiveExits,
         Exits, CleanExit, KilledCandidate, Shape, Attempts, Enders, Commands,
         Accounted, UnitType
<1>32. CASE \E s \in Slot, op \in {"unhealthy", "failed"} : Fails(s, op)
  BY <1>32, <1>a, <1>b, <1>c, <1>d, <1>e, BeginTakes, QueueMoves, Constants
     DEF Happens, Fails, KilledCandidate, Shape, Attempts, Enders, Commands,
         Accounted, UnitType
<1>33. CASE \E s \in Slot : Abandon(s)
  BY <1>33, <1>a, <1>b, <1>c, <1>d, <1>e, BeginTakes, QueueMoves, Constants
     DEF Happens, Abandon, KilledCandidate, Shape, Attempts, Enders, Commands,
         Accounted, UnitType
<1>34. CASE FailureExpires
  BY <1>34, <1>a, <1>b, <1>c, <1>d, <1>e, BeginTakes, QueueMoves, Constants
     DEF Happens, FailureExpires, KilledCandidate, Shape, Attempts, Enders,
         Commands, Accounted, UnitType
<1>35. CASE BackoffFires
  BY <1>35, <1>a, <1>b, <1>c, <1>d, <1>e, BeginTakes, QueueMoves, Constants
    
        DEF Happens, BackoffFires, KilledCandidate, Shape, Attempts, Enders, Commands,
         Accounted, UnitType
<1>36. CASE CooldownFires
  BY <1>36, <1>a, <1>b, <1>c, <1>d, <1>e, BeginTakes, QueueMoves, Constants
     DEF Happens, CooldownFires, KilledCandidate, Shape, Attempts, Enders,
         Commands, Accounted, UnitType
<1>37. CASE UNCHANGED vars
  BY <1>37, <1>a, <1>b, <1>c, <1>d, <1>e, BeginTakes, QueueMoves, Constants
     DEF vars, KilledCandidate, Shape, Attempts, Enders, Commands, Accounted,
         UnitType
<1> QED BY <1>1, <1>2, <1>3, <1>4, <1>5, <1>6, <1>7, <1>8, <1>9, <1>10, <1>11,
           <1>12, <1>13, <1>14, <1>15, <1>16, <1>17, <1>18, <1>19, <1>20, <1>21,
           <1>22, <1>22r, <1>23, <1>24, <1>25, <1>26, <1>27, <1>28, <1>29, <1>30, <1>31,
           <1>32, <1>33, <1>34, <1>35, <1>36, <1>37
           DEF Next, Progress, Deadline

-----------------------------------------------------------------------------
(* The invariant, and the theorems. *)

(* The inductive invariant.                                                  *)
IInv ==
    /\ TypeOK
    /\ Shape /\ Accounted /\ Reported /\ StateFits
    /\ Disposing
    /\ RestartFirst /\ RestartSettled
    /\ LaunchOnce /\ LaunchSettled /\ StopBehindSwitch
    /\ Timers
    /\ PlannedAttempt /\ PlannedStart /\ PlannedBackoff /\ PlannedCooldown

(* What is known of killed units in addition.                                *)
Killed == KilledActive /\ KilledCandidate

(* It holds initially.                                                       *)
LEMMA InitIInv == Init => IInv /\ Killed
<1> SUFFICES ASSUME Init PROVE IInv /\ Killed
  OBVIOUS
<1>1. Len(queue) = 0 /\ queue = <<>>
  BY DEF Init
<1>2. TypeOK
  <2>1. QueueType
    BY DEF Init, QueueType
  <2>2. AttemptType
    BY AttemptTypes DEF Init, AttemptType
  <2>3. PolicyType
    <3>1. RetryType
      BY DEF Init, RetryType
    <3>2. 0 \in 0 .. MaxCalls /\ 0 \in 0 .. MaxRestarts + 1
      BY Constants
    <3> QED BY <3>1, <3>2 DEF Init, PolicyType
  <2>4. StateType /\ UnitType
    BY Constants DEF Init, StateType, UnitType
  <2> QED BY <2>1, <2>2, <2>3, <2>4, TypeParts
<1>3. \A ops : ~Queued(ops)
  BY <1>1 DEF Queued
<1>4. Shape /\ Accounted /\ Reported /\ StateFits
  BY <1>1, Constants
     DEF Init, Shape, Accounted, Reported, StateFits, Attempts, Enders, NoCommand, Plain
<1>5. Disposing /\ RestartFirst /\ LaunchOnce
  BY <1>1
     DEF Init, Disposing, RestartFirst, LaunchOnce, Pos, Pending, NoCommand, Plain
<1>6. RestartSettled /\ LaunchSettled /\ StopBehindSwitch
  BY <1>1, <1>3 DEF Init, RestartSettled, LaunchSettled, StopBehindSwitch
<1>7. Timers /\ PlannedAttempt /\ PlannedStart /\ PlannedBackoff /\ PlannedCooldown /\ Killed
  BY
     DEF Init, Timers, PlannedAttempt, PlannedStart, PlannedBackoff, PlannedCooldown, Authorized,
         Killed, KilledActive, KilledCandidate
<1> QED BY <1>2, <1>4, <1>5, <1>6, <1>7 DEF IInv

(* Every step keeps it, outside of the two orders.                           *)
LEMMA NextIInv == IInv /\ [Next]_vars /\ QuietRaces => IInv'
<1> SUFFICES ASSUME IInv, [Next]_vars, QuietRaces PROVE IInv'
  OBVIOUS
<1> USE DEF IInv
<1>1. QueueType' /\ AttemptType' /\ PolicyType' /\ StateType' /\ UnitType'
  BY TypeParts, QueueTypeStep, AttemptTypeStep, PolicyTypeStep, StateTypeStep, UnitTypeStep
<1>2. TypeOK'
  BY <1>1
     DEF TypeOK, QueueType, AttemptType, PolicyType, RetryType, StateType, UnitType, AttemptSet
<1>3. Shape' /\ Accounted' /\ Reported' /\ StateFits'
  BY ShapeStep, AccountedStep, ReportedStep, StateFitsStep
<1>4. Disposing' /\ Timers'
  BY DisposingStep, TimersStep
<1>5. RestartFirst' /\ RestartSettled'
  BY RestartFirstStep, RestartSettledStep
<1>6. LaunchOnce' /\ LaunchSettled' /\ StopBehindSwitch'
  BY LaunchOnceStep, LaunchSettledStep, StopBehindSwitchStep
<1>7. PlannedAttempt' /\ PlannedStart' /\ PlannedBackoff' /\ PlannedCooldown'
  BY PlannedAttemptStep, PlannedStartStep, PlannedBackoffStep, PlannedCooldownStep
<1> QED BY <1>2, <1>3, <1>4, <1>5, <1>6, <1>7

(* And the addition, if no candidate exits before its switch.                *)
LEMMA NextKilled ==
    IInv /\ Killed /\ [Next]_vars /\ "exit_in_switch" \notin Races => Killed'
BY KilledActiveStep, KilledCandidateStep DEF IInv, Killed

(* The invariant holds in every reachable state.                             *)
THEOREM Invariance == QuietRaces => (Spec => []IInv)
<1> SUFFICES ASSUME QuietRaces PROVE Spec => []IInv
  OBVIOUS
<1>1. IInv /\ [Next]_vars => IInv'
  BY NextIInv
<1> QED BY InitIInv, <1>1, PTL DEF Spec

(* With the addition, when all four orders are left out.                     *)
THEOREM KilledInvariance == Races = {} => (Spec => [](IInv /\ Killed))
<1> SUFFICES ASSUME Races = {} PROVE Spec => [](IInv /\ Killed)
  OBVIOUS
<1>1. QuietRaces /\ "exit_in_switch" \notin Races
  BY DEF QuietRaces
<1>2. IInv /\ Killed /\ [Next]_vars => (IInv /\ Killed)'
  BY <1>1, NextIInv, NextKilled
<1> QED BY InitIInv, <1>2, PTL DEF Spec

(* Type correctness: in every reachable state the queue, the attempt, the    *)
(* timers and the counters hold values of their types; the counter of        *)
(* failures never passes the limit by more than one.                         *)
THEOREM TypeCorrect == QuietRaces => (Spec => []TypeOK)
<1> SUFFICES ASSUME QuietRaces PROVE Spec => []TypeOK
  OBVIOUS
<1>1. IInv => TypeOK
  BY DEF IInv
<1>2. Spec => []IInv
  BY Invariance
<1> QED BY <1>1, <1>2, PTL

(* No orphan: whatever is called, exits, times out or is abandoned, every    *)
(* living unit that is not being stopped is the active one or the candidate  *)
(* of the running attempt. Neither a rollback that races a command, nor a    *)
(* switch, nor a kill loses a unit.                                          *)
THEOREM NoOrphanHolds == QuietRaces => (Spec => []NoOrphan)
<1> SUFFICES ASSUME QuietRaces PROVE Spec => []NoOrphan
  OBVIOUS
<1>1. IInv => NoOrphan
  BY DEF IInv, Accounted, NoOrphan, Owned
<1>2. Spec => []IInv
  BY Invariance
<1> QED BY <1>1, <1>2, PTL

(* Between commands there is no attempt, no candidate and nothing queued.    *)
LEMMA QuietIsSettled ==
    ASSUME IInv, Quiet
    PROVE  /\ candidate = None /\ replacement = "none" /\ step \notin Attempts
           /\ \A ops : ~Queued(ops)
BY DEF IInv, Quiet, Shape, Queued, Attempts

(* Between commands `ready` means that a live unit serves and nothing else   *)
(* does. This is the theorem that needs all four orders left out: a          *)
(* candidate that exits between readiness and switch is published as ready   *)
(* although it is gone, and of a unit that ends before the stop-then-start   *)
(* replacement that promoted it returns, nothing is left but the word ready. *)
THEOREM ServingConsistentHolds == Races = {} => (Spec => []ServingConsistent)
<1> SUFFICES ASSUME Races = {} PROVE Spec => []ServingConsistent
  OBVIOUS
<1>1. IInv /\ Killed => ServingConsistent
  <2> SUFFICES ASSUME IInv, Killed, Quiet
               PROVE  /\ candidate = None /\ replacement = "none"
                      /\ state \in Stable \cup {"backoff"}
                      /\ state = "ready" <=> active # None
                      /\ active # None => unit[active] = "running" /\ active \notin retired
    BY DEF ServingConsistent
  <2>1. step = "idle" /\ candidate = None /\ replacement = "none" /\ step \notin Attempts
    BY QuietIsSettled DEF Quiet
  <2>2. /\ ~Queued(Superseders) /\ ~Queued({"dispose"}) /\ ~Queued(Enders)
    BY QuietIsSettled
  <2>3. state \notin {"queued", "starting", "stopping"}
    BY <2>1, <2>2 DEF IInv, PlannedStart, StateFits
  <2>4. state \in Stable \cup {"backoff"}
    BY <2>3 DEF IInv, TypeOK, Stable
  <2>5. state = "ready" <=> active # None
    BY <2>1, <2>2, <2>3 DEF IInv, PlannedStart, StateFits
  <2>6. active # None => active \notin retired
    BY <2>1, <2>2 DEF Killed, KilledActive
  <2>7. active # None => unit[active] = "running"
    BY <2>6 DEF IInv, Accounted
  <2> QED BY <2>1, <2>4, <2>5, <2>6, <2>7
<1>2. Spec => [](IInv /\ Killed)
  BY KilledInvariance
<1> QED BY <1>1, <1>2, PTL

(* The restart policy is followed: backoff means a retry the policy allows   *)
(* and, between commands, a timer that will make it; giving up means the     *)
(* timer of its cooldown.                                                    *)
THEOREM RetryPlannedHolds == QuietRaces => (Spec => []RetryPlanned)
<1> SUFFICES ASSUME QuietRaces PROVE Spec => []RetryPlanned
  OBVIOUS
<1>1. IInv => RetryPlanned
  <2> SUFFICES ASSUME IInv PROVE RetryPlanned
    OBVIOUS
  <2>1. Quiet => ~Queued(Changers)
    BY QuietIsSettled
  <2> QED BY <2>1 DEF IInv, PlannedBackoff, PlannedCooldown, RetryPlanned
<1>2. Spec => []IInv
  BY Invariance
<1> QED BY <1>1, <1>2, PTL

(* A supervisor that is not open begins no attempt.                          *)
LEMMA ClosedBeginsNothing ==
    ASSUME lifecycle # "open", [Next]_vars
    PROVE  step' = "budget" => step = "budget"
<1>1. CASE Start
  BY <1>1 DEF Start
<1>2. CASE Stop
  BY <1>2 DEF Stop
<1>3. CASE Kill
  BY <1>3 DEF Kill
<1>4. CASE Restart
  BY <1>4 DEF Restart
<1>5. CASE Dispose
  BY <1>5 DEF Dispose
<1>6. CASE \E op \in {"replace_stop", "replace_switch"} : Replace(op)
  BY <1>6 DEF Replace
<1>7. CASE \E c \in {"start", "backoff", "cooldown"} : BeginLaunch(c)
  BY <1>7 DEF Begin, RunAttempt, End, KeepWaiting, BeginLaunch, Launch
<1>8. CASE \E op \in {"stop", "dispose"} : Shutdown(op)
  BY <1>8
     DEF Begin, End, KeepWaiting, ClearTimers, ClearedRetry, Shutdown, Retire,
         Plain
<1>9. CASE BeginRestart
  BY <1>9 DEF Begin, RunAttempt, End, KeepWaiting, BeginRestart, Retire, Plain
<1>10. CASE \E op \in {"replace_stop", "replace_switch"} : ReplaceRejected(op)
  BY <1>10 DEF Begin, End, ReplaceRejected, Plain
<1>11. CASE BeginReplaceStop
  BY <1>11 DEF Begin, BeginReplaceStop, Retire, Plain
<1>12. CASE BeginReplaceSwitch
  BY <1>12 DEF Begin, End, BeginReplaceSwitch, Plain
<1>13. CASE \E s \in Slot, op \in {"unhealthy", "failed"} : BeginUnitFailed(op, s)
  BY <1>13 DEF Begin, End, BeginUnitFailed, Retire, UnitCommand
<1>14. CASE StopRetired
  BY <1>14 DEF Retiring, End, KeepWaiting, StopRetired
<1>15. CASE DisposeRetired
  BY <1>15 DEF Retiring, End, KeepWaiting, DisposeRetired
<1>16. CASE RestartRetired
  BY <1>16 DEF Retiring, RunAttempt, End, KeepWaiting, RestartRetired
<1>17. CASE ReplaceStopRetired
  BY <1>17 DEF Retiring, RunAttempt, End, KeepWaiting, ReplaceStopRetired
<1>18. CASE \E op \in {"unhealthy", "failed"} : UnitFailedRetired(op)
  BY <1>18
    
        DEF Retiring, End, KeepWaiting, OnFailure, OneMoreFailure, Decide, Exhausted,
         EnterTerminal, ScheduleBackoff, NoDecision, ClearedRetry,
         UnitFailedRetired
<1>19. CASE PreviousRetired
  BY <1>19 DEF PreviousRetired, End
<1>20. CASE \E s \in Slot : BudgetGrants(s)
  BY <1>20 DEF Attempting, BudgetGrants
<1>21. CASE BudgetRejects
  BY <1>21 DEF Attempting, BudgetRejects
<1>22. CASE AttemptReady
  BY <1>22 DEF Attempting, End, KeepWaiting, AttemptReady, Promote
<1>22r. CASE ReplaceReturns
  BY <1>22r DEF Attempting, End, ReplaceReturns
<1>23. CASE Switch
  BY <1>23 DEF Attempting, Switch
<1>24. CASE AttemptFails
  BY <1>24 DEF Attempting, AttemptFails, RollBack
<1>25. CASE StartupTimeout
  BY <1>25 DEF Attempting, StartupTimeout, RollBack
<1>26. CASE RolledBack
  BY <1>26
    
        DEF Attempting, EndAttempt, End, OnFailure, OneMoreFailure, Decide, Exhausted,
         EnterTerminal, ScheduleBackoff, NoDecision, ClearedRetry, OldUnitPolicy,
         RolledBack, OwnsFailure
<1>27. CASE QueueIdles
  BY <1>27 DEF QueueIdles
<1>28. CASE \E s \in Slot : LaunchResolves(s) \/ LaunchRejects(s)
  BY <1>28 DEF Happens, LaunchResolves, LaunchRejects
<1>29. CASE \E s \in Slot : RetiredExits(s)
  BY <1>29 DEF Happens, RetiredExits, Exits
<1>30. CASE \E s \in Slot : CandidateExits(s)
  BY <1>30 DEF Happens, CandidateExits, Exits
<1>31. CASE \E s \in Slot, clean \in BOOLEAN : ActiveExits(s, clean)
  BY <1>31
     DEF Happens, KeepWaiting, OnFailure, OneMoreFailure, Decide, Exhausted,
         EnterTerminal, ScheduleBackoff, NoDecision, ClearedRetry, ActiveExits,
         Exits, CleanExit
<1>32. CASE \E s \in Slot, op \in {"unhealthy", "failed"} : Fails(s, op)
  BY <1>32 DEF Happens, Fails
<1>33. CASE \E s \in Slot : Abandon(s)
  BY <1>33 DEF Happens, Abandon
<1>34. CASE FailureExpires
  BY <1>34 DEF Happens, FailureExpires
<1>35. CASE BackoffFires
  BY <1>35 DEF Happens, BackoffFires
<1>36. CASE CooldownFires
  BY <1>36 DEF Happens, CooldownFires
<1>37. CASE UNCHANGED vars
  BY <1>37 DEF vars
<1> QED BY <1>1, <1>2, <1>3, <1>4, <1>5, <1>6, <1>7, <1>8, <1>9, <1>10, <1>11,
           <1>12, <1>13, <1>14, <1>15, <1>16, <1>17, <1>18, <1>19, <1>20, <1>21,
           <1>22, <1>22r, <1>23, <1>24, <1>25, <1>26, <1>27, <1>28, <1>29, <1>30, <1>31,
           <1>32, <1>33, <1>34, <1>35, <1>36, <1>37
           DEF Next, Progress, Deadline

(* One that is terminal stays so.                                            *)
LEMMA TerminalStays ==
    ASSUME IInv, lifecycle = "terminal", [Next]_vars
    PROVE  lifecycle' = "terminal"
<1>1. CASE Start
  BY <1>1 DEF Start, IInv
<1>2. CASE Stop
  BY <1>2 DEF Stop, IInv
<1>3. CASE Kill
  BY <1>3 DEF Kill, IInv
<1>4. CASE Restart
  BY <1>4 DEF Restart, IInv
<1>5. CASE Dispose
  BY <1>5 DEF Dispose, IInv
<1>6. CASE \E op \in {"replace_stop", "replace_switch"} : Replace(op)
  BY <1>6 DEF Replace, IInv
<1>7. CASE \E c \in {"start", "backoff", "cooldown"} : BeginLaunch(c)
  BY <1>7 DEF Begin, BeginLaunch, IInv
<1>8. CASE \E op \in {"stop", "dispose"} : Shutdown(op)
  <2>1. PICK op \in {"stop", "dispose"} : Shutdown(op)
    BY <1>8
  <2>2. QueueType
    BY TypeParts DEF IInv
  <2>3. Taken(Plain(op)) /\ Plain(op).op = op
    BY <2>1, <2>2, BeginTakes DEF Shutdown, Plain
  <2>4. Ops(1) \in {"unhealthy", "failed"} /\ Ops(1) = op
    BY <2>2, <2>3, TakenIsQueued DEF IInv, Disposing, Ops, Pos
  <2> QED BY <2>1, <2>4
<1>9. CASE BeginRestart
  BY <1>9 DEF Begin, BeginRestart, IInv
<1>10. CASE \E op \in {"replace_stop", "replace_switch"} : ReplaceRejected(op)
  BY <1>10 DEF Begin, ReplaceRejected, IInv
<1>11. CASE BeginReplaceStop
  BY <1>11 DEF Begin, BeginReplaceStop, IInv
<1>12. CASE BeginReplaceSwitch
  BY <1>12 DEF Begin, BeginReplaceSwitch, IInv
<1>13. CASE \E s \in Slot, op \in {"unhealthy", "failed"} : BeginUnitFailed(op, s)
  BY <1>13 DEF Begin, BeginUnitFailed, IInv
<1>14. CASE StopRetired
  BY <1>14 DEF Retiring, StopRetired, IInv
<1>15. CASE DisposeRetired
  BY <1>15 DEF Retiring, DisposeRetired, IInv
<1>16. CASE RestartRetired
  BY <1>16 DEF Retiring, RestartRetired, IInv
<1>17. CASE ReplaceStopRetired
  BY <1>17 DEF Retiring, ReplaceStopRetired, IInv
<1>18. CASE \E op \in {"unhealthy", "failed"} : UnitFailedRetired(op)
  BY <1>18 DEF Retiring, UnitFailedRetired, IInv
<1>19. CASE PreviousRetired
  BY <1>19 DEF PreviousRetired, IInv
<1>20. CASE \E s \in Slot : BudgetGrants(s)
  BY <1>20 DEF Attempting, BudgetGrants, IInv
<1>21. CASE BudgetRejects
  BY <1>21 DEF Attempting, BudgetRejects, IInv
<1>22. CASE AttemptReady
  BY <1>22 DEF Attempting, AttemptReady, Promote, IInv
<1>22r. CASE ReplaceReturns
  BY <1>22r DEF Attempting, ReplaceReturns, End, IInv
<1>23. CASE Switch
  BY <1>23 DEF Attempting, Switch, IInv
<1>24. CASE AttemptFails
  BY <1>24 DEF Attempting, AttemptFails, IInv
<1>25. CASE StartupTimeout
  BY <1>25 DEF Attempting, StartupTimeout, IInv
<1>26. CASE RolledBack
  BY <1>26 DEF Attempting, RolledBack, IInv
<1>27. CASE QueueIdles
  BY <1>27 DEF QueueIdles, IInv
<1>28. CASE \E s \in Slot : LaunchResolves(s) \/ LaunchRejects(s)
  BY <1>28 DEF Happens, LaunchResolves, LaunchRejects, IInv
<1>29. CASE \E s \in Slot : RetiredExits(s)
  BY <1>29 DEF Happens, RetiredExits, Exits, IInv, Disposing
<1>30. CASE \E s \in Slot : CandidateExits(s)
  BY <1>30 DEF Happens, CandidateExits, Exits, IInv, Disposing
<1>31. CASE \E s \in Slot, clean \in BOOLEAN : ActiveExits(s, clean)
  BY <1>31
     DEF Happens, KeepWaiting, OnFailure, OneMoreFailure, Decide, Exhausted,
         EnterTerminal, ScheduleBackoff, NoDecision, ClearedRetry, ActiveExits,
         Exits, CleanExit, IInv, Disposing
<1>32. CASE \E s \in Slot, op \in {"unhealthy", "failed"} : Fails(s, op)
  BY <1>32 DEF Happens, Fails, IInv
<1>33. CASE \E s \in Slot : Abandon(s)
  BY <1>33 DEF Happens, Abandon, IInv
<1>34. CASE FailureExpires
  BY <1>34 DEF Happens, FailureExpires, IInv
<1>35. CASE BackoffFires
  BY <1>35 DEF Happens, BackoffFires, IInv
<1>36. CASE CooldownFires
  BY <1>36 DEF Happens, CooldownFires, IInv
<1>37. CASE UNCHANGED vars
  BY <1>37 DEF vars, IInv
<1> QED BY <1>1, <1>2, <1>3, <1>4, <1>5, <1>6, <1>7, <1>8, <1>9, <1>10, <1>11,
           <1>12, <1>13, <1>14, <1>15, <1>16, <1>17, <1>18, <1>19, <1>20, <1>21,
           <1>22, <1>22r, <1>23, <1>24, <1>25, <1>26, <1>27, <1>28, <1>29, <1>30, <1>31,
           <1>32, <1>33, <1>34, <1>35, <1>36, <1>37
           DEF Next, Progress, Deadline

(* A timer belongs to the last decision: whatever supersedes, times out or   *)
(* exits at once, no two backoff timers live, and none outlives its backoff. *)
THEOREM TimersFollowStateHolds == QuietRaces => (Spec => []TimersFollowState)
<1>1. IInv => TimersFollowState
  BY DEF IInv, Timers, TimersFollowState
<1> QED BY <1>1, Invariance, PTL

(* dispose() is final: after it no attempt begins, and once it is over the   *)
(* state never changes and no unit is owned.                                 *)
THEOREM DisposedIsFinalHolds == QuietRaces => (Spec => DisposedIsFinal)
<1> SUFFICES ASSUME QuietRaces PROVE Spec => DisposedIsFinal
  OBVIOUS
<1>1. [Next]_vars => [lifecycle # "open" => (step' = "budget" => step = "budget")]_vars
  BY ClosedBeginsNothing
<1>2. IInv /\ [Next]_vars =>
        [state = "disposed" => state' = "disposed" /\ active = None /\ Owned = {}]_vars
  <2> SUFFICES ASSUME IInv, [Next]_vars, state = "disposed"
               PROVE  state' = "disposed" /\ active = None /\ Owned = {}
    OBVIOUS
  <2>1. lifecycle = "terminal" /\ active = None /\ candidate = None
    BY DEF IInv, Disposing, Shape
  <2>2. Owned = {}
    BY <2>1, Constants DEF IInv, Accounted, Owned
  <2>3. lifecycle' = "terminal" /\ IInv'
    BY <2>1, TerminalStays, NextIInv
  <2>4. state' = "disposed"
    BY <2>3 DEF IInv, Disposing
  <2> QED BY <2>1, <2>2, <2>4
<1>3. Spec => []IInv
  BY Invariance
<1> QED BY <1>1, <1>2, <1>3, PTL DEF Spec, DisposedIsFinal

=============================================================================
