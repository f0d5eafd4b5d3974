---------------------------- MODULE FifoExecutor ----------------------------
(***************************************************************************)
(* What a mutation queue promises its callers: submitted tasks run one at  *)
(* a time, in the order they were submitted, and a task that is refused or *)
(* gives up waiting never runs.                                            *)
(***************************************************************************)
CONSTANTS Task          \* the tasks that callers may submit, each once

VARIABLES waiting,      \* submitted tasks that have not started
          older,        \* per task, the waiting tasks submitted before it
          active,       \* the tasks that have started and not settled
          settled       \* the tasks whose promise is settled

vars == <<waiting, older, active, settled>>

Init ==
    /\ waiting = {} /\ older = [t \in Task |-> {}]
    /\ active = {} /\ settled = {}

Fresh(t) == t \notin waiting \cup active \cup settled

\* A task that leaves is in front of nobody any more.
Leave(t) ==
    /\ t \in waiting
    /\ waiting' = waiting \ {t}
    /\ older' = [u \in Task |-> IF u = t THEN {} ELSE older[u] \ {t}]

Submit(t) ==
    /\ Fresh(t)
    /\ waiting' = waiting \cup {t}
    /\ older' = [older EXCEPT ![t] = waiting]
    /\ UNCHANGED <<active, settled>>

Refuse(t) ==
    /\ Fresh(t)
    /\ settled' = settled \cup {t}
    /\ UNCHANGED <<waiting, older, active>>

GiveUp(t) ==
    /\ Leave(t)
    /\ settled' = settled \cup {t}
    /\ UNCHANGED active

Start(t) ==
    /\ active = {} /\ older[t] = {}
    /\ Leave(t)
    /\ active' = {t}
    /\ UNCHANGED settled

Settle(t) ==
    /\ t \in active
    /\ active' = active \ {t}
    /\ settled' = settled \cup {t}
    /\ UNCHANGED <<waiting, older>>

Next == \E t \in Task : Submit(t) \/ Refuse(t) \/ GiveUp(t) \/ Start(t) \/ Settle(t)

Spec == Init /\ [][Next]_vars
=============================================================================
