--------------------------- MODULE VersionedCell ---------------------------
(***************************************************************************)
(* What a shared int32 cell promises the threads that use it: a register   *)
(* whose value carries a version.  An operation takes effect at one        *)
(* instant between its call and its return; a read returns the value and   *)
(* the version of that instant; a change advances the version by two; an   *)
(* update applies its function to the value it replaces; a write of the    *)
(* present value and an operation that gives up change nothing.            *)
(***************************************************************************)
EXTENDS Integers

CONSTANTS Agents, Values, Fn, Idle, NoValue

VARIABLES
  value,    \* the value every consistent read returns
  version,  \* its version, always even
  call,     \* the call each agent is inside, or Idle
  got       \* what its last call returned, until the next one

cellVars == <<value, version, call, got>>

\* Only a set carries the value to install.
Request(kind, v) == [kind |-> kind, next |-> v]

Requests ==
  {Request(k, NoValue) : k \in {"read", "update"}} \cup {Request("set", v) : v \in Values}

\* What a caller is told: a value with its version (NoValue, 0 with a failure).
Result(kind, v, n) == [kind |-> kind, value |-> v, version |-> n]

Init ==
  /\ value \in Values
  /\ version = 0
  /\ call = [a \in Agents |-> Idle]
  /\ got = [a \in Agents |-> Result("none", NoValue, 0)]

Invoke(a, request) ==
  /\ call[a] = Idle
  /\ call' = [call EXCEPT ![a] = request]
  /\ got' = [got EXCEPT ![a] = Result("none", NoValue, 0)]
  /\ UNCHANGED <<value, version>>

Finish(a, result) ==
  /\ call' = [call EXCEPT ![a] = Idle]
  /\ got' = [got EXCEPT ![a] = result]

Read(a) ==
  /\ call[a] # Idle /\ call[a].kind = "read"
  /\ Finish(a, Result("read", value, version))
  /\ UNCHANGED <<value, version>>

\* The value a set or an update installs, given the value it replaces.
Wanted(a) == IF call[a].kind = "set" THEN call[a].next ELSE Fn[value]

Change(a) ==
  /\ call[a] # Idle /\ call[a].kind \in {"set", "update"}
  /\ Wanted(a) # value
  /\ value' = Wanted(a)
  /\ version' = version + 2
  /\ Finish(a, Result("wrote", value', version'))

Same(a) ==
  /\ call[a] # Idle /\ call[a].kind \in {"set", "update"}
  /\ Wanted(a) = value
  /\ Finish(a, Result("same", value, version))
  /\ UNCHANGED <<value, version>>

GiveUp(a) ==
  /\ call[a] # Idle
  /\ Finish(a, Result("contention", NoValue, 0))
  /\ UNCHANGED <<value, version>>

Next ==
  \E a \in Agents :
     \/ \E request \in Requests : Invoke(a, request)
     \/ Read(a)
     \/ Change(a)
     \/ Same(a)
     \/ GiveUp(a)

Spec == Init /\ [][Next]_cellVars
=============================================================================
