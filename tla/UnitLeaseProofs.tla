--------------------------- MODULE UnitLeaseProofs ---------------------------
(***************************************************************************)
(* Proofs about the two ends of a unit's lease in packages/supervision.    *)
(*                                                                         *)
(* UnitBudget, which grants it, for every capacity, launch rate and number *)
(* of requests, with and without a parent: the capacity bound, that slots  *)
(* and leases of the parent are held by exactly those who may hold them,   *)
(* that grants are first in first out, that close() is final, that no      *)
(* window holds more grants than the launch rate, and the types.           *)
(*                                                                         *)
(* UnitTeardown (Unit), which gives it back, for every combination of the  *)
(* options: that it implements UnitSlot (its safety).                      *)
(***************************************************************************)
EXTENDS UnitBudget, FiniteSetTheorems, TLAPS

-----------------------------------------------------------------------------
(* Capacity.                                                               *)

CapacityInv == IsFiniteSet(local) /\ Cardinality(local) <= MaxUnits

\* Adding to a set that is not full, and taking away, keep the bound.
LEMMA OneMore ==
    ASSUME CapacityInv, NEW r, ~Full \/ r \in local
    PROVE  IsFiniteSet(local \cup {r}) /\ Cardinality(local \cup {r}) <= MaxUnits
<1>1. MaxUnits \in Nat
  BY ConstantsAssumption
<1>2. Cardinality(local) \in Nat
  BY FS_CardinalityType DEF CapacityInv
<1>3. CASE r \in local
  <2>1. local \cup {r} = local
    BY <1>3
  <2> QED BY <2>1 DEF CapacityInv
<1>4. CASE r \notin local /\ ~Full
  <2>1. IsFiniteSet(local \cup {r}) /\ Cardinality(local \cup {r}) = Cardinality(local) + 1
    BY <1>4, FS_AddElement DEF CapacityInv
  <2> QED BY <2>1, <1>1, <1>2, <1>4 DEF Full
<1> QED BY <1>3, <1>4

LEMMA OneLess ==
    ASSUME CapacityInv, NEW r
    PROVE  IsFiniteSet(local \ {r}) /\ Cardinality(local \ {r}) <= MaxUnits
<1>1. MaxUnits \in Nat
  BY ConstantsAssumption
<1>2. Cardinality(local) \in Nat
  BY FS_CardinalityType DEF CapacityInv
<1>3. IsFiniteSet(local \ {r})
      /\ Cardinality(local \ {r}) = IF r \in local THEN Cardinality(local) - 1
                                                  ELSE Cardinality(local)
  BY FS_RemoveElement DEF CapacityInv
<1> QED BY <1>1, <1>2, <1>3 DEF CapacityInv

LEMMA CapacityStep == CapacityInv /\ [Next]_vars => CapacityInv'
<1> SUFFICES ASSUME CapacityInv, [Next]_vars PROVE CapacityInv'
  OBVIOUS
<1>1. \/ local' = local
      \/ ~Full /\ \E r : local' = local \cup {r}
      \/ \E r : local' = local \ {r}
  BY DEF Next, vars, TryRefused, Refuse, Called, TryGranted, Take, AcquireRefused,
         AcquireIdle, AcquireQueued, Admissible, Admit, IsFull, CallerCancels,
         QueueFailed, Cancel, Release, GiveBack, Close, Closing, HeadResumes,
         QueueAdvances, Begin, QueueIdles, ParentAnswers, HeadWithdraws, HeadRefused,
         HeadThrows, HeadGranted, Grant, Expire, RateTimerFires
<1>2. CASE local' = local
  BY <1>2 DEF CapacityInv
<1>3. CASE ~Full /\ \E r : local' = local \cup {r}
  BY <1>3, OneMore DEF CapacityInv
<1>4. CASE \E r : local' = local \ {r}
  BY <1>4, OneLess DEF CapacityInv
<1> QED BY <1>1, <1>2, <1>3, <1>4

\* At no time are more slots taken than the budget has.
THEOREM CapacityTheorem == Spec => []CapacityHolds
<1>1. Init => CapacityInv
  <2>1. IsFiniteSet({}) /\ Cardinality({}) = 0
    BY FS_EmptySet
  <2> QED BY <2>1, ConstantsAssumption DEF Init, CapacityInv
<1>2. CapacityInv => CapacityHolds
  BY DEF CapacityInv, CapacityHolds
<1> QED BY <1>1, <1>2, CapacityStep, PTL DEF Spec

-----------------------------------------------------------------------------
(* Who holds what.                                                         *)

Status == {"new", "pending", "granted", "released"} \cup Refusals

\* Calls are numbered in order, and nothing is known of those to come.
Numbered ==
    /\ calls \in 0 .. MaxRequests
    /\ status \in [Request -> Status]
    /\ queued \subseteq 1 .. calls
    /\ head \in 0 .. calls
    /\ phase # "idle" => head # None
    /\ \A r \in Request : r > calls => status[r] = "new"

\* The head is in front of its parent, and has not been granted.
InFront ==
    /\ phase = "upstream" <=> upstream # "none"
    /\ phase = "upstream" => HasParent /\ status[head] # "granted"

LeaseInv == Numbered /\ InFront /\ LeasesMatch

LEMMA LeaseInit == Init => LeaseInv
BY ConstantsAssumption
   DEF Init, LeaseInv, Numbered, InFront, LeasesMatch, Request, None, Status, Granted

\* A pass of the admission loop, for a request whose statuses grant the same.
LEMMA AdmitKeeps ==
    ASSUME LeaseInv, NEW r \in Request, NEW s \in [Request -> Status],
           phase # "upstream", {q \in Request : s[q] = "granted"} = Granted,
           Admit(r, s), parentHeld' = parentHeld, HasParent' = HasParent
    PROVE  /\ status' \in [Request -> Status] /\ head' = r /\ phase' # "idle"
           /\ \A q \in Request \ {r} : status'[q] = s[q]
           /\ InFront' /\ LeasesMatch'
<1>1. upstream = "none" /\ local = Granted
      /\ parentHeld = (IF HasParent THEN Granted ELSE {})
  BY DEF LeaseInv, InFront, LeasesMatch
<1>2. CASE /\ status' = s /\ local' = local /\ upstream' = upstream
           /\ phase' \in {"returned", "waiting"} /\ head' = r
  <2>1. Granted' = Granted
    BY <1>2 DEF Granted
  <2> QED BY <1>1, <1>2, <2>1 DEF InFront, LeasesMatch
<1>3. CASE /\ status' = s /\ local' = local \cup {r} /\ upstream' = "pending"
           /\ phase' = "upstream" /\ head' = r /\ HasParent /\ s[r] = "pending"
  <2>1. Granted' = Granted
    BY <1>3 DEF Granted
  <2> QED BY <1>1, <1>3, <2>1 DEF InFront, LeasesMatch
<1>4. CASE /\ status' = [s EXCEPT ![r] = "granted"] /\ local' = local \cup {r}
           /\ upstream' = upstream /\ phase' = "returned" /\ head' = r /\ ~HasParent
  <2>1. Granted' = Granted \cup {r} /\ status' \in [Request -> Status]
    BY <1>4 DEF Granted, Status
  <2> QED BY <1>1, <1>4, <2>1 DEF InFront, LeasesMatch
<1> QED BY <1>2, <1>3, <1>4 DEF Admit, Wait, Return

LEMMA LeaseStep == LeaseInv /\ [Next]_vars => LeaseInv'
<1> SUFFICES ASSUME LeaseInv, [Next]_vars PROVE LeaseInv'
  OBVIOUS
<1> USE DEF Request
<1>0. MaxRequests \in Nat \ {0} /\ calls \in Nat
  BY ConstantsAssumption DEF LeaseInv, Numbered
<1>p. policy' = policy
  BY DEF Next, vars, TryRefused, Refuse, Called, TryGranted, Take, AcquireRefused,
         AcquireIdle, AcquireQueued, Admissible, CallerCancels, QueueFailed, Cancel,
         Release, GiveBack, Close, Closing, HeadResumes, QueueAdvances, QueueIdles,
         ParentAnswers, HeadReturns, HeadWithdraws, HeadRefused, HeadThrows,
         HeadGranted, Grant, Expire, RateTimerFires
<1> HasParent' = HasParent
  BY <1>p DEF HasParent
\* A refusal of a fresh call, and a cancellation, take nothing and give nothing.
<1>a. ASSUME NEW r \in Request, NEW v \in Status \ {"granted"},
             status[r] # "granted", status' = [status EXCEPT ![r] = v],
             head' = head, upstream' = upstream, local' = local, parentHeld' = parentHeld,
             phase' = "upstream" <=> phase = "upstream",
             phase' = "idle" <=> phase = "idle",
             \/ calls' = calls /\ r <= calls /\ queued' = queued
             \/ calls' = r /\ r = calls + 1 /\ queued' \in SUBSET (queued \cup {r})
      PROVE  LeaseInv'
  <2>1. Granted' = Granted /\ status' \in [Request -> Status]
    BY <1>a DEF Granted, LeaseInv, Numbered
  <2>5. calls' \in 0 .. MaxRequests /\ calls <= calls' /\ r <= calls'
    BY <1>0, <1>a DEF LeaseInv, Numbered
  <2>8. queued' \subseteq queued \cup {r} /\ queued \subseteq 1 .. calls
    BY <1>a DEF LeaseInv, Numbered
  <2>9. \A q \in 1 .. calls : q \in 1 .. calls'
    BY <1>0, <2>5
  <2>10. r \in 1 .. calls'
    BY <1>0, <2>5
  <2>11. head' \in 0 .. calls'
    BY <1>0, <1>a, <2>5 DEF LeaseInv, Numbered
  <2>6. queued' \subseteq 1 .. calls' /\ head' \in 0 .. calls'
    BY <2>8, <2>9, <2>10, <2>11
  <2>7. \A q \in Request : q > calls' => status'[q] = "new"
    BY <1>0, <1>a, <2>5 DEF LeaseInv, Numbered
  <2>2. Numbered'
    BY <1>a, <2>1, <2>5, <2>6, <2>7 DEF LeaseInv, Numbered
  <2>3. phase = "upstream" => status'[head] # "granted"
    BY <1>a DEF LeaseInv, InFront, Numbered, None
  <2>4. InFront' /\ LeasesMatch'
    BY <1>a, <2>1, <2>3 DEF LeaseInv, InFront, LeasesMatch
  <2> QED BY <2>2, <2>4 DEF LeaseInv
\* A pass of the admission loop.
<1>b. ASSUME NEW r \in Request, NEW s \in [Request -> Status], phase # "upstream",
             {q \in Request : s[q] = "granted"} = Granted, Admit(r, s),
             parentHeld' = parentHeld, r <= calls', calls' \in 0 .. MaxRequests,
             calls <= calls', queued' \in SUBSET queued,
             \A q \in Request : q > calls' => s[q] = "new"
      PROVE  LeaseInv'
  <2>1. /\ status' \in [Request -> Status] /\ head' = r /\ phase' # "idle"
        /\ \A q \in Request \ {r} : status'[q] = s[q]
        /\ InFront' /\ LeasesMatch'
    BY <1>b, AdmitKeeps
  <2>2. Numbered'
    BY <1>0, <1>b, <2>1 DEF LeaseInv, Numbered, None
  <2> QED BY <2>1, <2>2 DEF LeaseInv
<1>c. ASSUME NEW r \in Request, Called(r)
      PROVE  r = calls + 1 /\ calls' = r /\ status[r] = "new"
  BY <1>0, <1>c DEF Called, LeaseInv, Numbered
<1>1. CASE \E r \in Request : TryRefused(r) \/ AcquireRefused(r)
  <2> PICK r \in Request : TryRefused(r) \/ AcquireRefused(r)
    BY <1>1
  <2>1. \E v \in Refusals : status' = [status EXCEPT ![r] = v]
    BY DEF TryRefused, AcquireRefused, Refuse, Refusals
  <2>2. /\ Called(r) /\ queued' = queued /\ head' = head /\ phase' = phase
        /\ upstream' = upstream /\ local' = local /\ parentHeld' = parentHeld
    BY DEF TryRefused, AcquireRefused, Refuse, task
  <2> QED BY <1>a, <1>c, <2>1, <2>2 DEF Status, Refusals
<1>2. CASE \E r \in Request : TryGranted(r)
  <2> PICK r \in Request : TryGranted(r)
    BY <1>2
  <2>1. /\ Called(r) /\ queued' = queued /\ head' = head /\ phase' = phase
        /\ upstream' = upstream /\ status' = [status EXCEPT ![r] = "granted"]
        /\ local' = local \cup {r}
        /\ parentHeld' = IF HasParent THEN parentHeld \cup {r} ELSE parentHeld
    BY DEF TryGranted, Take, task
  <2>2. Granted' = Granted \cup {r} /\ status' \in [Request -> Status]
    BY <2>1 DEF Granted, LeaseInv, Numbered, Status
  <2>3. Numbered'
    BY <1>0, <1>c, <2>1, <2>2 DEF LeaseInv, Numbered, None
  <2>4. phase = "upstream" => status'[head] # "granted"
    BY <1>0, <1>c, <2>1 DEF LeaseInv, InFront, Numbered, None
  <2>5. InFront' /\ LeasesMatch'
    BY <2>1, <2>2, <2>4 DEF LeaseInv, InFront, LeasesMatch
  <2> QED BY <2>3, <2>5 DEF LeaseInv
<1>3. CASE \E r \in Request : AcquireIdle(r)
  <2> PICK r \in Request : AcquireIdle(r)
    BY <1>3
  <2>1. /\ Called(r) /\ phase = "idle" /\ Admit(r, Waiting(r)) /\ queued' = queued
        /\ parentHeld' = parentHeld
    BY DEF AcquireIdle, Admissible
  <2>2. /\ Waiting(r) \in [Request -> Status]
        /\ \A q \in Request : q > r => Waiting(r)[q] = "new"
        /\ \A q \in Request : Waiting(r)[q] = IF q = r THEN "pending" ELSE status[q]
    BY <1>0, <1>c, <2>1 DEF Waiting, LeaseInv, Numbered, Status
  <2>3. {q \in Request : Waiting(r)[q] = "granted"} = Granted
    BY <1>c, <2>1, <2>2 DEF Granted
  <2> QED BY <1>0, <1>b, <1>c, <2>1, <2>2, <2>3
<1>4. CASE \E r \in Request : AcquireQueued(r)
  <2> PICK r \in Request : AcquireQueued(r)
    BY <1>4
  <2>1. /\ Called(r) /\ status' = [status EXCEPT ![r] = "pending"]
        /\ queued' = queued \cup {r} /\ head' = head /\ phase' = phase
        /\ upstream' = upstream /\ local' = local /\ parentHeld' = parentHeld
    BY DEF AcquireQueued, Admissible, Waiting, task
  <2> QED BY <1>a, <1>c, <2>1 DEF Status
<1>d. ASSUME NEW r \in Request, NEW v \in Refusals, Cancel(r, v)
      PROVE  LeaseInv'
  <2>1. /\ status[r] = "pending" /\ status' = [status EXCEPT ![r] = v]
        /\ calls' = calls /\ queued' = queued /\ head' = head /\ upstream' = upstream
        /\ local' = local /\ parentHeld' = parentHeld
        /\ phase' = IF phase = "waiting" THEN "woken" ELSE phase
    BY <1>d DEF Cancel, Notify
  <2>2. r <= calls
    BY <1>0, <2>1 DEF LeaseInv, Numbered
  <2> QED BY <1>a, <2>1, <2>2 DEF Status, Refusals
<1>5. CASE \E r \in Request : CallerCancels(r)
  BY <1>5, <1>d DEF CallerCancels, Refusals
<1>e. ASSUME UNCHANGED <<calls, status, queued, head, upstream, local, parentHeld>>,
             phase' = "upstream" <=> phase = "upstream",
             phase' = "idle" <=> phase = "idle"
      PROVE  LeaseInv'
  BY <1>e DEF LeaseInv, Numbered, InFront, LeasesMatch, Granted
<1>6. CASE \E r \in Request : QueueFailed(r)
  <2> PICK r \in Request : QueueFailed(r)
    BY <1>6
  <2>1. CASE Cancel(r, "closed")
    BY <2>1, <1>d DEF Refusals
  <2>2. CASE UNCHANGED <<calls, status, queued, task, upstream, local, parentHeld>>
    BY <2>2, <1>e DEF task
  <2> QED BY <2>1, <2>2 DEF QueueFailed
<1>7. CASE \E r \in Request : Release(r)
  <2> PICK r \in Request : Release(r)
    BY <1>7
  <2>1. /\ status[r] = "granted" /\ status' = [status EXCEPT ![r] = "released"]
        /\ local' = local \ {r} /\ parentHeld' = parentHeld \ {r}
        /\ calls' = calls /\ queued' = queued /\ head' = head /\ upstream' = upstream
        /\ phase' = IF phase = "waiting" THEN "woken" ELSE phase
    BY DEF Release, GiveBack, Notify
  <2>2. Granted' = Granted \ {r} /\ status' \in [Request -> Status]
    BY <2>1 DEF Granted, LeaseInv, Numbered, Status
  <2>3. r <= calls
    BY <1>0, <2>1 DEF LeaseInv, Numbered
  <2>4. Numbered'
    BY <1>0, <2>1, <2>2, <2>3 DEF LeaseInv, Numbered, None
  <2>5. phase = "upstream" => head # r /\ status'[head] # "granted"
    BY <1>0, <2>1 DEF LeaseInv, InFront, Numbered, None
  <2>6. upstream = "granted" => phase = "upstream"
    BY DEF LeaseInv, InFront
  <2>7. InFront'
    BY <2>1, <2>5 DEF LeaseInv, InFront
  <2>8. LeasesMatch'
    BY <2>1, <2>2, <2>5, <2>6 DEF LeaseInv, LeasesMatch
  <2> QED BY <2>4, <2>7, <2>8 DEF LeaseInv
<1>8. CASE Close
  <2>1. /\ status' = [r \in Request |-> IF r \in Pending THEN "closed" ELSE status[r]]
        /\ calls' = calls /\ queued' = queued /\ head' = head /\ upstream' = upstream
        /\ local' = local /\ parentHeld' = parentHeld
    BY <1>8 DEF Close, Closing, Notify, task
  <2>2. phase' = phase \/ (phase = "waiting" /\ phase' = "woken")
    BY <1>8 DEF Close, Closing, Notify, task
  <2>3. Granted' = Granted /\ status' \in [Request -> Status]
    BY <2>1 DEF Granted, Pending, LeaseInv, Numbered, Status, Refusals
  <2>4. Numbered'
    BY <2>1, <2>2, <2>3 DEF LeaseInv, Numbered, Pending
  <2>5. phase = "upstream" => status'[head] # "granted"
    BY <1>0, <2>1 DEF LeaseInv, InFront, Numbered, None
  <2>6. InFront' /\ LeasesMatch'
    BY <2>1, <2>2, <2>3, <2>5 DEF LeaseInv, InFront, LeasesMatch
  <2> QED BY <2>4, <2>6 DEF LeaseInv
<1>9. CASE HeadResumes
  <2>1. /\ phase = "woken" /\ Admit(head, status) /\ calls' = calls /\ queued' = queued
        /\ parentHeld' = parentHeld
    BY <1>9 DEF HeadResumes
  <2>2. head \in Request /\ head <= calls /\ status \in [Request -> Status]
    BY <1>0, <2>1 DEF LeaseInv, Numbered, None
  <2> QED BY <1>0, <1>b, <2>1, <2>2 DEF Granted, LeaseInv, Numbered
<1>10. CASE QueueAdvances
  <2> PICK r \in queued : Begin(r)
    BY <1>10 DEF QueueAdvances
  <2>1. /\ phase = "returned" /\ Admit(r, status) /\ calls' = calls
        /\ queued' = queued \ {r} /\ parentHeld' = parentHeld
    BY <1>10 DEF QueueAdvances, Begin
  <2>2. r \in Request /\ r <= calls /\ status \in [Request -> Status]
    BY <1>0 DEF LeaseInv, Numbered
  <2> QED BY <1>0, <1>b, <2>1, <2>2 DEF Granted, LeaseInv, Numbered
<1>11. CASE QueueIdles
  <2>1. /\ phase = "returned" /\ head' = None /\ phase' = "idle"
        /\ UNCHANGED <<calls, status, queued, upstream, local, parentHeld>>
    BY <1>11 DEF QueueIdles
  <2>2. upstream = "none"
    BY <2>1 DEF LeaseInv, InFront
  <2>3. Granted' = Granted
    BY <2>1 DEF Granted
  <2> QED BY <1>0, <2>1, <2>2, <2>3
          DEF LeaseInv, Numbered, InFront, LeasesMatch, None
<1>12. CASE ParentAnswers
  <2>1. /\ upstream = "pending" /\ upstream' \in {"granted", "refused", "threw"}
        /\ parentHeld' = IF upstream' = "granted" THEN parentHeld \cup {head} ELSE parentHeld
        /\ UNCHANGED <<calls, status, queued, head, phase, local>>
    BY <1>12 DEF ParentAnswers, task
  <2>2. Granted' = Granted
    BY <2>1 DEF Granted
  <2>3. Numbered' /\ InFront'
    BY <2>1 DEF LeaseInv, Numbered, InFront
  <2>4. LeasesMatch'
    BY <2>1, <2>2 DEF LeaseInv, LeasesMatch
  <2> QED BY <2>3, <2>4 DEF LeaseInv
\* Who leaves the parent returned the slot, or keeps it with the grant.
<1>f. ASSUME upstream # "none", HeadReturns, NEW v \in Status \ {"granted"},
             \/ status' = status
             \/ status' = [status EXCEPT ![head] = v],
             local' = local \ {head}, parentHeld' = parentHeld \ {head}
      PROVE  LeaseInv'
  <2>1. /\ upstream' = "none" /\ phase' = "returned" /\ head' = head
        /\ calls' = calls /\ queued' = queued
    BY <1>f DEF HeadReturns, Return
  <2>2. /\ phase = "upstream" /\ HasParent /\ status[head] # "granted"
        /\ head \in Request /\ head <= calls
    BY <1>0, <1>f DEF LeaseInv, InFront, Numbered, None
  <2>3. Granted' = Granted /\ head \notin Granted /\ status' \in [Request -> Status]
    BY <1>f, <2>2 DEF Granted, LeaseInv, Numbered
  <2>4. Numbered'
    BY <1>0, <1>f, <2>1, <2>2, <2>3 DEF LeaseInv, Numbered
  <2>5. InFront' /\ LeasesMatch'
    BY <1>f, <2>1, <2>2, <2>3 DEF LeaseInv, InFront, LeasesMatch
  <2> QED BY <2>4, <2>5 DEF LeaseInv
<1>g. ASSUME upstream # "none", upstream # "granted"
      PROVE  parentHeld \ {head} = parentHeld
  BY <1>g DEF LeaseInv, LeasesMatch, InFront, Granted
<1>13. CASE HeadWithdraws
  BY <1>13, <1>f DEF HeadWithdraws, Status
<1>14. CASE HeadRefused
  BY <1>14, <1>f, <1>g DEF HeadRefused, Status, Refusals
<1>15. CASE HeadThrows
  BY <1>15, <1>f, <1>g DEF HeadThrows, Status
<1>16. CASE HeadGranted
  <2>1. /\ upstream = "granted" /\ status' = [status EXCEPT ![head] = "granted"]
        /\ upstream' = "none" /\ phase' = "returned"
        /\ UNCHANGED <<calls, queued, head, local, parentHeld>>
    BY <1>16 DEF HeadGranted, Grant, HeadReturns, Return
  <2>2. phase = "upstream" /\ HasParent /\ head \in Request /\ head <= calls
    BY <1>0, <2>1 DEF LeaseInv, InFront, Numbered, None
  <2>3. Granted' = Granted \cup {head} /\ status' \in [Request -> Status]
    BY <2>1, <2>2 DEF Granted, LeaseInv, Numbered, Status
  <2>4. Numbered'
    BY <1>0, <2>1, <2>2, <2>3 DEF LeaseInv, Numbered
  <2>5. InFront' /\ LeasesMatch'
    BY <2>1, <2>2, <2>3 DEF LeaseInv, InFront, LeasesMatch
  <2> QED BY <2>4, <2>5 DEF LeaseInv
<1>17. CASE Expire
  BY <1>17, <1>e DEF Expire
<1>18. CASE RateTimerFires
  BY <1>18, <1>e DEF RateTimerFires, Notify
<1>19. CASE UNCHANGED vars
  BY <1>19, <1>e DEF vars
<1> QED BY <1>1, <1>2, <1>3, <1>4, <1>5, <1>6, <1>7, <1>8, <1>9, <1>10, <1>11, <1>12,
           <1>13, <1>14, <1>15, <1>16, <1>17, <1>18, <1>19 DEF Next

\* Slots and leases of the parent are held by exactly the granted requests and
\* the head in front of its parent, whatever is cancelled, refused or closed.
THEOREM LeasesTheorem == Spec => []LeasesMatch
<1>1. LeaseInv => LeasesMatch
  BY DEF LeaseInv
<1> QED BY <1>1, LeaseInit, LeaseStep, PTL DEF Spec

-----------------------------------------------------------------------------
(* Who waits.                                                              *)

InTask == IF phase \in {"waiting", "woken", "upstream"} THEN {head} ELSE {}

\* A request that waits for its answer is in the queue, or its task runs, or
\* its task threw; the head is older than the queue; after close nobody waits.
Waiters ==
    /\ Pending \subseteq queued \cup failing \cup InTask
    /\ phase # "idle" => \A q \in queued : head < q
    /\ phase = "idle" => queued = {}
    /\ closed => Pending = {}

\* What a pass of the admission loop does to the head, and to nobody else.
LEMMA AdmitAnswers ==
    ASSUME NEW r \in Request, NEW s \in [Request -> Status], Admit(r, s)
    PROVE  /\ head' = r /\ phase' \in {"waiting", "upstream", "returned"}
           /\ status' \in [Request -> Status]
           /\ \A q \in Request \ {r} : status'[q] = s[q]
           /\ status'[r] # s[r] => s[r] = "pending" /\ status'[r] = "granted"
           /\ status'[r] = "pending" => phase' \in {"waiting", "upstream"}
BY DEF Admit, Wait, Return, Status

LEMMA WaitersInit == Init => Waiters
BY DEF Init, Waiters, Pending

\* Nobody new waits, and the queue and the task stay as they are.
LEMMA FewerWait ==
    ASSUME Waiters, UNCHANGED <<queued, head, closed>>,
           Pending' \subseteq Pending, Pending' \cap failing \subseteq failing',
           \/ phase' = phase
           \/ phase = "waiting" /\ phase' = "woken"
    PROVE  Waiters'
BY DEF Waiters, InTask, Pending

LEMMA WaitersStep == LeaseInv /\ Waiters /\ [Next]_vars => Waiters'
<1> SUFFICES ASSUME LeaseInv, Waiters, [Next]_vars PROVE Waiters'
  OBVIOUS
<1>0. /\ MaxRequests \in Nat /\ calls \in Nat /\ Request \subseteq Nat
      /\ status \in [Request -> Status] /\ queued \subseteq Request
      /\ \A q \in queued : q <= calls
      /\ head \in Nat /\ head <= calls /\ (phase # "idle" => head \in Request)
  BY ConstantsAssumption DEF LeaseInv, Numbered, Request, None
<1>a. ASSUME NEW r \in Request, NEW v \in Status \ {"pending"},
             status' = [status EXCEPT ![r] = v]
      PROVE  Pending' = Pending \ {r}
  BY <1>0, <1>a DEF Pending, Status
<1>c. ASSUME NEW r \in Request, Called(r)
      PROVE  r = calls + 1 /\ status[r] = "new" /\ r \notin Pending
  BY <1>0, <1>c DEF Called, LeaseInv, Numbered, Pending
<1>1. CASE \E r \in Request : TryRefused(r) \/ TryGranted(r) \/ AcquireRefused(r)
  <2> PICK r \in Request : TryRefused(r) \/ TryGranted(r) \/ AcquireRefused(r)
    BY <1>1
  <2>1. /\ \E v \in Status \ {"pending"} : status' = [status EXCEPT ![r] = v]
        /\ UNCHANGED <<queued, task, closed, failing>>
    BY DEF TryRefused, TryGranted, Take, AcquireRefused, Refuse, Status, Refusals
  <2> QED BY <2>1, <1>a, FewerWait DEF task
<1>2. CASE \E r \in Request : AcquireIdle(r)
  <2> PICK r \in Request : AcquireIdle(r)
    BY <1>2
  <2>1. /\ Called(r) /\ ~closed /\ phase = "idle" /\ Admit(r, Waiting(r))
        /\ UNCHANGED <<closed, failing, queued>>
    BY DEF AcquireIdle, Admissible
  <2>2. /\ Waiting(r) \in [Request -> Status]
        /\ \A q \in Request \ {r} : Waiting(r)[q] = status[q]
    BY <1>0 DEF Waiting, Status
  <2>3. /\ head' = r /\ phase' \in {"waiting", "upstream", "returned"}
        /\ \A q \in Request \ {r} : status'[q] = status[q]
        /\ status'[r] = "pending" => phase' \in {"waiting", "upstream"}
    BY <2>1, <2>2, AdmitAnswers
  <2>4. Pending \subseteq failing /\ queued = {}
    BY <2>1 DEF Waiters, InTask
  <2> QED BY <2>1, <2>3, <2>4 DEF Waiters, InTask, Pending
<1>3. CASE \E r \in Request : AcquireQueued(r)
  <2> PICK r \in Request : AcquireQueued(r)
    BY <1>3
  <2>1. /\ Called(r) /\ ~closed /\ phase # "idle"
        /\ status' = [status EXCEPT ![r] = "pending"] /\ queued' = queued \cup {r}
        /\ UNCHANGED <<closed, failing, head, phase>>
    BY DEF AcquireQueued, Admissible, Waiting, task
  <2>2. Pending' = Pending \cup {r}
    BY <1>0, <2>1 DEF Pending, Status
  <2>3. \A q \in queued' : head' < q
    BY <1>0, <1>c, <2>1 DEF Waiters
  <2> QED BY <2>1, <2>2, <2>3 DEF Waiters, InTask
<1>d. ASSUME NEW r \in Request, NEW v \in Refusals, Cancel(r, v),
             failing' \in {failing, failing \ {r}}
      PROVE  Waiters'
  <2>1. /\ status' = [status EXCEPT ![r] = v] /\ UNCHANGED <<queued, head, closed>>
        /\ \/ phase' = phase
           \/ phase = "waiting" /\ phase' = "woken"
    BY <1>d DEF Cancel, Notify
  <2>2. Pending' = Pending \ {r}
    BY <1>a, <2>1 DEF Refusals, Status
  <2> QED BY <1>d, <2>1, <2>2, FewerWait DEF Pending
<1>4. CASE \E r \in Request : CallerCancels(r)
  BY <1>4, <1>d DEF CallerCancels, Refusals
<1>5. CASE \E r \in Request : QueueFailed(r)
  <2> PICK r \in Request : QueueFailed(r)
    BY <1>5
  <2>1. CASE Cancel(r, "closed")
    BY <2>1, <1>d DEF QueueFailed, Refusals
  <2>2. CASE status[r] # "pending" /\ UNCHANGED <<status, queued, task, closed>>
    <3>1. Pending' = Pending /\ r \notin Pending /\ failing' = failing \ {r}
      BY <2>2 DEF Pending, QueueFailed
    <3> QED BY <2>2, <3>1, FewerWait DEF task
  <2> QED BY <2>1, <2>2 DEF QueueFailed
<1>6. CASE \E r \in Request : Release(r)
  <2> PICK r \in Request : Release(r)
    BY <1>6
  <2>1. /\ status' = [status EXCEPT ![r] = "released"]
        /\ UNCHANGED <<queued, head, closed, failing>>
        /\ \/ phase' = phase
           \/ phase = "waiting" /\ phase' = "woken"
    BY DEF Release, GiveBack, Notify
  <2> QED BY <2>1, <1>a, FewerWait DEF Status
<1>7. CASE Close
  <2>1. Pending' = {}
    BY <1>7 DEF Close, Closing, Pending
  <2>2. queued' = queued /\ head' = head /\ (phase' = "idle" <=> phase = "idle")
    BY <1>7 DEF Close, Closing, Notify, task
  <2> QED BY <2>1, <2>2 DEF Waiters
\* The head is admitted again, or another request becomes the head.
<1>e. ASSUME NEW r \in Request, Admit(r, status), UNCHANGED <<closed, failing>>,
             Pending \subseteq queued' \cup failing \cup {r},
             \A q \in queued' : r < q
      PROVE  Waiters'
  <2>1. /\ head' = r /\ phase' \in {"waiting", "upstream", "returned"}
        /\ \A q \in Request \ {r} : status'[q] = status[q]
        /\ status'[r] # status[r] => status[r] = "pending" /\ status'[r] = "granted"
        /\ status'[r] = "pending" => phase' \in {"waiting", "upstream"}
    BY <1>0, <1>e, AdmitAnswers
  <2>2. Pending' \subseteq Pending
    BY <2>1 DEF Pending
  <2> QED BY <1>e, <2>1, <2>2 DEF Waiters, InTask, Pending
<1>8. CASE HeadResumes
  <2>1. head \in Request /\ phase = "woken" /\ Admit(head, status)
        /\ UNCHANGED <<closed, failing, queued>>
    BY <1>0, <1>8 DEF HeadResumes
  <2> QED BY <2>1, <1>e DEF Waiters, InTask
<1>9. CASE QueueAdvances
  <2> PICK r \in queued : (\A q \in queued : Older(r, q)) /\ Begin(r)
    BY <1>9 DEF QueueAdvances
  <2>1. /\ phase = "returned" /\ r \in Request /\ Admit(r, status)
        /\ queued' = queued \ {r} /\ UNCHANGED <<closed, failing>>
    BY <1>0, <1>9 DEF QueueAdvances, Begin
  <2>2. \A q \in queued' : r < q
    BY <1>0, <2>1 DEF Older
  <2>3. Pending \subseteq queued' \cup failing \cup {r}
    BY <2>1 DEF Waiters, InTask
  <2> QED BY <2>1, <2>2, <2>3, <1>e
<1>10. CASE QueueIdles
  BY <1>10 DEF QueueIdles, Waiters, InTask, Pending
<1>11. CASE ParentAnswers \/ Expire \/ UNCHANGED vars
  <2>1. UNCHANGED <<status, queued, head, phase, closed, failing>>
    BY <1>11 DEF ParentAnswers, Expire, vars, task
  <2> QED BY <2>1, FewerWait DEF Pending
\* The head leaves the parent: it is answered, or the catch handler will.
<1>f. ASSUME upstream # "none", HeadReturns, Pending' \subseteq Pending, failing \subseteq failing',
             head \notin Pending' \/ head \in failing'
      PROVE  Waiters'
  BY <1>f DEF HeadReturns, Return, Waiters, InTask
<1>g. upstream # "none" => head \in Request
  BY <1>0 DEF LeaseInv, InFront
<1>12. CASE HeadWithdraws \/ HeadThrows
  <2>1. /\ upstream # "none" /\ HeadReturns /\ status' = status /\ failing \subseteq failing'
        /\ status[head] # "pending" \/ head \in failing'
    BY <1>12 DEF HeadWithdraws, HeadThrows
  <2> QED BY <2>1, <1>f DEF Pending
<1>13. CASE HeadRefused \/ HeadGranted
  <2>1. /\ upstream # "none" /\ HeadReturns /\ failing' = failing
        /\ \E v \in Status \ {"pending"} : status' = [status EXCEPT ![head] = v]
    BY <1>13 DEF HeadRefused, HeadGranted, Grant, Status, Refusals
  <2> QED BY <2>1, <1>a, <1>f, <1>g
<1>14. CASE RateTimerFires
  <2>1. /\ UNCHANGED <<status, queued, head, closed, failing>>
        /\ \/ phase' = phase
           \/ phase = "waiting" /\ phase' = "woken"
    BY <1>14 DEF RateTimerFires, Notify
  <2> QED BY <2>1, FewerWait DEF Pending
<1> QED BY <1>1, <1>2, <1>3, <1>4, <1>5, <1>6, <1>7, <1>8, <1>9, <1>10, <1>11, <1>12,
           <1>13, <1>14 DEF Next

LEMMA AdmissionInvariance == Spec => [](LeaseInv /\ Waiters)
BY LeaseInit, LeaseStep, WaitersInit, WaitersStep, PTL DEF Spec

\* Who is granted by a step: a caller while nobody waits, or the request whose
\* task runs or begins, the oldest of the queue.
LEMMA GrantStep ==
    ASSUME LeaseInv, Waiters, [Next]_vars, NEW r \in Granted' \ Granted
    PROVE  /\ ~closed
           /\ \/ Pending = {}
              \/ phase = "idle"
              \/ phase = "returned" /\ \A q \in queued : r <= q
              \/ phase \in {"woken", "upstream"} /\ r = head
<1>0. /\ Request \subseteq Nat /\ status \in [Request -> Status]
      /\ queued \subseteq Request /\ (phase # "idle" => head \in Request)
  BY ConstantsAssumption DEF LeaseInv, Numbered, Request, None
<1>1. r \in Request /\ status[r] # "granted" /\ status'[r] = "granted"
  BY DEF Granted
<1>p. status[r] = "pending" => ~closed
  BY <1>1 DEF Waiters, Pending
<1>a. ASSUME NEW q \in Request, NEW v, status' = [status EXCEPT ![q] = v]
      PROVE  r = q /\ v = "granted"
  BY <1>0, <1>1, <1>a
<1>b. ASSUME NEW q \in Request, Admit(q, status)
      PROVE  r = q /\ status[r] = "pending"
  BY <1>0, <1>1, <1>b, AdmitAnswers
<1>2. CASE \E q \in Request : TryGranted(q)
  BY <1>2 DEF TryGranted, Take
<1>3. CASE \E q \in Request : AcquireIdle(q)
  BY <1>3 DEF AcquireIdle, Admissible
<1>4. CASE HeadResumes
  BY <1>0, <1>4, <1>b, <1>p DEF HeadResumes
<1>5. CASE QueueAdvances
  BY <1>0, <1>5, <1>b, <1>p DEF QueueAdvances, Begin, Older
<1>6. CASE HeadGranted
  <2>1. upstream # "none" /\ status[head] = "pending"
        /\ status' = [status EXCEPT ![head] = "granted"]
    BY <1>6 DEF HeadGranted, Grant
  <2>2. phase = "upstream" /\ head \in Request
    BY <1>0, <2>1 DEF LeaseInv, InFront
  <2> QED BY <1>a, <1>p, <2>1, <2>2
\* Every other step grants nothing.
<1>7. CASE \E q \in Request : TryRefused(q) \/ AcquireRefused(q)
  <2> PICK q \in Request : TryRefused(q) \/ AcquireRefused(q)
    BY <1>7
  <2>1. \E v \in Refusals : status' = [status EXCEPT ![q] = v]
    BY DEF TryRefused, AcquireRefused, Refuse, Refusals
  <2> QED BY <1>a, <2>1 DEF Refusals
<1>8. CASE \E q \in Request : AcquireQueued(q)
  BY <1>8, <1>a DEF AcquireQueued, Waiting
<1>9. CASE \E q \in Request : CallerCancels(q)
  BY <1>9, <1>a DEF CallerCancels, Cancel
<1>10. CASE \E q \in Request : QueueFailed(q)
  BY <1>1, <1>10, <1>a DEF QueueFailed, Cancel
<1>11. CASE \E q \in Request : Release(q)
  BY <1>0, <1>1, <1>11 DEF Release, GiveBack
<1>12. CASE Close
  BY <1>1, <1>12 DEF Close, Closing
<1>13. CASE HeadRefused
  <2>1. upstream # "none" /\ status' = [status EXCEPT ![head] = "upstream"]
    BY <1>13 DEF HeadRefused
  <2>2. head \in Request
    BY <1>0, <2>1 DEF LeaseInv, InFront
  <2> QED BY <1>0, <1>1, <2>1, <2>2
<1>14. CASE \/ QueueIdles \/ ParentAnswers \/ HeadWithdraws \/ HeadThrows \/ Expire
            \/ RateTimerFires \/ UNCHANGED vars
  BY <1>1, <1>14 DEF QueueIdles, ParentAnswers, HeadWithdraws, HeadThrows, Expire,
     RateTimerFires, vars
<1> QED BY <1>2, <1>3, <1>4, <1>5, <1>6, <1>7, <1>8, <1>9, <1>10, <1>11, <1>12, <1>13,
           <1>14 DEF Next

\* Nobody is granted in front of an older request that waits, by whatever call,
\* wake or answer of the parent the grant comes.
THEOREM FifoAdmissionHolds == Spec => FifoAdmission
<1>1. ASSUME LeaseInv, Waiters, [Next]_vars, NEW r \in Granted' \ Granted,
             NEW q \in Pending \ failing
      PROVE  r <= q
  <2>1. r \in Nat /\ q \in Nat /\ q \in queued \cup InTask
    BY <1>1, ConstantsAssumption DEF Waiters, Granted, Pending, Request
  <2>2. head \in Nat /\ head <= calls
    BY <1>1, ConstantsAssumption DEF LeaseInv, Numbered
  <2>3. CASE phase = "returned" /\ \A p \in queued : r <= p
    BY <2>1, <2>3 DEF InTask
  <2>4. CASE phase \in {"woken", "upstream"} /\ r = head
    BY <1>1, <2>1, <2>2, <2>4 DEF Waiters, InTask
  <2>5. CASE phase = "idle"
    BY <1>1, <2>1, <2>5 DEF Waiters, InTask
  <2>6. Pending # {}
    BY <1>1
  <2> QED BY <1>1, <2>3, <2>4, <2>5, <2>6, GrantStep
<1>2. LeaseInv /\ Waiters /\ [Next]_vars
      => [\A r \in Request : r \in Granted' \ Granted =>
            \A q \in Pending \ failing : r <= q]_vars
  BY <1>1
<1> QED BY <1>2, AdmissionInvariance, PTL DEF Spec, FifoAdmission

\* Once close() has run nobody waits and nobody is granted any more, although
\* the answer of the parent and the queued tasks still come.
THEOREM CloseIsFinalHolds == Spec => CloseIsFinal
<1>1. LeaseInv /\ Waiters /\ [Next]_vars
      => [closed => Pending = {} /\ Granted' \subseteq Granted]_vars
  BY GrantStep DEF Waiters
<1> QED BY <1>1, AdmissionInvariance, PTL DEF Spec, CloseIsFinal

-----------------------------------------------------------------------------
(* The launch rate.                                                        *)

\* While the parent answers a request that is still wanted, the window keeps
\* the room that was read before the question.
Room ==
    /\ stored \in Nat /\ expired \in 0 .. stored /\ policy \in Policy
    /\ RateHolds
    /\ phase = "upstream" /\ status[head] = "pending" /\ RateMax > 0 => Live < RateMax

LEMMA RoomInit == Init => Room
BY ConstantsAssumption DEF Init, Room, RateHolds, Live, RateMax, Policy

LEMMA RoomStep == LeaseInv /\ Room /\ [Next]_vars => Room'
<1> SUFFICES ASSUME LeaseInv, Room, [Next]_vars PROVE Room'
  OBVIOUS
<1>0. /\ MaxRequests \in Nat /\ calls \in Nat /\ Request \subseteq Nat
      /\ status \in [Request -> Status] /\ head \in Nat /\ head <= calls
      /\ (phase # "idle" => head \in Request)
      /\ stored \in Nat /\ expired \in Nat /\ expired <= stored /\ RateMax \in Nat
      /\ Live \in Nat /\ Live = stored - expired
  BY ConstantsAssumption
     DEF LeaseInv, Numbered, Request, None, Room, Policy, Live, RateMax
<1>p. policy' = policy /\ RateMax' = RateMax
  BY DEF Next, vars, TryRefused, Refuse, Called, TryGranted, Take, AcquireRefused,
         AcquireIdle, AcquireQueued, Admissible, CallerCancels, QueueFailed, Cancel,
         Release, GiveBack, Close, Closing, HeadResumes, QueueAdvances, QueueIdles,
         ParentAnswers, HeadReturns, HeadWithdraws, HeadRefused, HeadThrows,
         HeadGranted, Grant, Expire, RateTimerFires, RateMax
\* The window stays or is trimmed, and nobody new comes in front of the parent.
<1>a. ASSUME window' = window \/ Trim,
             phase' = "upstream" /\ status'[head'] = "pending"
               => phase = "upstream" /\ status[head] = "pending"
      PROVE  Room'
  <2>1. stored' \in Nat /\ expired' \in 0 .. stored' /\ Live' = Live
    BY <1>0, <1>a DEF Trim, window, Live
  <2> QED BY <1>0, <1>a, <1>p, <2>1 DEF Room, RateHolds
\* A grant is recorded where there was room, by nobody in front of the parent.
<1>b. ASSUME TrimAndRecord \/ RecordGrant, RateMax > 0 => Live < RateMax,
             phase' = "upstream" => status'[head'] # "pending"
      PROVE  Room'
  <2>1. /\ stored' \in Nat /\ expired' \in 0 .. stored'
        /\ RateMax > 0 => Live' = Live + 1
    BY <1>0, <1>b DEF TrimAndRecord, RecordGrant, Live
  <2> QED BY <1>0, <1>b, <1>p, <2>1 DEF Room, RateHolds
\* A pass of the admission loop.
<1>c. ASSUME NEW r, NEW s, Admit(r, s)
      PROVE  Room'
  <2>1. CASE phase' # "upstream" /\ (window' = window \/ Trim)
    BY <2>1, <1>a
  <2>2. CASE phase' = "upstream" /\ Trim /\ ~RateSpent
    <3>1. stored' \in Nat /\ expired' \in 0 .. stored' /\ Live' = Live
      BY <1>0, <2>2 DEF Trim, Live
    <3> QED BY <1>0, <1>p, <2>2, <3>1 DEF Room, RateHolds, RateSpent
  <2>3. CASE phase' = "returned" /\ TrimAndRecord /\ ~RateSpent
    BY <1>0, <2>3, <1>b DEF RateSpent
  <2> QED BY <1>c, <2>1, <2>2, <2>3 DEF Admit, Wait, Return
<1>1. CASE \E r \in Request : TryGranted(r)
  <2> PICK r \in Request : TryGranted(r)
    BY <1>1
  <2>1. /\ TrimAndRecord /\ Pending = {} /\ ~RateSpent /\ Called(r)
        /\ status' = [status EXCEPT ![r] = "granted"] /\ head' = head /\ phase' = phase
    BY <1>1 DEF TryGranted, Take, task
  <2>2. phase = "upstream" => status'[head] # "pending"
    BY <1>0, <2>1 DEF Pending
  <2> QED BY <1>0, <1>b, <2>1, <2>2 DEF RateSpent
<1>2. CASE HeadGranted
  <2>1. upstream # "none" /\ status[head] = "pending" /\ RecordGrant /\ phase' = "returned"
    BY <1>2 DEF HeadGranted, Grant, HeadReturns, Return
  <2> QED BY <1>b, <2>1 DEF LeaseInv, InFront, Room
<1>3. CASE (\E r \in Request : AcquireIdle(r)) \/ HeadResumes \/ QueueAdvances
  BY <1>3, <1>c DEF AcquireIdle, HeadResumes, QueueAdvances, Begin
<1>4. CASE Expire
  <2>1. /\ stored' = stored /\ expired' = expired + 1 /\ Live > 0
        /\ UNCHANGED <<status, head, phase>>
    BY <1>4 DEF Expire
  <2>2. expired' \in 0 .. stored' /\ Live' = Live - 1
    BY <1>0, <2>1 DEF Live
  <2> QED BY <1>0, <1>p, <2>1, <2>2 DEF Room, RateHolds
\* No other step adds to the window or makes the head pending again.
<1>e. ASSUME NEW r \in Request, Called(r)
      PROVE  phase = "upstream" => r # head
  BY <1>0, <1>e DEF Called
<1>5. CASE \E r \in Request : TryRefused(r) \/ AcquireRefused(r) \/ AcquireQueued(r)
  <2> PICK r \in Request : TryRefused(r) \/ AcquireRefused(r) \/ AcquireQueued(r)
    BY <1>5
  <2>1. /\ Called(r) /\ \E v : status' = [status EXCEPT ![r] = v]
        /\ window' = window \/ Trim
        /\ head' = head /\ phase' = phase
    BY DEF TryRefused, AcquireRefused, Refuse, AcquireQueued, Admissible, Waiting, task
  <2>2. r # head \/ phase' # "upstream"
    BY <1>e, <2>1
  <2>3. phase' = "upstream" /\ status'[head'] = "pending" => status[head] = "pending"
    BY <1>0, <2>1, <2>2
  <2> QED BY <1>a, <2>1, <2>3
<1>6. CASE \E r \in Request : CallerCancels(r) \/ QueueFailed(r) \/ Release(r)
  <2> PICK r \in Request : CallerCancels(r) \/ QueueFailed(r) \/ Release(r)
    BY <1>6
  <2>1. /\ \/ status' = status
           \/ \E v : status' = [status EXCEPT ![r] = v] /\ v # "pending"
        /\ window' = window /\ head' = head
        /\ phase' = "upstream" => phase = "upstream"
    BY DEF CallerCancels, QueueFailed, Cancel, Release, GiveBack, Notify, task
  <2>2. phase' = "upstream" /\ status'[head'] = "pending" => status[head] = "pending"
    BY <1>0, <2>1
  <2> QED BY <1>a, <2>1, <2>2
<1>7. CASE Close
  <2>1. /\ window' = window /\ head' = head /\ (phase' = "upstream" => phase = "upstream")
        /\ status' = [r \in Request |-> IF r \in Pending THEN "closed" ELSE status[r]]
    BY <1>7 DEF Close, Closing, Notify, task
  <2>2. phase' = "upstream" /\ status'[head'] = "pending" => status[head] = "pending"
    BY <1>0, <2>1
  <2> QED BY <1>a, <2>1, <2>2
<1>8. CASE \/ QueueIdles \/ ParentAnswers \/ HeadWithdraws \/ HeadRefused \/ HeadThrows
           \/ RateTimerFires \/ UNCHANGED vars
  <2>1. /\ window' = window
        /\ \/ phase' # "upstream"
           \/ phase' = phase /\ head' = head /\ status' = status
    BY <1>8 DEF QueueIdles, ParentAnswers, HeadWithdraws, HeadRefused, HeadThrows,
       HeadReturns, Return, RateTimerFires, Notify, vars, task, window
  <2> QED BY <1>a, <2>1
<1> QED BY <1>1, <1>2, <1>3, <1>4, <1>5, <1>6, <1>7, <1>8 DEF Next

\* No window holds more grants than the rate: what the parent is asked for has
\* room when it answers, because nobody is granted while the head is wanted.
THEOREM RateTheorem == Spec => []RateHolds
<1>1. Room => RateHolds
  BY DEF Room
<1> QED BY <1>1, RoomInit, LeaseInit, LeaseStep, RoomStep, PTL DEF Spec

-----------------------------------------------------------------------------
(* Types.                                                                  *)

\* What the invariants above do not bound yet.
TaskType ==
    /\ closed \in BOOLEAN /\ failing \subseteq Request
    /\ phase \in {"idle", "waiting", "woken", "upstream", "returned"}
    /\ upstream \in {"none", "pending", "granted", "refused", "threw"}
    /\ wakeTimer \in {"none", "armed", "due"}

LEMMA TaskTypeStep == LeaseInv /\ TaskType /\ [Next]_vars => TaskType'
<1> SUFFICES ASSUME LeaseInv, TaskType, [Next]_vars PROVE TaskType'
  OBVIOUS
<1>1. upstream # "none" => head \in Request
  BY ConstantsAssumption DEF LeaseInv, InFront, Numbered, Request, None
<1>2. ASSUME NEW r, NEW s, Admit(r, s)
      PROVE  /\ phase' \in {"waiting", "upstream", "returned"}
             /\ upstream' \in {upstream, "pending"} /\ wakeTimer' \in {"none", "armed", "due"}
  BY <1>2 DEF Admit, Wait, Return
<1>3. CASE \/ \E r \in Request : AcquireIdle(r)
           \/ HeadResumes \/ QueueAdvances
  <2>1. /\ phase' \in {"waiting", "upstream", "returned"}
        /\ upstream' \in {upstream, "pending"} /\ wakeTimer' \in {"none", "armed", "due"}
    BY <1>2, <1>3 DEF AcquireIdle, HeadResumes, QueueAdvances, Begin
  <2>2. closed' = closed /\ failing' = failing
    BY <1>3 DEF AcquireIdle, Admissible, HeadResumes, QueueAdvances
  <2> QED BY <2>1, <2>2 DEF TaskType
<1>4. CASE \E r \in Request : \/ TryRefused(r) \/ TryGranted(r) \/ AcquireRefused(r)
                              \/ AcquireQueued(r)
  <2>1. UNCHANGED <<closed, failing, phase, upstream, wakeTimer>>
    BY <1>4 DEF TryRefused, TryGranted, Take, AcquireRefused, Refuse, AcquireQueued,
       Admissible, task
  <2> QED BY <2>1 DEF TaskType
<1>5. CASE \E r \in Request : CallerCancels(r) \/ QueueFailed(r) \/ Release(r)
  <2>1. /\ UNCHANGED <<closed, upstream>> /\ failing' \subseteq failing
        /\ phase' \in {phase, "woken"} /\ wakeTimer' \in {wakeTimer, "none"}
    BY <1>5 DEF CallerCancels, QueueFailed, Cancel, Release, GiveBack, Notify, task
  <2> QED BY <2>1 DEF TaskType
<1>6. CASE Close \/ RateTimerFires \/ Expire
  BY <1>6 DEF Close, Closing, RateTimerFires, Expire, Notify, task, TaskType
<1>7. CASE HeadWithdraws \/ HeadRefused \/ HeadThrows \/ HeadGranted
  BY <1>1, <1>7 DEF HeadWithdraws, HeadRefused, HeadThrows, HeadGranted, Grant,
     HeadReturns, Return, TaskType
<1>8. CASE QueueIdles \/ ParentAnswers \/ UNCHANGED vars
  BY <1>8 DEF QueueIdles, ParentAnswers, vars, task, TaskType
<1> QED BY <1>3, <1>4, <1>5, <1>6, <1>7, <1>8 DEF Next

\* The invariants together give every variable its type: in particular only
\* requests that were made hold slots, queue places and leases.
THEOREM TypeCorrect == Spec => []TypeOK
<1>1. Init => Room /\ TaskType
  BY RoomInit DEF Init, TaskType
<1>2. LeaseInv /\ Room /\ TaskType => TypeOK
  <2> SUFFICES ASSUME LeaseInv, Room, TaskType PROVE TypeOK
    OBVIOUS
  <2>1. /\ calls \in 0 .. MaxRequests /\ status \in [Request -> Status]
        /\ queued \subseteq Request /\ head \in Request \cup {None}
        /\ phase # "idle" => head \in Request
    BY ConstantsAssumption DEF LeaseInv, Numbered, Request, None
  <2>2. local \subseteq Request /\ parentHeld \subseteq Request
    BY <2>1 DEF LeaseInv, LeasesMatch, InFront, Granted
  <2> QED BY <2>1, <2>2 DEF Room, TaskType, TypeOK, Status
<1> QED BY <1>1, <1>2, LeaseInit, LeaseStep, RoomStep, TaskTypeStep, PTL DEF Spec

-----------------------------------------------------------------------------
(* The teardown of a unit, which gives the lease back.                     *)

VARIABLES options, launch, disappeared, retired, mode, abandoned, at, forceIssued,
          forcing, attachments, lease, late

Unit == INSTANCE UnitTeardown

\* A call of retire() has started the teardown, and nothing is given up, forced
\* or owed before.
Started ==
  /\ retired <=> at # "idle"
  /\ abandoned \/ forcing # "none" \/ late # {} => retired

\* Where the teardown and the force under way find the unit.
Phases ==
  /\ launch = "pending" => ~disappeared
  /\ launch # "resolved" => forcing = "none" /\ ~forceIssued
  /\ at = "launch" => launch # "none"
  /\ at \in {"drain", "exit", "force"} => launch = "resolved"
  /\ forcing = "waiting" => forceIssued /\ ~disappeared

TeardownTypes ==
  /\ options \in Unit!Options
  /\ launch \in {"none", "pending", "resolved", "rejected"}
  /\ disappeared \in BOOLEAN /\ retired \in BOOLEAN /\ abandoned \in BOOLEAN
  /\ forceIssued \in BOOLEAN
  /\ lease \in {"held", "released"}

TeardownInv == TeardownTypes /\ Started /\ Phases

USE DEF Unit!request, Unit!force, Unit!owned, Unit!Launched, Unit!Running

\* Every step of the teardown, of the unit and of those who ask keeps this.
LEMMA TeardownStep ==
    ASSUME TeardownInv, [Unit!Next]_(Unit!vars)
    PROVE  TeardownInv'
<1>1. CASE Unit!LaunchBegins
  BY <1>1
     DEF Unit!LaunchBegins, TeardownInv, TeardownTypes, Unit!Options, Started, Phases
<1>2. CASE Unit!LaunchResolves
  BY <1>2
     DEF Unit!LaunchResolves, Unit!ForceAndReap, TeardownInv, TeardownTypes,
         Unit!Options, Started, Phases
<1>3. CASE Unit!LaunchRejects
  BY <1>3
     DEF Unit!LaunchRejects, TeardownInv, TeardownTypes, Unit!Options, Started, Phases
<1>4. CASE Unit!Exits
  BY <1>4 DEF Unit!Exits, TeardownInv, TeardownTypes, Unit!Options, Started, Phases
<1>5. CASE Unit!Retire("stop")
  BY <1>5
     DEF Unit!Retire, Unit!ForceAndReap, TeardownInv, TeardownTypes, Unit!Options,
         Started, Phases
<1>6. CASE Unit!Retire("force")
  BY <1>6
     DEF Unit!Retire, Unit!ForceAndReap, TeardownInv, TeardownTypes, Unit!Options,
         Started, Phases
<1>7. CASE Unit!MonitorsReleased
  BY <1>7
     DEF Unit!MonitorsReleased, TeardownInv, TeardownTypes, Unit!Options, Started,
         Phases
<1>8. CASE Unit!LaunchSettled
  BY <1>8
     DEF Unit!LaunchSettled, Unit!Terminate, Unit!ForceAndReap, TeardownInv,
         TeardownTypes, Unit!Options, Started, Phases
<1>9. CASE Unit!ExitEnds
  BY <1>9 DEF Unit!ExitEnds, TeardownInv, TeardownTypes, Unit!Options, Started, Phases
<1>10. CASE Unit!Reaped
  BY <1>10 DEF Unit!Reaped, TeardownInv, TeardownTypes, Unit!Options, Started, Phases
<1>11. CASE Unit!Postpone
  BY <1>11
     DEF Unit!Postpone, Unit!ReleaseWhenGone, TeardownInv, TeardownTypes, Unit!Options,
         Started, Phases
<1>12. CASE Unit!ReleaseAttachments
  BY <1>12
     DEF Unit!ReleaseAttachments, Unit!Releases, Unit!ReleaseWhenGone, TeardownInv,
         TeardownTypes, Unit!Options, Started, Phases
<1>13. CASE Unit!AttachmentsReleased
  BY <1>13
     DEF Unit!AttachmentsReleased, TeardownInv, TeardownTypes, Unit!Options, Started,
         Phases
<1>14. CASE Unit!ReleaseLease
  BY <1>14
     DEF Unit!ReleaseLease, Unit!Releases, Unit!ReleaseWhenGone, TeardownInv,
         TeardownTypes, Unit!Options, Started, Phases
<1>15. CASE Unit!LaunchDeadline
  BY <1>15
     DEF Unit!LaunchDeadline, TeardownInv, TeardownTypes, Unit!Options, Started, Phases
<1>16. CASE Unit!DrainEnds
  BY <1>16
     DEF Unit!DrainEnds, Unit!Terminate, Unit!ForceAndReap, TeardownInv, TeardownTypes,
         Unit!Options, Started, Phases
<1>17. CASE Unit!ExitDeadline
  BY <1>17
     DEF Unit!ExitDeadline, Unit!ForceAndReap, TeardownInv, TeardownTypes,
         Unit!Options, Started, Phases
<1>18. CASE Unit!ReapDeadline
  BY <1>18
     DEF Unit!ReapDeadline, TeardownInv, TeardownTypes, Unit!Options, Started, Phases
<1>19. CASE UNCHANGED Unit!vars
  BY <1>19 DEF Unit!vars, TeardownInv, TeardownTypes, Unit!Options, Started, Phases
<1> QED BY <1>1, <1>2, <1>3, <1>4, <1>5, <1>6, <1>7, <1>8, <1>9, <1>10, <1>11, <1>12,
           <1>13, <1>14, <1>15, <1>16, <1>17, <1>18, <1>19
           DEF Unit!Next, Unit!Teardown, Unit!Deadline

\* Every step is one of the slot, or changes nothing the slot shows.  A force that
\* gives an unobservable unit up at once is the slot's giving up; a launch that
\* resolves after it was given up is an appearance with force in the same turn.
LEMMA SlotStep ==
    ASSUME TeardownInv, [Unit!Next]_(Unit!vars)
    PROVE  [Unit!Slot!Next]_(Unit!Slot!vars)
<1>1. CASE Unit!LaunchBegins
  BY <1>1
     DEF Unit!LaunchBegins, TeardownInv, TeardownTypes, Unit!Options, Started, Phases,
         Unit!Slot!Next, Unit!Slot!vars
<1>2. CASE Unit!LaunchResolves
  BY <1>2
     DEF Unit!LaunchResolves, Unit!ForceAndReap, TeardownInv, TeardownTypes,
         Unit!Options, Started, Phases, Unit!Slot!Next, Unit!Slot!vars,
         Unit!Slot!Appears
<1>3. CASE Unit!LaunchRejects
  BY <1>3
     DEF Unit!LaunchRejects, TeardownInv, TeardownTypes, Unit!Options, Started, Phases,
         Unit!Slot!Next, Unit!Slot!vars, Unit!Slot!Disappears
<1>4. CASE Unit!Exits
  BY <1>4
     DEF Unit!Exits, TeardownInv, TeardownTypes, Unit!Options, Started, Phases,
         Unit!Slot!Next, Unit!Slot!vars, Unit!Slot!Disappears
<1>5. CASE Unit!Retire("stop")
  BY <1>5
     DEF Unit!Retire, Unit!ForceAndReap, TeardownInv, TeardownTypes, Unit!Options,
         Started, Phases, Unit!Slot!Next, Unit!Slot!vars, Unit!Slot!Retire
<1>6. CASE Unit!Retire("force")
  BY <1>6
     DEF Unit!Retire, Unit!ForceAndReap, TeardownInv, TeardownTypes, Unit!Options,
         Started, Phases, Unit!Slot!Next, Unit!Slot!vars, Unit!Slot!Retire,
         Unit!Slot!GiveUp
<1>7. CASE Unit!MonitorsReleased
  BY <1>7
     DEF Unit!MonitorsReleased, TeardownInv, TeardownTypes, Unit!Options, Started,
         Phases, Unit!Slot!Next, Unit!Slot!vars, Unit!Slot!Disappears
<1>8. CASE Unit!LaunchSettled
  BY <1>8
     DEF Unit!LaunchSettled, Unit!Terminate, Unit!ForceAndReap, TeardownInv,
         TeardownTypes, Unit!Options, Started, Phases, Unit!Slot!Next, Unit!Slot!vars,
         Unit!Slot!Force, Unit!Slot!GiveUp
<1>9. CASE Unit!ExitEnds
  BY <1>9
     DEF Unit!ExitEnds, TeardownInv, TeardownTypes, Unit!Options, Started, Phases,
         Unit!Slot!Next, Unit!Slot!vars
<1>10. CASE Unit!Reaped
  BY <1>10
     DEF Unit!Reaped, TeardownInv, TeardownTypes, Unit!Options, Started, Phases,
         Unit!Slot!Next, Unit!Slot!vars
<1>11. CASE Unit!Postpone
  BY <1>11
     DEF Unit!Postpone, Unit!ReleaseWhenGone, TeardownInv, TeardownTypes, Unit!Options,
         Started, Phases, Unit!Slot!Next, Unit!Slot!vars, Unit!Slot!Settle
<1>12. CASE Unit!ReleaseAttachments
  BY <1>12
     DEF Unit!ReleaseAttachments, Unit!Releases, Unit!ReleaseWhenGone, TeardownInv,
         TeardownTypes, Unit!Options, Started, Phases, Unit!Slot!Next, Unit!Slot!vars
<1>13. CASE Unit!AttachmentsReleased
  BY <1>13
     DEF Unit!AttachmentsReleased, TeardownInv, TeardownTypes, Unit!Options, Started,
         Phases, Unit!Slot!Next, Unit!Slot!vars
<1>14. CASE Unit!ReleaseLease
  BY <1>14
     DEF Unit!ReleaseLease, Unit!Releases, Unit!ReleaseWhenGone, TeardownInv,
         TeardownTypes, Unit!Options, Started, Phases, Unit!Slot!Next, Unit!Slot!vars,
         Unit!Slot!Settle, Unit!Slot!Release
<1>15. CASE Unit!LaunchDeadline
  BY <1>15
     DEF Unit!LaunchDeadline, TeardownInv, TeardownTypes, Unit!Options, Started,
         Phases, Unit!Slot!Next, Unit!Slot!vars, Unit!Slot!GiveUp
<1>16. CASE Unit!DrainEnds
  BY <1>16
     DEF Unit!DrainEnds, Unit!Terminate, Unit!ForceAndReap, TeardownInv, TeardownTypes,
         Unit!Options, Started, Phases, Unit!Slot!Next, Unit!Slot!vars,
         Unit!Slot!Force, Unit!Slot!GiveUp
<1>17. CASE Unit!ExitDeadline
  BY <1>17
     DEF Unit!ExitDeadline, Unit!ForceAndReap, TeardownInv, TeardownTypes,
         Unit!Options, Started, Phases, Unit!Slot!Next, Unit!Slot!vars,
         Unit!Slot!Force, Unit!Slot!GiveUp
<1>18. CASE Unit!ReapDeadline
  BY <1>18
     DEF Unit!ReapDeadline, TeardownInv, TeardownTypes, Unit!Options, Started, Phases,
         Unit!Slot!Next, Unit!Slot!vars, Unit!Slot!GiveUp
<1>19. CASE UNCHANGED Unit!vars
  BY <1>19 DEF Unit!vars, Unit!Slot!vars
<1> QED BY <1>1, <1>2, <1>3, <1>4, <1>5, <1>6, <1>7, <1>8, <1>9, <1>10, <1>11, <1>12,
           <1>13, <1>14, <1>15, <1>16, <1>17, <1>18, <1>19
           DEF Unit!Next, Unit!Teardown, Unit!Deadline

\* The teardown begins as the slot does.
LEMMA SlotInit == Unit!Init => TeardownInv /\ Unit!Slot!Init
BY DEF Unit!Init, TeardownInv, TeardownTypes, Started, Phases, Unit!Slot!Init

\* The teardown implements the slot, for every combination of the options: the
\* retirement is over only with a unit that is gone or given up, a unit is given up
\* only with force, however late it appears, and the lease comes back only after a
\* unit that is gone.  (That the retirement ends is left to TLC.)
THEOREM TeardownIsSlot == Unit!Spec => Unit!Slot!Init /\ [][Unit!Slot!Next]_(Unit!Slot!vars)
BY SlotInit, TeardownStep, SlotStep, PTL DEF Unit!Spec
=============================================================================
