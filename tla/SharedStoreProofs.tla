--------------------------- MODULE SharedStoreProofs ---------------------------
(***************************************************************************)
(* Proofs about packages/store-shared, for every set of threads, every set *)
(* of values and every bound.                                              *)
(*                                                                         *)
(* Seqlock, one cell and every update callback: the type invariant, the    *)
(* mutual exclusion of writers, and that the protocol implements the       *)
(* versioned register (its safety; that calls end is left to TLC).         *)
(*                                                                         *)
(* SharedArray (Array), every number of cells: a wrapper's cursors never   *)
(* pass over a write its observers have not read.                          *)
(***************************************************************************)
EXTENDS Seqlock, ShownCells, WellFoundedInduction, TLAPS

Locking == {"lock", "cas", "test", "store", "publish", "release"}

Holding == {"test", "store", "publish", "release"}

(* The arguments with which writeLocked is entered. *)
Arguments(a) ==
  /\ call[a] # Idle
  /\ want[a] \in Values
  /\ \/ call[a].kind = "set" /\ want[a] = call[a].next /\ expect[a] = NoValue
     \/ /\ call[a].kind = "update"
        /\ expect[a] \in Values
        /\ want[a] = Fn[expect[a]] /\ want[a] # expect[a]

(* What the local variables of a thread say about shared memory.           *)
Local(a) ==
  /\ pc[a] = "idle" <=> call[a] = Idle
  /\ pc[a] \in {"load", "value", "check"} => call[a].kind \in {"read", "update"}
  /\ pc[a] \in Locking => Arguments(a)
  /\ pc[a] = "idle" => expect[a] = NoValue
  /\ call[a] # Idle /\ call[a].kind = "set" => expect[a] = NoValue
  /\ pc[a] \in {"value", "check", "cas"} => Even(base[a]) /\ base[a] <= seq
  /\ pc[a] \in Holding => Even(base[a]) /\ seq = base[a] + 1
  /\ pc[a] = "done" => Even(base[a]) /\ seq >= base[a] + 2
  /\ pc[a] = "store" => seen[a] = mem /\ mem # want[a]
                        /\ (expect[a] # NoValue => mem = expect[a])
  /\ pc[a] = "publish" => /\ mem = want[a] /\ seen[a] # want[a] /\ seen[a] \in Values
                          /\ expect[a] # NoValue => seen[a] = expect[a]
  /\ pc[a] = "release" /\ call[a].kind = "set" => seen[a] = mem /\ mem = want[a]
  /\ pc[a] = "check" => /\ seen[a] \in Values
                        /\ Base = base[a] /\ Unpublished = {} => seen[a] = mem

IInv == TypeOK /\ Exclusion /\ \A a \in Agents : Local(a)

USE DEF At, Goto, locals

(* Parity of the sequence word. *)
LEMMA Parity ==
    ASSUME NEW n \in Nat
    PROVE  /\ Even(0)
           /\ Even(n) => ~Even(n + 1)
           /\ Even(n) <=> Even(n + 2)
BY DEF Even

LEMMA RequestTypes ==
    /\ \A v \in Values : Request("set", v) \in Requests
    /\ Request("read", NoValue) \in Requests
    /\ Request("update", NoValue) \in Requests
    /\ Idle \notin Requests
    /\ \A r \in Requests : r.kind \in {"read", "set", "update"} /\ (r.kind = "set" => r.next \in Values)
<1>1. \A r \in Requests : r \in [kind : {"read", "set", "update"}, next : Values \cup {NoValue}]
  BY DEF Requests, Request
<1>2. Idle \notin Requests
  BY <1>1, IdleAssumption
<1>3. \A r \in Requests : r.kind \in {"read", "set", "update"} /\ (r.kind = "set" => r.next \in Values)
  BY DEF Requests, Request
<1> QED BY <1>2, <1>3 DEF Requests, Request

LEMMA ResultTypes ==
    ASSUME NEW k \in {"none", "read", "wrote", "same", "contention"},
           NEW v \in Values \cup {NoValue}, NEW n \in Nat
    PROVE  Result(k, v, n) \in Results
BY DEF Result, Results

LEMMA InitHolds == Init => IInv
<1> SUFFICES ASSUME Init PROVE IInv
  OBVIOUS
<1>1. TypeOK
  BY ResultTypes DEF Init, TypeOK, Locations
<1>2. Exclusion
  BY Parity DEF Init, Exclusion, Holders
<1>3. \A a \in Agents : Local(a)
  BY DEF Init, Local, Locking, Holding
<1> QED BY <1>1, <1>2, <1>3 DEF IInv

LEMMA TypeStep == TypeOK /\ (\A a \in Agents : Local(a)) /\ [Next]_vars => TypeOK'
<1> SUFFICES ASSUME TypeOK, \A x \in Agents : Local(x), [Next]_vars PROVE TypeOK'
  OBVIOUS
<1> USE DEF TypeOK, Locations
<1>1. CASE UNCHANGED vars
  BY <1>1 DEF vars
<1>2. ASSUME NEW a \in Agents, Start(a) PROVE TypeOK'
  <2>1. CASE StartRead(a)
    BY <2>1, RequestTypes, ResultTypes DEF StartRead, Enter
  <2>2. CASE StartUpdate(a)
    BY <2>2, RequestTypes, ResultTypes DEF StartUpdate, Enter
  <2>3. ASSUME NEW v \in Values, StartSet(a, v) PROVE TypeOK'
    BY <2>3, RequestTypes, ResultTypes DEF StartSet, Enter
  <2> QED BY <1>2, <2>1, <2>2, <2>3 DEF Start
<1>3. ASSUME NEW a \in Agents, Step(a) PROVE TypeOK'
  <2>1. CASE LoadBefore(a)
    BY <2>1 DEF LoadBefore
  <2>2. CASE LoadValue(a)
    BY <2>2 DEF LoadValue
  <2>3. CASE ReadStable(a)
    <3>1. pc[a] = "check" /\ seen[a] \in Values /\ Fn[seen[a]] \in Values
      BY <2>3, FnAssumption DEF ReadStable, Local
    <3> QED BY <2>3, <3>1, ResultTypes DEF ReadStable, Return, Leave
  <2>4. CASE ReadTorn(a)
    BY <2>4 DEF ReadTorn
  <2>5. CASE LoadForLock(a)
    BY <2>5 DEF LoadForLock
  <2>6. CASE CompareExchange(a)
    BY <2>6 DEF CompareExchange
  <2>7. CASE Test(a)
    BY <2>7 DEF Test
  <2>8. CASE Store(a)
    BY <2>8 DEF Store, Local, Locking, Arguments
  <2>9. CASE Publish(a)
    <3>1. base[a] + 2 \in Nat /\ want[a] \in Values \cup {NoValue}
      OBVIOUS
    <3>2. Result("wrote", want[a], base[a] + 2) \in Results
      BY <3>1, ResultTypes
    <3> QED BY <2>9, <3>1, <3>2 DEF Publish
  <2>10. CASE Release(a)
    BY <2>10, ResultTypes DEF Release, PutBack, Return, Leave
  <2>11. CASE ReleaseAfterCommit(a)
    BY <2>11 DEF ReleaseAfterCommit, PutBack, Leave
  <2> QED BY <1>3, <2>1, <2>2, <2>3, <2>4, <2>5, <2>6, <2>7, <2>8, <2>9, <2>10, <2>11 DEF Step
<1>4. ASSUME NEW a \in Agents, Contention(a) PROVE TypeOK'
  BY <1>4, ResultTypes DEF Contention, Return, Leave
<1>5. ASSUME NEW a \in Agents, Die(a) PROVE TypeOK'
  BY <1>5 DEF Die
<1> QED BY <1>1, <1>2, <1>3, <1>4, <1>5 DEF Next

(* Writers exclude each other after a step when they did before it. *)
LEMMA ExclusionStep == IInv /\ [Next]_vars => Exclusion'
<1> SUFFICES ASSUME IInv, [Next]_vars PROVE Exclusion'
  OBVIOUS
<1> USE DEF TypeOK, Locations
<1>0. TypeOK /\ Exclusion /\ \A x \in Agents : Local(x)
  BY DEF IInv
<1>h. \A x \in Agents : x \in Holders <=> pc[x] \in Holding
  BY DEF Holders, Holding
<1>1. ASSUME seq' = seq, \A x \in Agents : pc'[x] \in Holding <=> pc[x] \in Holding
      PROVE Exclusion'
  <2>1. Holders' = Holders
    BY <1>1 DEF Holders, Holding
  <2> QED BY <1>0, <1>1, <2>1 DEF Exclusion, Even
<1>2. CASE UNCHANGED vars
  BY <1>1, <1>2 DEF vars
<1>3. ASSUME NEW a \in Agents, Start(a) PROVE Exclusion'
  BY <1>0, <1>1, <1>3 DEF Start, StartRead, StartUpdate, StartSet, Enter, Holding
<1>4. ASSUME NEW a \in Agents, Contention(a) \/ Die(a) PROVE Exclusion'
  BY <1>0, <1>1, <1>4 DEF Contention, Die, Return, Leave, Holding
<1>5. ASSUME NEW a \in Agents, Step(a) PROVE Exclusion'
  <2>1. CASE LoadBefore(a) \/ LoadValue(a) \/ ReadTorn(a) \/ LoadForLock(a)
    BY <1>0, <1>1, <2>1 DEF LoadBefore, LoadValue, ReadTorn, LoadForLock, Holding
  <2>2. CASE ReadStable(a)
    BY <1>0, <1>1, <2>2 DEF ReadStable, Return, Leave, Holding
  <2>3. CASE Test(a) \/ Store(a)
    BY <1>0, <1>1, <2>3 DEF Test, Store, Holding
  <2>4. CASE CompareExchange(a)
    <3>1. CASE seq # base[a]
      BY <1>0, <1>1, <2>4, <3>1 DEF CompareExchange, Holding
    <3>2. CASE seq = base[a]
      <4>1. Even(seq) /\ Holders = {}
        BY <1>0, <2>4, <3>2 DEF CompareExchange, Local, Exclusion
      <4>2. seq' = seq + 1 /\ pc' = [pc EXCEPT ![a] = "test"]
        BY <2>4, <3>2 DEF CompareExchange
      <4>3. ~Even(seq')
        BY <1>0, <4>1, <4>2, Parity
      <4>4. Holders' = {a}
        BY <1>0, <4>1, <4>2 DEF Holders
      <4> QED BY <4>3, <4>4 DEF Exclusion, Even
    <3> QED BY <3>1, <3>2
  <2>5. CASE Publish(a) \/ Release(a)
    <3>1. Holders = {a} /\ Even(base[a]) /\ seq = base[a] + 1
      BY <1>0, <1>h, <2>5 DEF Publish, Release, Local, Holding, Exclusion
    <3>2. pc'[a] \notin Holding /\ \A x \in Agents \ {a} : pc'[x] = pc[x]
      BY <1>0, <2>5 DEF Publish, Release, Return, Leave, Holding
    <3>3. Holders' = {}
      BY <1>0, <3>1, <3>2 DEF Holders, Holding
    <3>4. base[a] \in Nat /\ (seq' = base[a] + 2 \/ seq' = base[a])
      BY <1>0, <3>1, <2>5 DEF Publish, Release, PutBack
    <3>5. Even(seq')
      BY <3>1, <3>4, Parity
    <3> QED BY <3>3, <3>5 DEF Exclusion, Even
  <2>6. CASE ReleaseAfterCommit(a)
    <3>1. seq' = seq
      BY <1>0, <2>6 DEF ReleaseAfterCommit, PutBack, Local
    <3> QED BY <1>0, <1>1, <2>6, <3>1 DEF ReleaseAfterCommit, Leave, Holding
  <2> QED BY <1>5, <2>1, <2>2, <2>3, <2>4, <2>5, <2>6 DEF Step
<1> QED BY <1>2, <1>3, <1>4, <1>5 DEF Next

(* The accesses of one thread leave what the others know intact when they   *)
(* change neither word of shared memory and nobody starts to publish.       *)
LEMMA OthersKeep ==
    ASSUME TypeOK, NEW a \in Agents, NEW b \in Agents, b # a, Local(b),
           seq' = seq, mem' = mem,
           pc'[a] = "publish" <=> pc[a] = "publish",
           \A x \in Agents \ {a} :
             /\ pc'[x] = pc[x] /\ call'[x] = call[x] /\ base'[x] = base[x]
             /\ seen'[x] = seen[x] /\ want'[x] = want[x] /\ expect'[x] = expect[x]
    PROVE  Local(b)'
<1>1. Unpublished' = Unpublished /\ Base' = Base
  BY DEF Unpublished, Base, Even
<1>2. /\ pc'[b] = pc[b] /\ call'[b] = call[b] /\ base'[b] = base[b]
      /\ seen'[b] = seen[b] /\ want'[b] = want[b] /\ expect'[b] = expect[b]
  OBVIOUS
<1> QED BY <1>1, <1>2 DEF Local, Arguments, Even, Locking, Holding

(* While a writer is between its two stores nobody else holds the lock.      *)
LEMMA HolderFacts ==
    ASSUME IInv, NEW a \in Agents, pc[a] \in Holding
    PROVE  /\ ~Even(seq) /\ Base = base[a] /\ base[a] \in Nat
           /\ \A b \in Agents \ {a} : pc[b] \notin Holding
           /\ Unpublished = IF pc[a] = "publish" THEN {a} ELSE {}
<1>1. a \in Holders /\ Holders = {a}
  BY DEF IInv, Exclusion, Holders, Holding
<1>2. \A b \in Agents \ {a} : pc[b] \notin Holding
  BY <1>1 DEF Holders, Holding
<1>3. Unpublished = IF pc[a] = "publish" THEN {a} ELSE {}
  BY <1>2 DEF Unpublished, Holding
<1>4. base[a] \in Nat /\ seq = base[a] + 1 /\ seq \in Nat
  BY DEF IInv, TypeOK, Local
<1>5. ~Even(seq)
  BY <1>1 DEF IInv, Exclusion
<1>6. Base = base[a]
  BY <1>4, <1>5 DEF Base
<1> QED BY <1>2, <1>3, <1>4, <1>5, <1>6

(* The thread that moves knows afterwards what Local asks of its new place.  *)
LEMMA MoverStep ==
    ASSUME IInv, NEW a \in Agents, Start(a) \/ Step(a) \/ Contention(a) \/ Die(a)
    PROVE  Local(a)'
<1> USE DEF TypeOK, Locations
<1>0. TypeOK /\ Exclusion /\ Local(a)
  BY DEF IInv
<1>1. CASE StartRead(a) \/ StartUpdate(a)
  BY <1>0, <1>1, RequestTypes DEF StartRead, StartUpdate, Enter, Local, Locking, Holding, Request
<1>2. ASSUME NEW v \in Values, StartSet(a, v) PROVE Local(a)'
  BY <1>0, <1>2, RequestTypes DEF StartSet, Enter, Local, Locking, Holding, Request, Arguments
<1>3. CASE Contention(a)
  BY <1>0, <1>3 DEF Contention, Return, Leave, Local, Locking, Holding
<1>4. CASE Die(a)
  <2>1. Unpublished' = Unpublished /\ Base' = Base
    BY <1>4 DEF Die, Unpublished, Base, Even
  <2> QED BY <1>0, <1>4, <2>1 DEF Die, Local, Locking, Holding, Arguments, Even
<1>5. CASE LoadBefore(a)
  BY <1>0, <1>5 DEF LoadBefore, Local, Locking, Holding, Even
<1>6. CASE LoadValue(a)
  BY <1>0, <1>6 DEF LoadValue, Local, Locking, Holding, Even
<1>7. CASE ReadStable(a)
  <2>1. seen[a] \in Values /\ Fn[seen[a]] \in Values /\ call[a] # Idle
    BY <1>0, <1>7, FnAssumption DEF ReadStable, Local
  <2> QED BY <1>0, <1>7, <2>1 DEF ReadStable, Return, Leave, Local, Locking, Holding, Arguments
<1>8. CASE ReadTorn(a)
  BY <1>0, <1>8 DEF ReadTorn, Local, Locking, Holding
<1>9. CASE LoadForLock(a)
  BY <1>0, <1>9 DEF LoadForLock, Local, Locking, Holding, Arguments, Even
<1>10. CASE CompareExchange(a)
  BY <1>0, <1>10 DEF CompareExchange, Local, Locking, Holding, Arguments, Even
<1>11. CASE Test(a)
  BY <1>0, <1>11 DEF Test, Local, Locking, Holding, Arguments, Even
<1>12. CASE Store(a)
  BY <1>0, <1>12 DEF Store, Local, Locking, Holding, Arguments, Even
<1>13. CASE Publish(a)
  BY <1>0, <1>13 DEF Publish, Local, Locking, Holding, Arguments, Even
<1>14. CASE Release(a)
  BY <1>0, <1>14 DEF Release, Return, Leave, Local, Locking, Holding, Arguments, Even
<1>15. CASE ReleaseAfterCommit(a)
  BY <1>0, <1>15 DEF ReleaseAfterCommit, Leave, Local, Locking, Holding, Arguments, Even
<1> QED BY <1>1, <1>2, <1>3, <1>4, <1>5, <1>6, <1>7, <1>8, <1>9, <1>10, <1>11, <1>12, <1>13, <1>14, <1>15 DEF Start, Step

(* What the other threads know survives the accesses of one thread.          *)
LEMMA OtherStep ==
    ASSUME IInv, NEW a \in Agents, NEW b \in Agents, b # a,
           Start(a) \/ Step(a) \/ Contention(a) \/ Die(a)
    PROVE  Local(b)'
<1> USE DEF TypeOK, Locations
<1>0. TypeOK /\ Exclusion /\ Local(a) /\ Local(b)
  BY DEF IInv
<1>1. CASE StartRead(a) \/ StartUpdate(a)
  BY <1>0, <1>1, OthersKeep DEF StartRead, StartUpdate, Enter
<1>2. ASSUME NEW v \in Values, StartSet(a, v) PROVE Local(b)'
  BY <1>0, <1>2, OthersKeep DEF StartSet, Enter
<1>3. CASE Contention(a) \/ Die(a)
  BY <1>0, <1>3, OthersKeep DEF Contention, Die, Return, Leave
<1>4. CASE LoadBefore(a) \/ LoadValue(a) \/ ReadTorn(a) \/ LoadForLock(a) \/ Test(a)
  BY <1>0, <1>4, OthersKeep DEF LoadBefore, LoadValue, ReadTorn, LoadForLock, Test
<1>5. CASE ReadStable(a)
  BY <1>0, <1>5, OthersKeep DEF ReadStable, Return, Leave
<1>6. CASE ReleaseAfterCommit(a)
  <2>1. seq' = seq
    BY <1>0, <1>6 DEF ReleaseAfterCommit, PutBack, Local
  <2> QED BY <1>0, <1>6, <2>1, OthersKeep DEF ReleaseAfterCommit, Leave
<1>f. CASE \/ CompareExchange(a) \/ Store(a) \/ Publish(a) \/ Release(a)
  <2> DEFINE Same(x) == /\ pc'[x] = pc[x] /\ call'[x] = call[x] /\ base'[x] = base[x]
                        /\ seen'[x] = seen[x] /\ want'[x] = want[x] /\ expect'[x] = expect[x]
  <2>0. Same(b)
    BY <1>0, <1>f DEF CompareExchange, Store, Publish, Release, Return, Leave
  <2>1. CASE CompareExchange(a)
    <3>1. CASE seq # base[a]
      BY <1>0, <2>1, <3>1, OthersKeep DEF CompareExchange
    <3>2. CASE seq = base[a]
      <4>1. Even(seq) /\ pc[b] \notin Holding /\ pc[b] # "publish"
        BY <1>0, <2>1, <3>2 DEF CompareExchange, Local, Exclusion, Holders, Holding
      <4>2. seq' = seq + 1 /\ mem' = mem /\ pc' = [pc EXCEPT ![a] = "test"]
        BY <2>1, <3>2 DEF CompareExchange
      <4>3. Base' = Base
        BY <1>0, <4>1, <4>2, Parity DEF Base, Even
      <4>4. Unpublished' = Unpublished
        BY <1>0, <2>1, <4>2 DEF Unpublished, CompareExchange
      <4> QED BY <1>0, <2>0, <4>1, <4>2, <4>3, <4>4 DEF Local, Arguments, Even, Locking, Holding
    <3> QED BY <3>1, <3>2
  <2>2. ASSUME Store(a) \/ Publish(a) \/ Release(a)
        PROVE  pc[b] \notin Holding /\ Base = base[a] /\ seq = base[a] + 1 /\ Even(base[a])
               /\ base[a] \in Nat /\ ~Even(seq)
    BY <1>0, <2>2, HolderFacts DEF Store, Publish, Release, Local, Holding
  <2>3. CASE Store(a)
    <3>1. seq' = seq /\ a \in Unpublished'
      BY <1>0, <2>3 DEF Store, Unpublished
    <3> QED BY <1>0, <2>0, <2>2, <2>3, <3>1 DEF Local, Arguments, Even, Locking, Holding
  <2>4. CASE Publish(a)
    <3>1. seq' = base[a] + 2 /\ mem' = mem
      BY <2>4 DEF Publish
    <3>2. Base' = base[a] + 2
      BY <2>2, <2>4, <3>1, Parity DEF Base, Even
    <3> QED BY <1>0, <2>0, <2>2, <2>4, <3>1, <3>2 DEF Local, Arguments, Even, Locking, Holding
  <2>5. CASE Release(a)
    <3>1. seq' = base[a] /\ mem' = mem
      BY <2>2, <2>5 DEF Release, PutBack
    <3>2. Base' = base[a] /\ Unpublished = {}
      BY <1>0, <2>2, <2>5, <3>1, HolderFacts DEF Base, Even, Release, Holding
    <3>3. Even(base[b]) /\ base[b] <= seq => base[b] <= base[a]
      BY <1>0, <2>2, <2>5
    <3>4. Even(base[b]) /\ seq >= base[b] + 2 => base[a] >= base[b] + 2
      BY <1>0, <2>2, <2>5, Parity
    <3> QED BY <1>0, <2>0, <2>2, <2>5, <3>1, <3>2, <3>3, <3>4 DEF Local, Arguments, Even, Locking, Holding
  <2> QED BY <1>f, <2>1, <2>2, <2>3, <2>4, <2>5
<1> QED BY <1>1, <1>2, <1>3, <1>4, <1>5, <1>6, <1>f DEF Start, Step

(* The inductive invariant.                                                  *)
LEMMA Inductive == IInv /\ [Next]_vars => IInv'
<1> SUFFICES ASSUME IInv, [Next]_vars PROVE IInv'
  OBVIOUS
<1>1. TypeOK' /\ Exclusion'
  BY TypeStep, ExclusionStep DEF IInv
<1>2. CASE UNCHANGED vars
  <2>1. Unpublished' = Unpublished /\ Base' = Base
    BY <1>2 DEF vars, Unpublished, Base, Even
  <2>2. \A x \in Agents : Local(x)'
    BY <1>2, <2>1 DEF IInv, vars, Local, Arguments, Even, Locking, Holding
  <2> QED BY <1>1, <2>2 DEF IInv
<1>3. CASE Next
  <2>1. PICK a \in Agents : Start(a) \/ Step(a) \/ Contention(a) \/ Die(a)
    BY <1>3 DEF Next
  <2>2. \A b \in Agents : Local(b)'
    BY <2>1, MoverStep, OtherStep
  <2> QED BY <1>1, <2>2 DEF IInv
<1> QED BY <1>2, <1>3

(* No two threads are ever between acquiring and releasing the lock of a     *)
(* cell, and the word is odd exactly while one is: for every number of       *)
(* threads, with threads terminated at any point.                            *)
THEOREM WritersExclude == Spec => []Exclusion
<1>1. IInv => Exclusion
  BY DEF IInv
<1> QED BY <1>1, InitHolds, Inductive, PTL DEF Spec, SafeSpec

-----------------------------------------------------------------------------
(* The versioned register.                                                   *)

(* The call a thread is inside, as the register sees it.                     *)
AbstractCall == [x \in Agents |-> IF pc[x] = "done" THEN Idle ELSE call[x]]

(* Without a writer between its two stores the register is the memory.       *)
LEMMA ValueFacts ==
    /\ Unpublished = {} => Value = mem
    /\ \A a \in Agents : Unpublished = {a} => Value = seen[a]
BY DEF Value

(* An even word is the version of the register, and no writer is inside.     *)
LEMMA EvenFacts ==
    ASSUME IInv, Even(seq)
    PROVE  Base = seq /\ Unpublished = {} /\ Value = mem
<1>1. Unpublished = {}
  BY DEF IInv, Exclusion, Holders, Unpublished
<1> QED BY <1>1, ValueFacts DEF Base

LEMMA RegisterInit == Init => Register!Init
<1> SUFFICES ASSUME Init PROVE Register!Init
  OBVIOUS
<1>1. Unpublished = {} /\ Base = 0
  BY Parity DEF Init, Unpublished, Base
<1>2. Value = mem
  BY <1>1, ValueFacts
<1> QED BY <1>1, <1>2 DEF Init, Register!Init, Result, Register!Result

(* A step that neither calls nor returns leaves the register alone.          *)
LEMMA Stutters ==
    ASSUME AbstractCall' = AbstractCall, got' = got, Value' = Value, Base' = Base
    PROVE  UNCHANGED Register!cellVars
BY DEF Register!cellVars, AbstractCall

(* Every step of a thread is a step of the register or leaves it alone.      *)
LEMMA RegisterStep ==
    ASSUME IInv, NEW a \in Agents, Start(a) \/ Step(a) \/ Contention(a) \/ Die(a)
    PROVE  [Register!Next]_(Register!cellVars)
<1> USE DEF TypeOK, Locations
<1>0. TypeOK /\ Exclusion /\ Local(a)
  BY DEF IInv
<1>1. ASSUME seq' = seq, mem' = mem, Unpublished' = Unpublished,
             \A x \in Unpublished : seen'[x] = seen[x]
      PROVE  Base' = Base /\ Value' = Value
  <2>1. (CHOOSE x \in Unpublished : TRUE) \in Unpublished \/ Unpublished = {}
    OBVIOUS
  <2> QED BY <1>1, <2>1 DEF Base, Value, Even
<1>2. ASSUME NEW r \in Register!Requests,
             pc[a] = "idle", Enter(a, r, "load") \/ Enter(a, r, "lock"),
             seq' = seq, mem' = mem, seen' = seen
      PROVE  Register!Next
  <2>1. Unpublished' = Unpublished
    BY <1>0, <1>2 DEF Unpublished, Enter
  <2>2. Base' = Base /\ Value' = Value
    BY <1>1, <1>2, <2>1
  <2>3. AbstractCall[a] = Idle /\ AbstractCall' = [AbstractCall EXCEPT ![a] = r]
    BY <1>0, <1>2 DEF AbstractCall, Enter, Local
  <2>4. Register!Invoke(a, r)
    BY <1>2, <2>2, <2>3 DEF Register!Invoke, Enter, AbstractCall, Result, Register!Result
  <2> QED BY <2>4 DEF Register!Next
<1>3. CASE StartRead(a)
  <2>1. Request("read", NoValue) \in Register!Requests
    BY DEF Request, Register!Request, Register!Requests
  <2> QED BY <1>2, <1>3, <2>1 DEF StartRead
<1>4. CASE StartUpdate(a)
  <2>1. Request("update", NoValue) \in Register!Requests
    BY DEF Request, Register!Request, Register!Requests
  <2> QED BY <1>2, <1>4, <2>1 DEF StartUpdate
<1>5. ASSUME NEW v \in Values, StartSet(a, v) PROVE Register!Next
  <2>1. Request("set", v) \in Register!Requests
    BY DEF Request, Register!Request, Register!Requests
  <2> QED BY <1>2, <1>5, <2>1 DEF StartSet
<1>6. ASSUME NEW result, Return(a, result), pc[a] # "done", pc[a] # "idle"
      PROVE  /\ AbstractCall[a] = call[a] /\ call[a] # Idle
             /\ AbstractCall' = [AbstractCall EXCEPT ![a] = Idle]
             /\ got' = [got EXCEPT ![a] = result]
  BY <1>0, <1>6 DEF Return, Leave, AbstractCall, Local
<1>7. CASE Contention(a)
  <2>1. Unpublished' = Unpublished /\ \A x \in Unpublished : seen'[x] = seen[x]
    BY <1>0, <1>7 DEF Contention, Return, Leave, Unpublished
  <2>2. Base' = Base /\ Value' = Value
    BY <1>1, <1>7, <2>1 DEF Contention
  <2>3. Register!GiveUp(a)
    BY <1>6, <1>7, <2>2 DEF Contention, Register!GiveUp, Register!Finish, AbstractCall, Result, Register!Result
  <2> QED BY <2>3 DEF Register!Next
<1>8. CASE Die(a)
  <2>1. Unpublished' = Unpublished
    BY <1>8 DEF Die, Unpublished
  <2> QED BY <1>1, <1>8, <2>1, Stutters DEF Die, AbstractCall
<1>9. CASE ReadStable(a)
  <2>1. Even(seq) /\ seq = base[a] /\ seen[a] \in Values
    BY <1>0, <1>9 DEF ReadStable, Local
  <2>2. Base = seq /\ Unpublished = {} /\ Value = mem
    BY <2>1, EvenFacts
  <2>3. seen[a] = mem
    BY <1>0, <1>9, <2>1, <2>2 DEF ReadStable, Local
  <2>4. Unpublished' = {} /\ seq' = seq /\ mem' = mem
    BY <1>0, <1>9, <2>2 DEF ReadStable, Return, Leave, Unpublished
  <2>5. Base' = Base /\ Value' = Value
    BY <1>1, <2>2, <2>4
  <2>6. CASE call[a].kind = "read" /\ Return(a, Result("read", seen[a], base[a]))
    <3>1. Register!Read(a)
      BY <1>6, <1>9, <2>1, <2>2, <2>3, <2>5, <2>6
         DEF ReadStable, Register!Read, Register!Finish, AbstractCall, Result, Register!Result
    <3> QED BY <3>1 DEF Register!Next
  <2>7. CASE call[a].kind = "update" /\ Fn[seen[a]] = seen[a]
             /\ Return(a, Result("same", seen[a], base[a]))
    <3>1. Register!Same(a)
      BY <1>6, <1>9, <2>1, <2>2, <2>3, <2>5, <2>7
         DEF ReadStable, Register!Same, Register!Wanted, Register!Finish, AbstractCall,
             Result, Register!Result
    <3> QED BY <3>1 DEF Register!Next
  <2>8. CASE Goto(a, "lock") /\ UNCHANGED <<call, base, seen, got>>
    <3>1. AbstractCall' = AbstractCall
      BY <1>0, <1>9, <2>8 DEF AbstractCall, ReadStable
    <3> QED BY <2>5, <2>8, <3>1, Stutters
  <2> QED BY <1>9, <2>6, <2>7, <2>8 DEF ReadStable
<1>10. CASE LoadBefore(a) \/ LoadValue(a) \/ ReadTorn(a) \/ LoadForLock(a) \/ Test(a)
  <2>1. /\ Unpublished' = Unpublished /\ \A x \in Unpublished : seen'[x] = seen[x]
        /\ seq' = seq /\ mem' = mem
    BY <1>0, <1>10 DEF LoadBefore, LoadValue, ReadTorn, LoadForLock, Test, Unpublished
  <2>2. AbstractCall' = AbstractCall /\ got' = got
    BY <1>0, <1>10 DEF LoadBefore, LoadValue, ReadTorn, LoadForLock, Test, AbstractCall
  <2> QED BY <1>1, <2>1, <2>2, Stutters
<1>11. CASE CompareExchange(a)
  <2>1. Unpublished' = Unpublished /\ mem' = mem /\ seen' = seen
    BY <1>0, <1>11 DEF CompareExchange, Unpublished
  <2>2. AbstractCall' = AbstractCall /\ got' = got
    BY <1>0, <1>11 DEF CompareExchange, AbstractCall
  <2>3. Base' = Base
    <3>1. CASE seq' = seq
      BY <3>1 DEF Base, Even
    <3>2. CASE seq' = seq + 1 /\ Even(seq)
      BY <1>0, <3>2, Parity DEF Base, Even
    <3> QED BY <1>0, <1>11, <3>1, <3>2 DEF CompareExchange, Local
  <2>4. Value' = Value
    BY <2>1 DEF Value
  <2> QED BY <2>2, <2>3, <2>4, Stutters
<1>12. CASE Store(a)
  <2>1. Unpublished = {} /\ Unpublished' = {a}
    BY <1>0, <1>12, HolderFacts DEF Store, Unpublished, Holding
  <2>2. Value = mem /\ Value' = seen'[a] /\ seen' = seen /\ seen[a] = mem
    BY <1>0, <1>12, <2>1 DEF Store, Value, Local
  <2>3. AbstractCall' = AbstractCall /\ got' = got /\ Base' = Base
    BY <1>0, <1>12 DEF Store, AbstractCall, Base, Even
  <2> QED BY <2>2, <2>3, Stutters
<1>13. CASE Publish(a)
  <2>1. /\ Unpublished = {a} /\ Base = base[a] /\ seq = base[a] + 1
        /\ Even(base[a]) /\ base[a] \in Nat
    BY <1>0, <1>13, HolderFacts DEF Publish, Holding, Local
  <2>2. Unpublished' = {} /\ mem' = mem /\ seq' = base[a] + 2
    BY <1>0, <1>13, <2>1 DEF Publish, Unpublished
  <2>3. Value = seen[a] /\ Value' = want[a] /\ Base' = Base + 2
    BY <1>0, <1>13, <2>1, <2>2, Parity DEF Publish, Value, Base, Even, Local
  <2>4. /\ AbstractCall[a] = call[a] /\ AbstractCall' = [AbstractCall EXCEPT ![a] = Idle]
        /\ call[a] # Idle
    BY <1>0, <1>13 DEF Publish, AbstractCall, Local
  <2>5. Arguments(a) /\ seen[a] # want[a] /\ (expect[a] # NoValue => seen[a] = expect[a])
    BY <1>0, <1>13 DEF Publish, Local, Locking
  <2>6. Register!Wanted(a) = want[a]
    BY <2>3, <2>4, <2>5, NoValueAssumption DEF Arguments, Register!Wanted, AbstractCall
  <2>7. Register!Change(a)
    BY <1>13, <2>1, <2>3, <2>4, <2>5, <2>6
       DEF Publish, Register!Change, Register!Finish, AbstractCall, Arguments, Result, Register!Result
  <2> QED BY <2>7 DEF Register!Next
<1>14. CASE Release(a)
  <2>1. /\ Unpublished = {} /\ Base = base[a] /\ seq = base[a] + 1
        /\ Even(base[a]) /\ base[a] \in Nat
    BY <1>0, <1>14, HolderFacts DEF Release, Holding, Local
  <2>2. Unpublished' = {} /\ mem' = mem /\ seq' = base[a]
    BY <1>0, <1>14, <2>1 DEF Release, PutBack, Return, Leave, Unpublished
  <2>3. Value = mem /\ Value' = mem /\ Base' = Base
    BY <2>1, <2>2 DEF Value, Base, Even
  <2>4. CASE call[a].kind = "set"
    <3>1. Return(a, Result("same", seen[a], base[a])) /\ pc[a] = "release"
      BY <1>14, <2>4 DEF Release
    <3>2. seen[a] = mem /\ mem = want[a] /\ want[a] = call[a].next
      BY <1>0, <1>14, <2>4 DEF Release, Local, Locking, Arguments
    <3>3. Register!Same(a)
      BY <1>6, <2>1, <2>3, <2>4, <3>1, <3>2
         DEF Register!Same, Register!Wanted, Register!Finish, AbstractCall, Result, Register!Result
    <3> QED BY <3>3 DEF Register!Next
  <2>5. CASE call[a].kind # "set"
    <3>1. AbstractCall' = AbstractCall /\ got' = got
      BY <1>0, <1>14, <2>5 DEF Release, AbstractCall
    <3> QED BY <2>3, <3>1, Stutters
  <2> QED BY <2>4, <2>5
<1>15. CASE ReleaseAfterCommit(a)
  <2>1. seq' = seq /\ mem' = mem
    BY <1>0, <1>15 DEF ReleaseAfterCommit, PutBack, Local
  <2>2. Unpublished' = Unpublished /\ \A x \in Unpublished : seen'[x] = seen[x]
    BY <1>0, <1>15 DEF ReleaseAfterCommit, Leave, Unpublished
  <2>3. AbstractCall' = AbstractCall /\ got' = got
    BY <1>0, <1>15 DEF ReleaseAfterCommit, Leave, AbstractCall
  <2> QED BY <1>1, <2>1, <2>2, <2>3, Stutters
<1> QED BY <1>3, <1>4, <1>5, <1>7, <1>8, <1>9, <1>10, <1>11, <1>12, <1>13, <1>14, <1>15
       DEF Start, Step

(* A cell shared by any number of threads is one versioned register: no read *)
(* is torn, no update is lost, no value appears under another's version,     *)
(* whatever is interleaved and whichever thread is terminated.               *)
THEOREM CellIsRegister == Spec => Implements
<1>1. IInv /\ [Next]_vars => [Register!Next]_(Register!cellVars)
  <2> SUFFICES ASSUME IInv, [Next]_vars PROVE [Register!Next]_(Register!cellVars)
    OBVIOUS
  <2>1. CASE UNCHANGED vars
    <3>1. Value' = Value /\ Base' = Base
      BY <2>1 DEF vars, Value, Base, Even, Unpublished
    <3> QED BY <2>1, <3>1, Stutters DEF vars, AbstractCall
  <2>2. CASE Next
    BY <2>2, RegisterStep DEF Next
  <2> QED BY <2>1, <2>2
<1> QED BY <1>1, InitHolds, Inductive, RegisterInit, PTL
       DEF Spec, SafeSpec, Implements, Register!Spec

-----------------------------------------------------------------------------
(* The array: what a wrapper over the cells knows of the others' writes.     *)

CONSTANTS Length, Observers, MaxWrites

VARIABLES scanned, cell, todo, loaded, fan, then, watch, expected

Array == INSTANCE SharedArray

Sized == Length \in Nat \ {0} /\ Observers \subseteq Threads

(* The cells whose observers the call under way still has to run.            *)
Due(a) == fan[a] \cup IF at[a] \in {"announce", "notify"} THEN {cell[a]} ELSE {}

(* No cursor and no generation a wrapper remembers is ahead of shared memory. *)
Bounded(a) ==
  /\ epoch[a] =< gen /\ loaded[a] =< gen
  /\ \A c \in Array!Cells : cursor[a][c] =< ver[c] /\ scanned[a][c] =< ver[c]

(* A scan goes on while a generation is loaded, and observers run to the end. *)
Paced(a) ==
  /\ at[a] \in {"idle", "announce", "notify", "sync", "wait"} => fan[a] = {} /\ loaded[a] = -1
  /\ at[a] = "scan" => loaded[a] # -1
  /\ at[a] \in {"observers", "read"} /\ loaded[a] # -1 => todo[a] = {}

(* Where the cell's cursor is at the present version, its observer has read the *)
(* present value or is about to.                                             *)
FreshOrDue(a) ==
  \A c \in cells[a] : cursor[a][c] = ver[c] => Array!Shows(a, c) \/ c \in Due(a)

(* The array has recorded the version of c and asks the cell to sync next.   *)
Recorded(a, c) == at[a] = "cell" /\ cell[a] = c

(* The array's cursor is ahead of the cell's in no other case.               *)
CellsFollow(a) ==
  \A c \in cells[a] : scanned[a][c] =< cursor[a][c] \/ Recorded(a, c)

(* Everything written is counted by the generation g.                        *)
Quiet(g) == g = gen /\ Array!Unannounced = {}

(* When the generation of the last scan counts everything written, the cells *)
(* are all at the present version ...                                        *)
ScannedIsFresh(a) ==
  Quiet(epoch[a]) => \A c \in cells[a] : cursor[a][c] = ver[c]

(* ... and so are those the present scan has reached, under the generation it *)
(* started from.                                                             *)
ReachedIsFresh(a) ==
  Quiet(loaded[a]) =>
    \A c \in cells[a] \ todo[a] : cursor[a][c] = ver[c] \/ Recorded(a, c)

Wrapper(a) == /\ Bounded(a) /\ Paced(a) /\ FreshOrDue(a) /\ CellsFollow(a)
              /\ ScannedIsFresh(a) /\ ReachedIsFresh(a)

ArrayInv == Array!TypeOK /\ \A a \in Threads : Wrapper(a)

USE DEF Array!On, Array!Goto, Array!Set2, Array!shared, Array!cursors, Array!work, Array!loop

(* The cell a scan visits next is one of those left.                         *)
LEMMA MinIsIn ==
    ASSUME NEW S, S \subseteq Nat, S # {}
    PROVE  Array!Min(S) \in S
<1> DEFINE R == OpToRel(<, Nat)
<1>1. IsWellFoundedOn(R, Nat)
  BY NatLessThanWellFounded
<1>2. \A x, y \in Nat : x < y => <<x, y>> \in R
  BY DEF OpToRel
<1> HIDE DEF R
<1>3. PICK m \in S : \A y \in S : <<y, m>> \notin R
  BY <1>1, WFMin
<1>4. \A y \in S : m =< y
  <2> SUFFICES ASSUME NEW y \in S PROVE m =< y
    OBVIOUS
  <2>1. m \in Nat /\ y \in Nat
    OBVIOUS
  <2>2. ~(y < m)
    BY <1>2, <1>3, <2>1
  <2> QED BY <2>1, <2>2
<1> QED BY <1>3, <1>4 DEF Array!Min

(* Every step keeps the types.                                               *)
LEMMA ArrayTypeStep ==
    ASSUME Sized, Array!TypeOK, [Array!Next]_(Array!vars)
    PROVE  Array!TypeOK'
<1>1. ASSUME NEW a \in Threads, NEW c \in Array!Cells, NEW v \in Values,
             Array!Write(a, c, v)
      PROVE  Array!TypeOK'
  BY <1>1 DEF Array!Write, Array!TypeOK, Array!States, Array!Wake
<1>2. ASSUME NEW a \in Threads, Array!Announce(a) PROVE Array!TypeOK'
  BY <1>2 DEF Array!Announce, Array!TypeOK, Array!States, Array!Wake
<1>3. ASSUME NEW a \in Threads, Array!Notify(a) PROVE Array!TypeOK'
  BY <1>3 DEF Array!Notify, Array!TypeOK, Array!States, Array!Wake
<1>4. ASSUME NEW a \in Threads, Array!ObserverSync(a) PROVE Array!TypeOK'
  BY <1>4 DEF Array!ObserverSync, Array!TypeOK, Array!States, Array!Wake
<1>5. ASSUME NEW a \in Threads, Array!ObserverRead(a) PROVE Array!TypeOK'
  BY <1>5 DEF Array!ObserverRead, Array!TypeOK, Array!States, Array!Wake
<1>6. ASSUME NEW a \in Threads, Array!ObserversDone(a) PROVE Array!TypeOK'
  <2>1. /\ watch' \in [Threads -> Array!States]
        /\ then' \in [Threads -> {"idle", "wait", "timer"}]
    BY <1>6 DEF Array!ObserversDone, Array!Continue, Array!TypeOK, Array!States
  <2>2. epoch' \in [Threads -> Nat]
    BY <1>6 DEF Array!ObserversDone, Array!TypeOK
  <2>3. at' \in [Threads -> {"idle", "announce", "notify", "observers", "read",
                            "sync", "scan", "cell", "wait"}]
    BY <1>6 DEF Array!ObserversDone, Array!Continue, Array!TypeOK
  <2>4. cell' \in [Threads -> Array!Cells] /\ loaded' \in [Threads -> Nat \cup {-1}]
    BY <1>6 DEF Array!ObserversDone, Array!TypeOK, Array!Cells, Sized
  <2> QED BY <1>6, <2>1, <2>2, <2>3, <2>4
             DEF Array!ObserversDone, Array!Continue, Array!TypeOK
<1>7. ASSUME NEW a \in Threads, Array!LoadGeneration(a) PROVE Array!TypeOK'
  <2>1. CASE gen = epoch[a] /\ Array!Continue(a) /\ UNCHANGED <<todo, loaded>>
    <3>1. /\ watch' \in [Threads -> Array!States]
          /\ then' \in [Threads -> {"idle", "wait", "timer"}]
      BY <2>1 DEF Array!Continue, Array!TypeOK, Array!States
    <3>2. at' \in [Threads -> {"idle", "announce", "notify", "observers", "read",
                              "sync", "scan", "cell", "wait"}]
      BY <2>1 DEF Array!Continue, Array!TypeOK
    <3> QED BY <1>7, <2>1, <3>1, <3>2 DEF Array!LoadGeneration, Array!TypeOK
  <2>2. CASE /\ gen # epoch[a]
             /\ todo' = [todo EXCEPT ![a] = Array!Cells]
             /\ at' = [at EXCEPT ![a] = "scan"]
             /\ loaded' = [loaded EXCEPT ![a] = gen]
             /\ UNCHANGED <<then, watch>>
    <3>1. /\ loaded' \in [Threads -> Nat \cup {-1}]
          /\ todo' \in [Threads -> SUBSET Array!Cells]
      BY <1>7, <2>2 DEF Array!LoadGeneration, Array!TypeOK
    <3>2. at' = [at EXCEPT ![a] = "scan"] /\ UNCHANGED <<then, watch>>
      BY <1>7, <2>2 DEF Array!LoadGeneration
    <3> QED BY <1>7, <2>2, <3>1, <3>2 DEF Array!LoadGeneration, Array!TypeOK
  <2> QED BY <1>7, <2>1, <2>2 DEF Array!LoadGeneration
<1>8. ASSUME NEW a \in Threads, Array!ScanCell(a) PROVE Array!TypeOK'
  <2>1. todo[a] \subseteq Nat /\ todo[a] # {} /\ todo[a] \subseteq Array!Cells
    BY <1>8 DEF Array!ScanCell, Array!TypeOK, Array!Cells
  <2>2. Array!Min(todo[a]) \in Array!Cells
    BY <2>1, MinIsIn
  <2> DEFINE m == Array!Min(todo[a])
  <2>3. m \in Array!Cells
    BY <2>2
  <2>4. todo' = [todo EXCEPT ![a] = todo[a] \ {m}] /\ cell' = [cell EXCEPT ![a] = m]
    BY <1>8 DEF Array!ScanCell
  <2>5. scanned' = Array!Set2(scanned, a, m, ver[m])
    BY <1>8 DEF Array!ScanCell
  <2>6. PICK l \in {"cell", "scan"} : at' = [at EXCEPT ![a] = l]
    BY <1>8 DEF Array!ScanCell
  <2>7. UNCHANGED <<Array!shared, cells, cursor, epoch, shown, loaded, fan, Array!loop, dead>>
    BY <1>8 DEF Array!ScanCell
  <2> HIDE DEF m
  <2>8. scanned' \in [Threads -> [Array!Cells -> Nat]]
    BY <2>3, <2>5 DEF Array!TypeOK
  <2>9. todo' \in [Threads -> SUBSET Array!Cells] /\ cell' \in [Threads -> Array!Cells]
    BY <2>3, <2>4 DEF Array!TypeOK
  <2> QED BY <2>6, <2>7, <2>8, <2>9 DEF Array!TypeOK
<1>9. ASSUME NEW a \in Threads, Array!ScanEnd(a) PROVE Array!TypeOK'
  BY <1>9 DEF Array!ScanEnd, Array!TypeOK, Array!States, Array!Wake
<1>10. ASSUME NEW a \in Threads, Array!CellSync(a) PROVE Array!TypeOK'
  BY <1>10 DEF Array!CellSync, Array!TypeOK, Array!States, Array!Wake
<1>11. ASSUME NEW a \in Threads, Array!WaitAsync(a) PROVE Array!TypeOK'
  <2>1. CASE gen = expected[a]
    BY <1>11, <2>1 DEF Array!WaitAsync, Array!TypeOK, Array!States
  <2>2. CASE gen # expected[a]
    <3>1. /\ then' = [then EXCEPT ![a] = "timer"]
          /\ expected' = [expected EXCEPT ![a] = 0]
          /\ at' = [at EXCEPT ![a] = "sync"] /\ watch' = watch
      BY <1>11, <2>2 DEF Array!WaitAsync
    <3> QED BY <1>11, <3>1 DEF Array!WaitAsync, Array!TypeOK
  <2> QED BY <2>1, <2>2
<1>12. ASSUME NEW a \in Threads, Array!TimerFires(a) PROVE Array!TypeOK'
  BY <1>12 DEF Array!TimerFires, Array!Turn, Array!TypeOK, Array!States, Array!Wake
<1>13. ASSUME NEW a \in Threads, Array!Woken(a) PROVE Array!TypeOK'
  BY <1>13 DEF Array!Woken, Array!TypeOK, Array!States, Array!Wake
<1>14. ASSUME NEW a \in Threads, Array!Die(a) PROVE Array!TypeOK'
  BY <1>14 DEF Array!Die, Array!TypeOK, Array!States, Array!Wake
<1>15. ASSUME NEW a \in Threads, Array!Sync(a) PROVE Array!TypeOK'
  BY <1>15 DEF Array!Sync, Array!TypeOK, Array!States, Array!Wake
<1>16. ASSUME NEW a \in Threads, Array!Watch(a) PROVE Array!TypeOK'
  BY <1>16 DEF Array!Watch, Array!Turn, Array!TypeOK, Array!States, Array!Wake
<1>17. ASSUME NEW a \in Threads, Array!StopWatching(a) PROVE Array!TypeOK'
  BY <1>17 DEF Array!StopWatching, Array!TypeOK, Array!States, Array!Wake
<1>18. ASSUME NEW a \in Threads, NEW c \in Array!Cells, Array!Observe(a, c)
       PROVE  Array!TypeOK'
  BY <1>18 DEF Array!Observe, Array!TypeOK, Array!States, Array!Wake
<1>19. ASSUME NEW a \in Threads, NEW c \in Array!Cells, Array!Unobserve(a, c)
       PROVE  Array!TypeOK'
  BY <1>19 DEF Array!Unobserve, Array!TypeOK, Array!States, Array!Wake
<1>20. ASSUME NEW a \in Threads, NEW c \in Array!Cells, Array!SyncIndex(a, c)
       PROVE  Array!TypeOK'
  BY <1>20 DEF Array!SyncIndex, Array!TypeOK, Array!States, Array!Wake
<1>21. CASE UNCHANGED Array!vars
  BY <1>21 DEF Array!vars, Array!TypeOK, Array!States, Array!Wake
<1> QED BY <1>1, <1>2, <1>3, <1>4, <1>5, <1>6, <1>7, <1>8, <1>9, <1>10, <1>11, <1>12,
           <1>13, <1>14, <1>15, <1>16, <1>17, <1>18, <1>19, <1>20, <1>21
        DEF Sized, Array!Next, Array!Step, Array!Task, Array!Use
(* The state of one wrapper and its thread, as far as the invariant is about it. *)
Mine(b) == <<cells[b], cursor[b], scanned[b], epoch[b], shown[b],
             at[b], cell[b], todo[b], loaded[b], fan[b]>>

(* A step of the thread a.                                                   *)
Moves(a) == \/ Array!Step(a) \/ Array!Task(a) \/ Array!Die(a) \/ Array!Use(a)
            \/ \E c \in Array!Cells, v \in Values : Array!Write(a, c, v)

(* What a step may do to shared memory: versions and the generation only grow, a *)
(* value changes with its version only, and a state in which a generation counts *)
(* everything written does not come about by a step.                         *)
Growth ==
  /\ gen =< gen'
  /\ \A c \in Array!Cells : ver[c] =< ver'[c] /\ (ver'[c] = ver[c] => value'[c] = value[c])
  /\ \A g \in Int : g =< gen /\ g = gen' /\ Array!Unannounced' = {} =>
        g = gen /\ Array!Unannounced = {} /\ ver' = ver

(* Every step is the step of one thread ...                                  *)
LEMMA SomeoneMoves ==
    ASSUME Sized, Array!Next
    PROVE  \E a \in Threads : Moves(a)
BY DEF Sized, Array!Next, Moves

(* ... and leaves the wrappers of the others alone.                          *)
LEMMA OthersStay ==
    ASSUME Array!TypeOK, NEW a \in Threads, Moves(a), NEW b \in Threads \ {a}
    PROVE  UNCHANGED Mine(b)
<1>1. ASSUME NEW c \in Array!Cells, NEW v \in Values, Array!Write(a, c, v)
      PROVE  UNCHANGED Mine(b)
  BY <1>1 DEF Array!Write, Array!TypeOK, Mine
<1>2. CASE Array!Announce(a)
  BY <1>2 DEF Array!Announce, Array!TypeOK, Mine
<1>3. CASE Array!Notify(a)
  BY <1>3 DEF Array!Notify, Array!TypeOK, Mine
<1>4. CASE Array!ObserverSync(a)
  BY <1>4 DEF Array!ObserverSync, Array!TypeOK, Mine
<1>5. CASE Array!ObserverRead(a)
  BY <1>5 DEF Array!ObserverRead, Array!TypeOK, Mine
<1>6. CASE Array!ObserversDone(a)
  BY <1>6 DEF Array!ObserversDone, Array!Continue, Array!TypeOK, Mine
<1>7. CASE Array!LoadGeneration(a)
  BY <1>7 DEF Array!LoadGeneration, Array!Continue, Array!TypeOK, Mine
<1>8. CASE Array!ScanCell(a)
  BY <1>8 DEF Array!ScanCell, Array!TypeOK, Mine
<1>9. CASE Array!ScanEnd(a)
  BY <1>9 DEF Array!ScanEnd, Array!TypeOK, Mine
<1>10. CASE Array!CellSync(a)
  BY <1>10 DEF Array!CellSync, Array!TypeOK, Mine
<1>11. CASE Array!WaitAsync(a)
  BY <1>11 DEF Array!WaitAsync, Array!TypeOK, Mine
<1>12. CASE Array!TimerFires(a)
  BY <1>12 DEF Array!TimerFires, Array!Turn, Array!TypeOK, Mine
<1>13. CASE Array!Woken(a)
  BY <1>13 DEF Array!Woken, Array!TypeOK, Mine
<1>14. CASE Array!Die(a)
  BY <1>14 DEF Array!Die, Array!TypeOK, Mine
<1>15. CASE Array!Sync(a)
  BY <1>15 DEF Array!Sync, Array!TypeOK, Mine
<1>16. CASE Array!Watch(a)
  BY <1>16 DEF Array!Watch, Array!Turn, Array!TypeOK, Mine
<1>17. CASE Array!StopWatching(a)
  BY <1>17 DEF Array!StopWatching, Array!TypeOK, Mine
<1>18. ASSUME NEW c \in Array!Cells, Array!Observe(a, c) PROVE UNCHANGED Mine(b)
  BY <1>18 DEF Array!Observe, Array!TypeOK, Mine
<1>19. ASSUME NEW c \in Array!Cells, Array!Unobserve(a, c) PROVE UNCHANGED Mine(b)
  BY <1>19 DEF Array!Unobserve, Array!TypeOK, Mine
<1>20. ASSUME NEW c \in Array!Cells, Array!SyncIndex(a, c) PROVE UNCHANGED Mine(b)
  BY <1>20 DEF Array!SyncIndex, Array!TypeOK, Mine
<1> QED BY <1>1, <1>2, <1>3, <1>4, <1>5, <1>6, <1>7, <1>8, <1>9, <1>10, <1>11, <1>12,
           <1>13, <1>14, <1>15, <1>16, <1>17, <1>18, <1>19, <1>20
        DEF Moves, Array!Step, Array!Task, Array!Use

(* A step that is not an announcement and changes nothing shared is no exception. *)
LEMMA SharedKept ==
    ASSUME Array!TypeOK, NEW a \in Threads, UNCHANGED Array!shared, at[a] # "announce",
           \A b \in Threads \ {a} : at'[b] = at[b]
    PROVE  Growth
<1>1. Array!Unannounced' = {} => Array!Unannounced = {}
  BY DEF Array!Unannounced
<1>2. gen' = gen /\ ver' = ver /\ value' = value
  OBVIOUS
<1>3. gen \in Int /\ ver \in [Array!Cells -> Nat]
  BY DEF Array!TypeOK
<1> QED BY <1>1, <1>2, <1>3 DEF Growth

(* The generation is added to after the cell has changed, so every step grows. *)
LEMMA Grows ==
    ASSUME Array!TypeOK, NEW a \in Threads, Moves(a)
    PROVE  Growth
<1>1. ASSUME NEW c \in Array!Cells, NEW v \in Values, Array!Write(a, c, v) PROVE Growth
  <2>1. /\ gen' = gen
        /\ ver' = [ver EXCEPT ![c] = ver[c] + 2]
        /\ value' = [value EXCEPT ![c] = v]
    BY <1>1 DEF Array!Write
  <2>2. at'[a] = "announce"
    BY <1>1 DEF Array!Write, Array!TypeOK
  <2>3. Array!Unannounced' # {}
    BY <2>2 DEF Array!Unannounced
  <2> QED BY <2>1, <2>3 DEF Array!TypeOK, Growth
<1>2. CASE Array!Announce(a)
  BY <1>2 DEF Array!Announce, Array!TypeOK, Growth
<1>3. CASE Array!Notify(a)
  <2>1. UNCHANGED Array!shared
    BY <1>3 DEF Array!Notify
  <2>2. at[a] # "announce" /\ \A b \in Threads \ {a} : at'[b] = at[b]
    BY <1>3 DEF Array!Notify, Array!TypeOK
  <2> QED BY <2>1, <2>2, SharedKept
<1>4. CASE Array!ObserverSync(a)
  <2>1. UNCHANGED Array!shared
    BY <1>4 DEF Array!ObserverSync
  <2>2. at[a] # "announce" /\ \A b \in Threads \ {a} : at'[b] = at[b]
    BY <1>4 DEF Array!ObserverSync, Array!TypeOK
  <2> QED BY <2>1, <2>2, SharedKept
<1>5. CASE Array!ObserverRead(a)
  <2>1. UNCHANGED Array!shared
    BY <1>5 DEF Array!ObserverRead
  <2>2. at[a] # "announce" /\ \A b \in Threads \ {a} : at'[b] = at[b]
    BY <1>5 DEF Array!ObserverRead, Array!TypeOK
  <2> QED BY <2>1, <2>2, SharedKept
<1>6. CASE Array!ObserversDone(a)
  <2>1. UNCHANGED Array!shared
    BY <1>6 DEF Array!ObserversDone, Array!Continue
  <2>2. at[a] # "announce" /\ \A b \in Threads \ {a} : at'[b] = at[b]
    BY <1>6 DEF Array!ObserversDone, Array!Continue, Array!TypeOK
  <2> QED BY <2>1, <2>2, SharedKept
<1>7. CASE Array!LoadGeneration(a)
  <2>1. UNCHANGED Array!shared
    BY <1>7 DEF Array!LoadGeneration, Array!Continue
  <2>2. at[a] # "announce" /\ \A b \in Threads \ {a} : at'[b] = at[b]
    BY <1>7 DEF Array!LoadGeneration, Array!Continue, Array!TypeOK
  <2> QED BY <2>1, <2>2, SharedKept
<1>8. CASE Array!ScanCell(a)
  <2>1. UNCHANGED Array!shared
    BY <1>8 DEF Array!ScanCell
  <2>2. at[a] # "announce" /\ \A b \in Threads \ {a} : at'[b] = at[b]
    BY <1>8 DEF Array!ScanCell, Array!TypeOK
  <2> QED BY <2>1, <2>2, SharedKept
<1>9. CASE Array!ScanEnd(a)
  <2>1. UNCHANGED Array!shared
    BY <1>9 DEF Array!ScanEnd
  <2>2. at[a] # "announce" /\ \A b \in Threads \ {a} : at'[b] = at[b]
    BY <1>9 DEF Array!ScanEnd, Array!TypeOK
  <2> QED BY <2>1, <2>2, SharedKept
<1>10. CASE Array!CellSync(a)
  <2>1. UNCHANGED Array!shared
    BY <1>10 DEF Array!CellSync
  <2>2. at[a] # "announce" /\ \A b \in Threads \ {a} : at'[b] = at[b]
    BY <1>10 DEF Array!CellSync, Array!TypeOK
  <2> QED BY <2>1, <2>2, SharedKept
<1>11. CASE Array!WaitAsync(a)
  <2>1. UNCHANGED Array!shared
    BY <1>11 DEF Array!WaitAsync
  <2>2. at[a] # "announce" /\ \A b \in Threads \ {a} : at'[b] = at[b]
    BY <1>11 DEF Array!WaitAsync, Array!TypeOK
  <2> QED BY <2>1, <2>2, SharedKept
<1>12. CASE Array!TimerFires(a)
  <2>1. UNCHANGED Array!shared
    BY <1>12 DEF Array!TimerFires, Array!Turn
  <2>2. at[a] # "announce" /\ \A b \in Threads \ {a} : at'[b] = at[b]
    BY <1>12 DEF Array!TimerFires, Array!Turn, Array!TypeOK
  <2> QED BY <2>1, <2>2, SharedKept
<1>13. CASE Array!Woken(a)
  <2>1. UNCHANGED Array!shared
    BY <1>13 DEF Array!Woken
  <2>2. at[a] # "announce" /\ \A b \in Threads \ {a} : at'[b] = at[b]
    BY <1>13 DEF Array!Woken, Array!TypeOK
  <2> QED BY <2>1, <2>2, SharedKept
<1>14. CASE Array!Die(a)
  BY <1>14 DEF Array!Die, Array!TypeOK, Growth, Array!Unannounced
<1>15. CASE Array!Sync(a)
  <2>1. UNCHANGED Array!shared
    BY <1>15 DEF Array!Sync
  <2>2. at[a] # "announce" /\ \A b \in Threads \ {a} : at'[b] = at[b]
    BY <1>15 DEF Array!Sync, Array!TypeOK
  <2> QED BY <2>1, <2>2, SharedKept
<1>16. CASE Array!Watch(a)
  <2>1. UNCHANGED Array!shared
    BY <1>16 DEF Array!Watch, Array!Turn
  <2>2. at[a] # "announce" /\ \A b \in Threads \ {a} : at'[b] = at[b]
    BY <1>16 DEF Array!Watch, Array!Turn, Array!TypeOK
  <2> QED BY <2>1, <2>2, SharedKept
<1>17. CASE Array!StopWatching(a)
  <2>1. UNCHANGED Array!shared
    BY <1>17 DEF Array!StopWatching
  <2>2. at[a] # "announce" /\ \A b \in Threads \ {a} : at'[b] = at[b]
    BY <1>17 DEF Array!StopWatching, Array!TypeOK
  <2> QED BY <2>1, <2>2, SharedKept
<1>18. ASSUME NEW c \in Array!Cells, Array!Observe(a, c) PROVE Growth
  <2>1. UNCHANGED Array!shared
    BY <1>18 DEF Array!Observe
  <2>2. at[a] # "announce" /\ \A b \in Threads \ {a} : at'[b] = at[b]
    BY <1>18 DEF Array!Observe, Array!TypeOK
  <2> QED BY <2>1, <2>2, SharedKept
<1>19. ASSUME NEW c \in Array!Cells, Array!Unobserve(a, c) PROVE Growth
  <2>1. UNCHANGED Array!shared
    BY <1>19 DEF Array!Unobserve
  <2>2. at[a] # "announce" /\ \A b \in Threads \ {a} : at'[b] = at[b]
    BY <1>19 DEF Array!Unobserve, Array!TypeOK
  <2> QED BY <2>1, <2>2, SharedKept
<1>20. ASSUME NEW c \in Array!Cells, Array!SyncIndex(a, c) PROVE Growth
  <2>1. UNCHANGED Array!shared
    BY <1>20 DEF Array!SyncIndex
  <2>2. at[a] # "announce" /\ \A b \in Threads \ {a} : at'[b] = at[b]
    BY <1>20 DEF Array!SyncIndex, Array!TypeOK
  <2> QED BY <2>1, <2>2, SharedKept
<1> QED BY <1>1, <1>2, <1>3, <1>4, <1>5, <1>6, <1>7, <1>8, <1>9, <1>10, <1>11, <1>12,
           <1>13, <1>14, <1>15, <1>16, <1>17, <1>18, <1>19, <1>20
        DEF Moves, Array!Step, Array!Task, Array!Use

(* Under such a step the wrapper of another thread keeps its conjuncts.      *)
LEMMA Bystander ==
    ASSUME Array!TypeOK, Array!TypeOK', Growth, NEW b \in Threads, Wrapper(b),
           UNCHANGED Mine(b)
    PROVE  Wrapper(b)'
<1>1. Bounded(b)'
  <2>1. /\ epoch'[b] = epoch[b] /\ loaded'[b] = loaded[b]
        /\ cursor'[b] = cursor[b] /\ scanned'[b] = scanned[b]
    BY DEF Mine
  <2>2. /\ epoch[b] \in Nat /\ loaded[b] \in Int /\ gen \in Nat /\ gen' \in Nat
        /\ \A c \in Array!Cells : /\ cursor[b][c] \in Nat /\ scanned[b][c] \in Nat
                           /\ ver[c] \in Nat /\ ver'[c] \in Nat
    BY DEF Array!TypeOK
  <2> QED BY <2>1, <2>2 DEF Growth, Wrapper, Bounded
<1>2. Paced(b)'
  BY DEF Wrapper, Paced, Mine
<1>3. FreshOrDue(b)'
  <2>1. /\ cells'[b] = cells[b] /\ cursor'[b] = cursor[b] /\ shown'[b] = shown[b]
        /\ at'[b] = at[b] /\ cell'[b] = cell[b] /\ fan'[b] = fan[b]
    BY DEF Mine
  <2>2. /\ cells[b] \subseteq Array!Cells
        /\ \A c \in Array!Cells : cursor[b][c] \in Nat /\ ver[c] \in Nat /\ ver'[c] \in Nat
    BY DEF Array!TypeOK
  <2>3. \A c \in Array!Cells : cursor[b][c] =< ver[c]
    BY DEF Wrapper, Bounded
  <2>4. ASSUME NEW c \in cells[b], cursor[b][c] = ver'[c]
        PROVE  ver'[c] = ver[c] /\ value'[c] = value[c]
    BY <2>2, <2>3, <2>4 DEF Growth
  <2> QED BY <2>1, <2>4 DEF Wrapper, FreshOrDue, Array!Shows, Due
<1>4. CellsFollow(b)'
  BY DEF Wrapper, CellsFollow, Recorded, Mine
<1>5. ScannedIsFresh(b)'
  BY DEF Array!TypeOK, Growth, Wrapper, Bounded, ScannedIsFresh, Quiet, Mine
<1>6. ReachedIsFresh(b)'
  BY DEF Array!TypeOK, Growth, Wrapper, Bounded, ReachedIsFresh, Recorded, Quiet, Mine
<1> QED BY <1>1, <1>2, <1>3, <1>4, <1>5, <1>6 DEF Wrapper

(* The thread that moves keeps them too, one conjunct after the other.       *)
LEMMA BoundedStep ==
    ASSUME Array!TypeOK, Array!TypeOK', Growth, NEW a \in Threads, Moves(a),
           Bounded(a)
    PROVE  Bounded(a)'
<1>1. ASSUME NEW c \in Array!Cells, NEW v \in Values, Array!Write(a, c, v)
      PROVE  Bounded(a)'
  BY <1>1 DEF Array!Write, Array!TypeOK, Growth, Bounded
<1>2. CASE Array!Announce(a)
  <2>1. /\ gen' = gen + 1 /\ ver' = ver
        /\ UNCHANGED <<epoch, loaded, cursor, scanned>>
    BY <1>2 DEF Array!Announce
  <2>2. gen \in Nat /\ epoch[a] \in Nat /\ loaded[a] \in Int
    BY DEF Array!TypeOK
  <2> QED BY <2>1, <2>2 DEF Bounded
<1>3. CASE Array!Notify(a)
  BY <1>3 DEF Array!Notify, Array!TypeOK, Growth, Bounded
<1>4. CASE Array!ObserverSync(a)
  BY <1>4 DEF Array!ObserverSync, Array!TypeOK, Growth, Bounded
<1>5. CASE Array!ObserverRead(a)
  BY <1>5 DEF Array!ObserverRead, Array!TypeOK, Growth, Bounded
<1>6. CASE Array!ObserversDone(a)
  BY <1>6 DEF Array!ObserversDone, Array!Continue, Array!TypeOK, Growth, Bounded
<1>7. CASE Array!LoadGeneration(a)
  BY <1>7 DEF Array!LoadGeneration, Array!Continue, Array!TypeOK, Growth, Bounded
<1>8. CASE Array!ScanCell(a)
  BY <1>8 DEF Array!ScanCell, Array!TypeOK, Growth, Bounded
<1>9. CASE Array!ScanEnd(a)
  BY <1>9 DEF Array!ScanEnd, Array!TypeOK, Growth, Bounded
<1>10. CASE Array!CellSync(a)
  BY <1>10 DEF Array!CellSync, Array!TypeOK, Growth, Bounded
<1>11. CASE Array!WaitAsync(a)
  BY <1>11 DEF Array!WaitAsync, Array!TypeOK, Growth, Bounded
<1>12. CASE Array!TimerFires(a)
  BY <1>12 DEF Array!TimerFires, Array!Turn, Array!TypeOK, Growth, Bounded
<1>13. CASE Array!Woken(a)
  BY <1>13 DEF Array!Woken, Array!TypeOK, Growth, Bounded
<1>14. CASE Array!Die(a)
  BY <1>14 DEF Array!Die, Array!TypeOK, Growth, Bounded
<1>15. CASE Array!Sync(a)
  BY <1>15 DEF Array!Sync, Array!TypeOK, Growth, Bounded
<1>16. CASE Array!Watch(a)
  BY <1>16 DEF Array!Watch, Array!Turn, Array!TypeOK, Growth, Bounded
<1>17. CASE Array!StopWatching(a)
  BY <1>17 DEF Array!StopWatching, Array!TypeOK, Growth, Bounded
<1>18. ASSUME NEW c \in Array!Cells, Array!Observe(a, c) PROVE Bounded(a)'
  BY <1>18 DEF Array!Observe, Array!TypeOK, Growth, Bounded
<1>19. ASSUME NEW c \in Array!Cells, Array!Unobserve(a, c) PROVE Bounded(a)'
  BY <1>19 DEF Array!Unobserve, Array!TypeOK, Growth, Bounded
<1>20. ASSUME NEW c \in Array!Cells, Array!SyncIndex(a, c) PROVE Bounded(a)'
  BY <1>20 DEF Array!SyncIndex, Array!TypeOK, Growth, Bounded
<1> QED BY <1>1, <1>2, <1>3, <1>4, <1>5, <1>6, <1>7, <1>8, <1>9, <1>10, <1>11, <1>12,
           <1>13, <1>14, <1>15, <1>16, <1>17, <1>18, <1>19, <1>20
        DEF Moves, Array!Step, Array!Task, Array!Use

LEMMA PacedStep ==
    ASSUME Array!TypeOK, Array!TypeOK', Growth, NEW a \in Threads, Moves(a),
           Paced(a)
    PROVE  Paced(a)'
<1>1. ASSUME NEW c \in Array!Cells, NEW v \in Values, Array!Write(a, c, v)
      PROVE  Paced(a)'
  BY <1>1 DEF Array!Write, Array!TypeOK, Growth, Paced
<1>2. CASE Array!Announce(a)
  BY <1>2 DEF Array!Announce, Array!TypeOK, Growth, Paced
<1>3. CASE Array!Notify(a)
  BY <1>3 DEF Array!Notify, Array!TypeOK, Growth, Paced
<1>4. CASE Array!ObserverSync(a)
  BY <1>4 DEF Array!ObserverSync, Array!TypeOK, Growth, Paced
<1>5. CASE Array!ObserverRead(a)
  BY <1>5 DEF Array!ObserverRead, Array!TypeOK, Growth, Paced
<1>6. CASE Array!ObserversDone(a)
  BY <1>6 DEF Array!ObserversDone, Array!Continue, Array!TypeOK, Growth, Paced
<1>7. CASE Array!LoadGeneration(a)
  BY <1>7 DEF Array!LoadGeneration, Array!Continue, Array!TypeOK, Growth, Paced
<1>8. CASE Array!ScanCell(a)
  BY <1>8 DEF Array!ScanCell, Array!TypeOK, Growth, Paced
<1>9. CASE Array!ScanEnd(a)
  BY <1>9 DEF Array!ScanEnd, Array!TypeOK, Growth, Paced
<1>10. CASE Array!CellSync(a)
  BY <1>10 DEF Array!CellSync, Array!TypeOK, Growth, Paced
<1>11. CASE Array!WaitAsync(a)
  BY <1>11 DEF Array!WaitAsync, Array!TypeOK, Growth, Paced
<1>12. CASE Array!TimerFires(a)
  BY <1>12 DEF Array!TimerFires, Array!Turn, Array!TypeOK, Growth, Paced
<1>13. CASE Array!Woken(a)
  BY <1>13 DEF Array!Woken, Array!TypeOK, Growth, Paced
<1>14. CASE Array!Die(a)
  BY <1>14 DEF Array!Die, Array!TypeOK, Growth, Paced
<1>15. CASE Array!Sync(a)
  BY <1>15 DEF Array!Sync, Array!TypeOK, Growth, Paced
<1>16. CASE Array!Watch(a)
  BY <1>16 DEF Array!Watch, Array!Turn, Array!TypeOK, Growth, Paced
<1>17. CASE Array!StopWatching(a)
  BY <1>17 DEF Array!StopWatching, Array!TypeOK, Growth, Paced
<1>18. ASSUME NEW c \in Array!Cells, Array!Observe(a, c) PROVE Paced(a)'
  BY <1>18 DEF Array!Observe, Array!TypeOK, Growth, Paced
<1>19. ASSUME NEW c \in Array!Cells, Array!Unobserve(a, c) PROVE Paced(a)'
  BY <1>19 DEF Array!Unobserve, Array!TypeOK, Growth, Paced
<1>20. ASSUME NEW c \in Array!Cells, Array!SyncIndex(a, c) PROVE Paced(a)'
  BY <1>20 DEF Array!SyncIndex, Array!TypeOK, Growth, Paced
<1> QED BY <1>1, <1>2, <1>3, <1>4, <1>5, <1>6, <1>7, <1>8, <1>9, <1>10, <1>11, <1>12,
           <1>13, <1>14, <1>15, <1>16, <1>17, <1>18, <1>19, <1>20
        DEF Moves, Array!Step, Array!Task, Array!Use

LEMMA FreshOrDueStep ==
    ASSUME Array!TypeOK, Array!TypeOK', Growth, NEW a \in Threads, Moves(a),
           Bounded(a), Paced(a), FreshOrDue(a)
    PROVE  FreshOrDue(a)'
<1>1. ASSUME NEW c \in Array!Cells, NEW v \in Values, Array!Write(a, c, v)
      PROVE  FreshOrDue(a)'
  BY <1>1
     DEF Array!Write, Array!TypeOK, Growth, Bounded, Paced, FreshOrDue, Array!Shows,
         Due
<1>2. CASE Array!Announce(a)
  BY <1>2
     DEF Array!Announce, Array!TypeOK, Growth, Bounded, Paced, FreshOrDue, Array!Shows,
         Due
<1>3. CASE Array!Notify(a)
  BY <1>3
     DEF Array!Notify, Array!TypeOK, Growth, Bounded, Paced, FreshOrDue, Array!Shows,
         Due
<1>4. CASE Array!ObserverSync(a)
  BY <1>4
     DEF Array!ObserverSync, Array!TypeOK, Growth, Bounded, Paced, FreshOrDue,
         Array!Shows, Due
<1>5. CASE Array!ObserverRead(a)
  BY <1>5
     DEF Array!ObserverRead, Array!TypeOK, Growth, Bounded, Paced, FreshOrDue,
         Array!Shows, Due
<1>6. CASE Array!ObserversDone(a)
  BY <1>6
     DEF Array!ObserversDone, Array!Continue, Array!TypeOK, Growth, Bounded, Paced,
         FreshOrDue, Array!Shows, Due
<1>7. CASE Array!LoadGeneration(a)
  BY <1>7
     DEF Array!LoadGeneration, Array!Continue, Array!TypeOK, Growth, Bounded, Paced,
         FreshOrDue, Array!Shows, Due
<1>8. CASE Array!ScanCell(a)
  BY <1>8
     DEF Array!ScanCell, Array!TypeOK, Growth, Bounded, Paced, FreshOrDue, Array!Shows,
         Due
<1>9. CASE Array!ScanEnd(a)
  BY <1>9
     DEF Array!ScanEnd, Array!TypeOK, Growth, Bounded, Paced, FreshOrDue, Array!Shows,
         Due
<1>10. CASE Array!CellSync(a)
  BY <1>10
     DEF Array!CellSync, Array!TypeOK, Growth, Bounded, Paced, FreshOrDue, Array!Shows,
         Due
<1>11. CASE Array!WaitAsync(a)
  BY <1>11
     DEF Array!WaitAsync, Array!TypeOK, Growth, Bounded, Paced, FreshOrDue,
         Array!Shows, Due
<1>12. CASE Array!TimerFires(a)
  BY <1>12
     DEF Array!TimerFires, Array!Turn, Array!TypeOK, Growth, Bounded, Paced,
         FreshOrDue, Array!Shows, Due
<1>13. CASE Array!Woken(a)
  BY <1>13
     DEF Array!Woken, Array!TypeOK, Growth, Bounded, Paced, FreshOrDue, Array!Shows,
         Due
<1>14. CASE Array!Die(a)
  BY <1>14
     DEF Array!Die, Array!TypeOK, Growth, Bounded, Paced, FreshOrDue, Array!Shows, Due
<1>15. CASE Array!Sync(a)
  BY <1>15
     DEF Array!Sync, Array!TypeOK, Growth, Bounded, Paced, FreshOrDue, Array!Shows, Due
<1>16. CASE Array!Watch(a)
  BY <1>16
     DEF Array!Watch, Array!Turn, Array!TypeOK, Growth, Bounded, Paced, FreshOrDue,
         Array!Shows, Due
<1>17. CASE Array!StopWatching(a)
  BY <1>17
     DEF Array!StopWatching, Array!TypeOK, Growth, Bounded, Paced, FreshOrDue,
         Array!Shows, Due
<1>18. ASSUME NEW c \in Array!Cells, Array!Observe(a, c) PROVE FreshOrDue(a)'
  BY <1>18
     DEF Array!Observe, Array!TypeOK, Growth, Bounded, Paced, FreshOrDue, Array!Shows,
         Due
<1>19. ASSUME NEW c \in Array!Cells, Array!Unobserve(a, c) PROVE FreshOrDue(a)'
  BY <1>19
     DEF Array!Unobserve, Array!TypeOK, Growth, Bounded, Paced, FreshOrDue,
         Array!Shows, Due
<1>20. ASSUME NEW c \in Array!Cells, Array!SyncIndex(a, c) PROVE FreshOrDue(a)'
  BY <1>20
     DEF Array!SyncIndex, Array!TypeOK, Growth, Bounded, Paced, FreshOrDue,
         Array!Shows, Due
<1> QED BY <1>1, <1>2, <1>3, <1>4, <1>5, <1>6, <1>7, <1>8, <1>9, <1>10, <1>11, <1>12,
           <1>13, <1>14, <1>15, <1>16, <1>17, <1>18, <1>19, <1>20
        DEF Moves, Array!Step, Array!Task, Array!Use

LEMMA CellsFollowStep ==
    ASSUME Array!TypeOK, Array!TypeOK', Growth, NEW a \in Threads, Moves(a),
           Bounded(a), Paced(a), CellsFollow(a)
    PROVE  CellsFollow(a)'
<1>1. ASSUME NEW c \in Array!Cells, NEW v \in Values, Array!Write(a, c, v)
      PROVE  CellsFollow(a)'
  BY <1>1 DEF Array!Write, Array!TypeOK, Growth, Bounded, Paced, CellsFollow, Recorded
<1>2. CASE Array!Announce(a)
  BY <1>2
     DEF Array!Announce, Array!TypeOK, Growth, Bounded, Paced, CellsFollow, Recorded
<1>3. CASE Array!Notify(a)
  BY <1>3 DEF Array!Notify, Array!TypeOK, Growth, Bounded, Paced, CellsFollow, Recorded
<1>4. CASE Array!ObserverSync(a)
  BY <1>4
     DEF Array!ObserverSync, Array!TypeOK, Growth, Bounded, Paced, CellsFollow,
         Recorded
<1>5. CASE Array!ObserverRead(a)
  BY <1>5
     DEF Array!ObserverRead, Array!TypeOK, Growth, Bounded, Paced, CellsFollow,
         Recorded
<1>6. CASE Array!ObserversDone(a)
  BY <1>6
     DEF Array!ObserversDone, Array!Continue, Array!TypeOK, Growth, Bounded, Paced,
         CellsFollow, Recorded
<1>7. CASE Array!LoadGeneration(a)
  BY <1>7
     DEF Array!LoadGeneration, Array!Continue, Array!TypeOK, Growth, Bounded, Paced,
         CellsFollow, Recorded
<1>8. CASE Array!ScanCell(a)
  BY <1>8
     DEF Array!ScanCell, Array!TypeOK, Growth, Bounded, Paced, CellsFollow, Recorded
<1>9. CASE Array!ScanEnd(a)
  BY <1>9 DEF Array!ScanEnd, Array!TypeOK, Growth, Bounded, Paced, CellsFollow, Recorded
<1>10. CASE Array!CellSync(a)
  BY <1>10
     DEF Array!CellSync, Array!TypeOK, Growth, Bounded, Paced, CellsFollow, Recorded
<1>11. CASE Array!WaitAsync(a)
  BY <1>11
     DEF Array!WaitAsync, Array!TypeOK, Growth, Bounded, Paced, CellsFollow, Recorded
<1>12. CASE Array!TimerFires(a)
  BY <1>12
     DEF Array!TimerFires, Array!Turn, Array!TypeOK, Growth, Bounded, Paced,
         CellsFollow, Recorded
<1>13. CASE Array!Woken(a)
  BY <1>13 DEF Array!Woken, Array!TypeOK, Growth, Bounded, Paced, CellsFollow, Recorded
<1>14. CASE Array!Die(a)
  BY <1>14 DEF Array!Die, Array!TypeOK, Growth, Bounded, Paced, CellsFollow, Recorded
<1>15. CASE Array!Sync(a)
  BY <1>15 DEF Array!Sync, Array!TypeOK, Growth, Bounded, Paced, CellsFollow, Recorded
<1>16. CASE Array!Watch(a)
  BY <1>16
     DEF Array!Watch, Array!Turn, Array!TypeOK, Growth, Bounded, Paced, CellsFollow,
         Recorded
<1>17. CASE Array!StopWatching(a)
  BY <1>17
     DEF Array!StopWatching, Array!TypeOK, Growth, Bounded, Paced, CellsFollow,
         Recorded
<1>18. ASSUME NEW c \in Array!Cells, Array!Observe(a, c) PROVE CellsFollow(a)'
  BY <1>18
     DEF Array!Observe, Array!TypeOK, Growth, Bounded, Paced, CellsFollow, Recorded
<1>19. ASSUME NEW c \in Array!Cells, Array!Unobserve(a, c) PROVE CellsFollow(a)'
  BY <1>19
     DEF Array!Unobserve, Array!TypeOK, Growth, Bounded, Paced, CellsFollow, Recorded
<1>20. ASSUME NEW c \in Array!Cells, Array!SyncIndex(a, c) PROVE CellsFollow(a)'
  BY <1>20
     DEF Array!SyncIndex, Array!TypeOK, Growth, Bounded, Paced, CellsFollow, Recorded
<1> QED BY <1>1, <1>2, <1>3, <1>4, <1>5, <1>6, <1>7, <1>8, <1>9, <1>10, <1>11, <1>12,
           <1>13, <1>14, <1>15, <1>16, <1>17, <1>18, <1>19, <1>20
        DEF Moves, Array!Step, Array!Task, Array!Use

LEMMA ScannedIsFreshStep ==
    ASSUME Array!TypeOK, Array!TypeOK', Growth, NEW a \in Threads, Moves(a),
           Bounded(a), Paced(a), ScannedIsFresh(a), ReachedIsFresh(a)
    PROVE  ScannedIsFresh(a)'
<1>1. ASSUME NEW c \in Array!Cells, NEW v \in Values, Array!Write(a, c, v)
      PROVE  ScannedIsFresh(a)'
  BY <1>1
     DEF Array!Write, Array!TypeOK, Growth, Bounded, Paced, ScannedIsFresh,
         ReachedIsFresh, Quiet, Recorded
<1>2. CASE Array!Announce(a)
  BY <1>2
     DEF Array!Announce, Array!TypeOK, Growth, Bounded, Paced, ScannedIsFresh,
         ReachedIsFresh, Quiet, Recorded
<1>3. CASE Array!Notify(a)
  BY <1>3
     DEF Array!Notify, Array!TypeOK, Growth, Bounded, Paced, ScannedIsFresh,
         ReachedIsFresh, Quiet, Recorded
<1>4. CASE Array!ObserverSync(a)
  BY <1>4
     DEF Array!ObserverSync, Array!TypeOK, Growth, Bounded, Paced, ScannedIsFresh,
         ReachedIsFresh, Quiet, Recorded
<1>5. CASE Array!ObserverRead(a)
  BY <1>5
     DEF Array!ObserverRead, Array!TypeOK, Growth, Bounded, Paced, ScannedIsFresh,
         ReachedIsFresh, Quiet, Recorded
<1>6. CASE Array!ObserversDone(a)
  BY <1>6
     DEF Array!ObserversDone, Array!Continue, Array!TypeOK, Growth, Bounded, Paced,
         ScannedIsFresh, ReachedIsFresh, Quiet, Recorded
<1>7. CASE Array!LoadGeneration(a)
  BY <1>7
     DEF Array!LoadGeneration, Array!Continue, Array!TypeOK, Growth, Bounded, Paced,
         ScannedIsFresh, ReachedIsFresh, Quiet, Recorded
<1>8. CASE Array!ScanCell(a)
  BY <1>8
     DEF Array!ScanCell, Array!TypeOK, Growth, Bounded, Paced, ScannedIsFresh,
         ReachedIsFresh, Quiet, Recorded
<1>9. CASE Array!ScanEnd(a)
  BY <1>9
     DEF Array!ScanEnd, Array!TypeOK, Growth, Bounded, Paced, ScannedIsFresh,
         ReachedIsFresh, Quiet, Recorded
<1>10. CASE Array!CellSync(a)
  BY <1>10
     DEF Array!CellSync, Array!TypeOK, Growth, Bounded, Paced, ScannedIsFresh,
         ReachedIsFresh, Quiet, Recorded
<1>11. CASE Array!WaitAsync(a)
  BY <1>11
     DEF Array!WaitAsync, Array!TypeOK, Growth, Bounded, Paced, ScannedIsFresh,
         ReachedIsFresh, Quiet, Recorded
<1>12. CASE Array!TimerFires(a)
  BY <1>12
     DEF Array!TimerFires, Array!Turn, Array!TypeOK, Growth, Bounded, Paced,
         ScannedIsFresh, ReachedIsFresh, Quiet, Recorded
<1>13. CASE Array!Woken(a)
  BY <1>13
     DEF Array!Woken, Array!TypeOK, Growth, Bounded, Paced, ScannedIsFresh,
         ReachedIsFresh, Quiet, Recorded
<1>14. CASE Array!Die(a)
  BY <1>14
     DEF Array!Die, Array!TypeOK, Growth, Bounded, Paced, ScannedIsFresh,
         ReachedIsFresh, Quiet, Recorded
<1>15. CASE Array!Sync(a)
  BY <1>15
     DEF Array!Sync, Array!TypeOK, Growth, Bounded, Paced, ScannedIsFresh,
         ReachedIsFresh, Quiet, Recorded
<1>16. CASE Array!Watch(a)
  BY <1>16
     DEF Array!Watch, Array!Turn, Array!TypeOK, Growth, Bounded, Paced, ScannedIsFresh,
         ReachedIsFresh, Quiet, Recorded
<1>17. CASE Array!StopWatching(a)
  BY <1>17
     DEF Array!StopWatching, Array!TypeOK, Growth, Bounded, Paced, ScannedIsFresh,
         ReachedIsFresh, Quiet, Recorded
<1>18. ASSUME NEW c \in Array!Cells, Array!Observe(a, c) PROVE ScannedIsFresh(a)'
  BY <1>18
     DEF Array!Observe, Array!TypeOK, Growth, Bounded, Paced, ScannedIsFresh,
         ReachedIsFresh, Quiet, Recorded
<1>19. ASSUME NEW c \in Array!Cells, Array!Unobserve(a, c) PROVE ScannedIsFresh(a)'
  BY <1>19
     DEF Array!Unobserve, Array!TypeOK, Growth, Bounded, Paced, ScannedIsFresh,
         ReachedIsFresh, Quiet, Recorded
<1>20. ASSUME NEW c \in Array!Cells, Array!SyncIndex(a, c) PROVE ScannedIsFresh(a)'
  BY <1>20
     DEF Array!SyncIndex, Array!TypeOK, Growth, Bounded, Paced, ScannedIsFresh,
         ReachedIsFresh, Quiet, Recorded
<1> QED BY <1>1, <1>2, <1>3, <1>4, <1>5, <1>6, <1>7, <1>8, <1>9, <1>10, <1>11, <1>12,
           <1>13, <1>14, <1>15, <1>16, <1>17, <1>18, <1>19, <1>20
        DEF Moves, Array!Step, Array!Task, Array!Use

LEMMA ReachedIsFreshStep ==
    ASSUME Array!TypeOK, Array!TypeOK', Growth, NEW a \in Threads, Moves(a),
           Bounded(a), Paced(a), CellsFollow(a), ReachedIsFresh(a)
    PROVE  ReachedIsFresh(a)'
<1>1. ASSUME NEW c \in Array!Cells, NEW v \in Values, Array!Write(a, c, v)
      PROVE  ReachedIsFresh(a)'
  BY <1>1
     DEF Array!Write, Array!TypeOK, Growth, Bounded, Paced, CellsFollow,
         ReachedIsFresh, Quiet, Recorded
<1>2. CASE Array!Announce(a)
  BY <1>2
     DEF Array!Announce, Array!TypeOK, Growth, Bounded, Paced, CellsFollow,
         ReachedIsFresh, Quiet, Recorded
<1>3. CASE Array!Notify(a)
  BY <1>3
     DEF Array!Notify, Array!TypeOK, Growth, Bounded, Paced, CellsFollow,
         ReachedIsFresh, Quiet, Recorded
<1>4. CASE Array!ObserverSync(a)
  BY <1>4
     DEF Array!ObserverSync, Array!TypeOK, Growth, Bounded, Paced, CellsFollow,
         ReachedIsFresh, Quiet, Recorded
<1>5. CASE Array!ObserverRead(a)
  BY <1>5
     DEF Array!ObserverRead, Array!TypeOK, Growth, Bounded, Paced, CellsFollow,
         ReachedIsFresh, Quiet, Recorded
<1>6. CASE Array!ObserversDone(a)
  BY <1>6
     DEF Array!ObserversDone, Array!Continue, Array!TypeOK, Growth, Bounded, Paced,
         CellsFollow, ReachedIsFresh, Quiet, Recorded
<1>7. CASE Array!LoadGeneration(a)
  BY <1>7
     DEF Array!LoadGeneration, Array!Continue, Array!TypeOK, Growth, Bounded, Paced,
         CellsFollow, ReachedIsFresh, Quiet, Recorded
<1>8. CASE Array!ScanCell(a)
  BY <1>8
     DEF Array!ScanCell, Array!TypeOK, Growth, Bounded, Paced, CellsFollow,
         ReachedIsFresh, Quiet, Recorded
<1>9. CASE Array!ScanEnd(a)
  BY <1>9
     DEF Array!ScanEnd, Array!TypeOK, Growth, Bounded, Paced, CellsFollow,
         ReachedIsFresh, Quiet, Recorded
<1>10. CASE Array!CellSync(a)
  BY <1>10
     DEF Array!CellSync, Array!TypeOK, Growth, Bounded, Paced, CellsFollow,
         ReachedIsFresh, Quiet, Recorded
<1>11. CASE Array!WaitAsync(a)
  BY <1>11
     DEF Array!WaitAsync, Array!TypeOK, Growth, Bounded, Paced, CellsFollow,
         ReachedIsFresh, Quiet, Recorded
<1>12. CASE Array!TimerFires(a)
  BY <1>12
     DEF Array!TimerFires, Array!Turn, Array!TypeOK, Growth, Bounded, Paced,
         CellsFollow, ReachedIsFresh, Quiet, Recorded
<1>13. CASE Array!Woken(a)
  BY <1>13
     DEF Array!Woken, Array!TypeOK, Growth, Bounded, Paced, CellsFollow,
         ReachedIsFresh, Quiet, Recorded
<1>14. CASE Array!Die(a)
  BY <1>14
     DEF Array!Die, Array!TypeOK, Growth, Bounded, Paced, CellsFollow, ReachedIsFresh,
         Quiet, Recorded
<1>15. CASE Array!Sync(a)
  BY <1>15
     DEF Array!Sync, Array!TypeOK, Growth, Bounded, Paced, CellsFollow, ReachedIsFresh,
         Quiet, Recorded
<1>16. CASE Array!Watch(a)
  BY <1>16
     DEF Array!Watch, Array!Turn, Array!TypeOK, Growth, Bounded, Paced, CellsFollow,
         ReachedIsFresh, Quiet, Recorded
<1>17. CASE Array!StopWatching(a)
  BY <1>17
     DEF Array!StopWatching, Array!TypeOK, Growth, Bounded, Paced, CellsFollow,
         ReachedIsFresh, Quiet, Recorded
<1>18. ASSUME NEW c \in Array!Cells, Array!Observe(a, c) PROVE ReachedIsFresh(a)'
  BY <1>18
     DEF Array!Observe, Array!TypeOK, Growth, Bounded, Paced, CellsFollow,
         ReachedIsFresh, Quiet, Recorded
<1>19. ASSUME NEW c \in Array!Cells, Array!Unobserve(a, c) PROVE ReachedIsFresh(a)'
  BY <1>19
     DEF Array!Unobserve, Array!TypeOK, Growth, Bounded, Paced, CellsFollow,
         ReachedIsFresh, Quiet, Recorded
<1>20. ASSUME NEW c \in Array!Cells, Array!SyncIndex(a, c) PROVE ReachedIsFresh(a)'
  BY <1>20
     DEF Array!SyncIndex, Array!TypeOK, Growth, Bounded, Paced, CellsFollow,
         ReachedIsFresh, Quiet, Recorded
<1> QED BY <1>1, <1>2, <1>3, <1>4, <1>5, <1>6, <1>7, <1>8, <1>9, <1>10, <1>11, <1>12,
           <1>13, <1>14, <1>15, <1>16, <1>17, <1>18, <1>19, <1>20
        DEF Moves, Array!Step, Array!Task, Array!Use

(* Every step keeps the invariant.                                           *)
LEMMA ArrayStep ==
    ASSUME Sized, ArrayInv, [Array!Next]_(Array!vars)
    PROVE  ArrayInv'
<1>1. Array!TypeOK /\ Array!TypeOK' /\ \A a \in Threads : Wrapper(a)
  BY ArrayTypeStep DEF ArrayInv
<1>2. ASSUME NEW a \in Threads, Moves(a) PROVE \A b \in Threads : Wrapper(b)'
  <2>1. Growth
    BY <1>1, <1>2, Grows
  <2>2. Wrapper(a)'
    BY <1>1, <1>2, <2>1, BoundedStep, PacedStep, FreshOrDueStep, CellsFollowStep,
       ScannedIsFreshStep, ReachedIsFreshStep DEF Wrapper
  <2>3. ASSUME NEW b \in Threads \ {a} PROVE Wrapper(b)'
    BY <1>1, <1>2, <2>1, OthersStay, Bystander
  <2> QED BY <2>2, <2>3
<1>3. CASE UNCHANGED Array!vars
  <2> SUFFICES ASSUME NEW a \in Threads PROVE Wrapper(a)'
    BY <1>1 DEF ArrayInv
  <2>1. Growth /\ UNCHANGED Mine(a)
    BY <1>1, <1>3 DEF Array!vars, Mine, Growth, Array!TypeOK, Array!Unannounced
  <2> QED BY <1>1, <2>1, Bystander
<1> QED BY <1>1, <1>2, <1>3, SomeoneMoves DEF ArrayInv

(* The invariant holds initially.                                            *)
LEMMA ArrayInit ==
    ASSUME Sized, Array!Init
    PROVE  ArrayInv
<1>1. Array!TypeOK
  BY DEF Sized, Array!Init, Array!TypeOK, Array!Cells, Array!States
<1>2. ASSUME NEW a \in Threads PROVE Wrapper(a)
  BY DEF Sized, Array!Init, Array!Cells, Wrapper, Bounded, Paced, FreshOrDue,
         CellsFollow, ScannedIsFresh, ReachedIsFresh, Quiet
<1> QED BY <1>1, <1>2 DEF ArrayInv

(* A wrapper that would answer "nothing new" for a cell has run the cell's   *)
(* observer on the present value, for every number of wrappers, cells and writes. *)
THEOREM FreshMeansShownHolds == ASSUME Sized PROVE Array!Spec => []FreshMeansShown
<1>1. ArrayInv => FreshMeansShown
  BY DEF ArrayInv, Wrapper, Paced, FreshOrDue, Due, FreshMeansShown, Shows, Array!Shows
<1> QED BY ArrayInit, ArrayStep, <1>1, PTL DEF Array!Spec

(* The shortcut of sync() is right: a generation that has not moved since the *)
(* last scan, with no writer between its stores, means every observer shows the *)
(* present value.                                                            *)
THEOREM ScannedMeansShownHolds == ASSUME Sized PROVE Array!Spec => []ScannedMeansShown
<1>1. ArrayInv => ScannedMeansShown
  BY DEF ArrayInv, Wrapper, Paced, FreshOrDue, Due, ScannedIsFresh, Quiet, Unannounced,
         Array!Unannounced, ScannedMeansShown, Shows, Array!Shows
<1> QED BY ArrayInit, ArrayStep, <1>1, PTL DEF Array!Spec
=============================================================================
