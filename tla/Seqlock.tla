------------------------------ MODULE Seqlock ------------------------------
(***************************************************************************)
(* The protocol by which threads share one int32 cell of a                 *)
(* SharedArrayBuffer (store-shared/src/shared-state.ts): a 64-bit word     *)
(* next to the value is its version and its write lock at once.  Odd means *)
(* a writer is inside; every completed write advances it by two.           *)
(*                                                                         *)
(* One action is one Atomics access, so every interleaving of threads at   *)
(* the granularity of the memory is explored.  A thread may be terminated  *)
(* between any two accesses, also while it holds the lock.                 *)
(***************************************************************************)
EXTENDS Integers, FiniteSets

CONSTANTS
  Agents,   \* the threads with a view of the buffer
  Values,   \* the int32 values written
  Fn,       \* the callback of update(), a function on Values
  Idle,     \* no call in progress
  NoValue,  \* a local variable not yet assigned
  MaxSeq,   \* bound: no writing call starts once the sequence reached it
  MaxDead   \* bound on the threads that are terminated

ASSUME FnAssumption == Fn \in [Values -> Values]
ASSUME NoValueAssumption == NoValue \notin Values
ASSUME IdleAssumption ==
  Idle \notin [kind : {"read", "set", "update"}, next : Values \cup {NoValue}]
ASSUME BoundAssumption == MaxSeq \in Nat /\ MaxDead \in Nat

VARIABLES
  seq,    \* the sequence word in shared memory
  mem,    \* the value slot in shared memory
  pc,     \* the next access of each thread
  call,   \* the call each thread is inside, or Idle
  base,   \* its local `before` (reading) or `seq` (locking)
  seen,   \* its local `value` (reading) or `current` (writing)
  want,   \* its argument `next` of writeLocked
  expect, \* its argument `expected`, NoValue when undefined
  got,    \* what its last call returned, until the next one
  dead    \* the threads that were terminated

locals == <<base, seen, want, expect>>
vars == <<seq, mem, pc, call, locals, got, dead>>

\* Only a set carries the value to install.
Request(kind, v) == [kind |-> kind, next |-> v]

Requests ==
  {Request(k, NoValue) : k \in {"read", "update"}} \cup {Request("set", v) : v \in Values}

Locations == {"idle", "load", "value", "check", "lock", "cas",
              "test", "store", "publish", "release", "done"}

Result(kind, v, n) == [kind |-> kind, value |-> v, version |-> n]

Results ==
  [kind : {"none", "read", "wrote", "same", "contention"},
   value : Values \cup {NoValue}, version : Nat]

Even(n) == n % 2 = 0

At(a, l) == pc[a] = l /\ a \notin dead

Goto(a, l) == pc' = [pc EXCEPT ![a] = l]

Enter(a, request, l) ==
  /\ Goto(a, l)
  /\ call' = [call EXCEPT ![a] = request]
  /\ got' = [got EXCEPT ![a] = Result("none", NoValue, 0)]

\* The call returns or throws, and its local variables are gone.
Leave(a) ==
  /\ Goto(a, "idle")
  /\ call' = [call EXCEPT ![a] = Idle]
  /\ base' = [base EXCEPT ![a] = 0]
  /\ seen' = [seen EXCEPT ![a] = NoValue]
  /\ want' = [want EXCEPT ![a] = NoValue]
  /\ expect' = [expect EXCEPT ![a] = NoValue]

Return(a, result) ==
  /\ Leave(a)
  /\ got' = [got EXCEPT ![a] = result]

Init ==
  /\ seq = 0
  /\ mem \in Values
  /\ pc = [a \in Agents |-> "idle"]
  /\ call = [a \in Agents |-> Idle]
  /\ base = [a \in Agents |-> 0]
  /\ seen = [a \in Agents |-> NoValue]
  /\ want = [a \in Agents |-> NoValue]
  /\ expect = [a \in Agents |-> NoValue]
  /\ got = [a \in Agents |-> Result("none", NoValue, 0)]
  /\ dead = {}

-----------------------------------------------------------------------------
(* Calls.  Reading is peek(), sync(), the value getter and get(): each is   *)
(* one consistent read.  A set is writeLocked without an expected value.    *)

StartRead(a) ==
  /\ At(a, "idle")
  /\ Enter(a, Request("read", NoValue), "load")
  /\ UNCHANGED <<seq, mem, locals, dead>>

StartSet(a, v) ==
  /\ At(a, "idle")
  /\ seq < MaxSeq
  /\ Enter(a, Request("set", v), "lock")
  /\ want' = [want EXCEPT ![a] = v]
  /\ UNCHANGED <<seq, mem, base, seen, expect, dead>>

StartUpdate(a) ==
  /\ At(a, "idle")
  /\ seq < MaxSeq
  /\ Enter(a, Request("update", NoValue), "load")
  /\ UNCHANGED <<seq, mem, locals, dead>>

-----------------------------------------------------------------------------
(* readConsistent: load the sequence, the value and the sequence again.     *)

LoadBefore(a) ==
  /\ At(a, "load")
  /\ Even(seq)
  /\ base' = [base EXCEPT ![a] = seq]
  /\ Goto(a, "value")
  /\ UNCHANGED <<seq, mem, call, seen, want, expect, got, dead>>

LoadValue(a) ==
  /\ At(a, "value")
  /\ seen' = [seen EXCEPT ![a] = mem]
  /\ Goto(a, "check")
  /\ UNCHANGED <<seq, mem, call, base, want, expect, got, dead>>

\* A consistent read ends the call, or hands its value to the update callback.
ReadStable(a) ==
  /\ At(a, "check")
  /\ seq = base[a]
  /\ \/ /\ call[a].kind = "read"
        /\ Return(a, Result("read", seen[a], base[a]))
     \/ /\ call[a].kind = "update" /\ Fn[seen[a]] = seen[a]
        /\ Return(a, Result("same", seen[a], base[a]))
     \/ /\ call[a].kind = "update" /\ Fn[seen[a]] # seen[a]
        /\ want' = [want EXCEPT ![a] = Fn[seen[a]]]
        /\ expect' = [expect EXCEPT ![a] = seen[a]]
        /\ Goto(a, "lock")
        /\ UNCHANGED <<call, base, seen, got>>
  /\ UNCHANGED <<seq, mem, dead>>

ReadTorn(a) ==
  /\ At(a, "check")
  /\ seq # base[a]
  /\ Goto(a, "load")
  /\ UNCHANGED <<seq, mem, call, locals, got, dead>>

-----------------------------------------------------------------------------
(* acquire: make an even sequence odd by compare-and-exchange.              *)

LoadForLock(a) ==
  /\ At(a, "lock")
  /\ Even(seq)
  /\ base' = [base EXCEPT ![a] = seq]
  /\ Goto(a, "cas")
  /\ UNCHANGED <<seq, mem, call, seen, want, expect, got, dead>>

\* Faulty variant: the word is stored without the comparison.
LockBlindly(a) ==
  /\ At(a, "cas")
  /\ seq' = base[a] + 1
  /\ Goto(a, "test")
  /\ UNCHANGED <<mem, call, locals, got, dead>>

CompareExchange(a) ==
  /\ At(a, "cas")
  /\ \/ /\ seq = base[a]
        /\ seq' = base[a] + 1
        /\ Goto(a, "test")
     \/ /\ seq # base[a]
        /\ Goto(a, "lock")
        /\ UNCHANGED seq
  /\ UNCHANGED <<mem, call, locals, got, dead>>

\* Faulty variant: only acquiring is bounded, a read spins for ever.
ReadSpinsForEver(a) ==
  /\ At(a, "lock")
  /\ Return(a, Result("contention", NoValue, 0))
  /\ UNCHANGED <<seq, mem, dead>>

\* readConsistent and acquire throw CONTENTION_LIMIT once a second of spinning
\* has not brought them through.
Contention(a) ==
  /\ At(a, "load") \/ At(a, "lock")
  /\ Return(a, Result("contention", NoValue, 0))
  /\ UNCHANGED <<seq, mem, dead>>

-----------------------------------------------------------------------------
(* writeLocked, holding the lock.                                           *)

\* Faulty variant: the expected value is not compared under the lock.
TestIgnoresExpected(a) ==
  /\ At(a, "test")
  /\ seen' = [seen EXCEPT ![a] = mem]
  /\ Goto(a, IF mem = want[a] THEN "release" ELSE "store")
  /\ UNCHANGED <<seq, mem, call, base, want, expect, got, dead>>

\* Nothing to write: the present value is not the expected one, or is already
\* the wanted one.  Only a change reaches the store.
Test(a) ==
  /\ At(a, "test")
  /\ seen' = [seen EXCEPT ![a] = mem]
  /\ IF \/ expect[a] # NoValue /\ mem # expect[a]
        \/ mem = want[a]
       THEN Goto(a, "release")
       ELSE Goto(a, "store")
  /\ UNCHANGED <<seq, mem, call, base, want, expect, got, dead>>

Store(a) ==
  /\ At(a, "store")
  /\ mem' = want[a]
  /\ Goto(a, "publish")
  /\ UNCHANGED <<seq, call, locals, got, dead>>

\* The committed version is what the call returns.
Publish(a) ==
  /\ At(a, "publish")
  /\ seq' = base[a] + 2
  /\ got' = [got EXCEPT ![a] = Result("wrote", want[a], base[a] + 2)]
  /\ Goto(a, "done")
  /\ UNCHANGED <<mem, call, locals, dead>>

\* The finally block puts the lock back as it was, if it is still held.
PutBack(a) == seq' = IF seq = base[a] + 1 THEN base[a] ELSE seq

\* Nothing was written.  A set is over; an update reads again.
Release(a) ==
  /\ At(a, "release")
  /\ PutBack(a)
  /\ IF call[a].kind = "set"
       THEN Return(a, Result("same", seen[a], base[a]))
       ELSE Goto(a, "load") /\ UNCHANGED <<call, locals, got>>
  /\ UNCHANGED <<mem, dead>>

ReleaseAfterCommit(a) ==
  /\ At(a, "done")
  /\ PutBack(a)
  /\ Leave(a)
  /\ UNCHANGED <<mem, got, dead>>

\* The thread is terminated between two of its accesses.
Die(a) ==
  /\ a \notin dead
  /\ Cardinality(dead) < MaxDead
  /\ dead' = dead \cup {a}
  /\ UNCHANGED <<seq, mem, pc, call, locals, got>>

-----------------------------------------------------------------------------

Step(a) ==
  \/ LoadBefore(a)
  \/ LoadValue(a)
  \/ ReadStable(a)
  \/ ReadTorn(a)
  \/ LoadForLock(a)
  \/ CompareExchange(a)
  \/ Test(a)
  \/ Store(a)
  \/ Publish(a)
  \/ Release(a)
  \/ ReleaseAfterCommit(a)

Start(a) == StartRead(a) \/ StartUpdate(a) \/ \E v \in Values : StartSet(a, v)

Next == \E a \in Agents : Start(a) \/ Step(a) \/ Contention(a) \/ Die(a)

SafeSpec == Init /\ [][Next]_vars

\* A running thread makes its next access, and the clock that bounds a spin
\* advances: a call that keeps coming back to the spin throws in the end.
Fairness == \A a \in Agents : WF_vars(Step(a)) /\ SF_vars(Contention(a))

Spec == SafeSpec /\ Fairness

-----------------------------------------------------------------------------
(* Properties *)

\* The threads inside the section the odd sequence protects.
Holders == {a \in Agents : pc[a] \in {"test", "store", "publish", "release"}}

\* A writer has stored its value and not yet published the sequence.
Unpublished == {a \in Agents : pc[a] = "publish"}

\* The sequence of the last completed write.
Base == IF Even(seq) THEN seq ELSE seq - 1

\* The value of the last completed write: what the register of VersionedCell
\* holds while a writer is between its two stores.
Value == IF Unpublished = {} THEN mem ELSE seen[CHOOSE a \in Unpublished : TRUE]

TypeOK ==
  /\ seq \in Nat
  /\ mem \in Values
  /\ pc \in [Agents -> Locations]
  /\ call \in [Agents -> Requests \cup {Idle}]
  /\ base \in [Agents -> Nat]
  /\ seen \in [Agents -> Values \cup {NoValue}]
  /\ want \in [Agents -> Values \cup {NoValue}]
  /\ expect \in [Agents -> Values \cup {NoValue}]
  /\ got \in [Agents -> Results]
  /\ dead \subseteq Agents

\* Writers exclude each other, and the word is odd exactly while one of them,
\* alive or terminated, is between acquiring and releasing: a lock is never
\* taken twice, never dropped by somebody else, never left behind by a call
\* that returned (acquire, writeLocked and its finally block).
Exclusion ==
  /\ \A a, b \in Holders : a = b
  /\ Even(seq) <=> Holders = {}

\* Every read, set and update takes effect at one instant between its call and
\* its return, on the value and the version of that instant: no torn read, no
\* lost update, no new value under an old version (the guarantees the header
\* comment of shared-state.ts lists), whatever is interleaved and whoever dies.
Register ==
  INSTANCE VersionedCell WITH
    value <- Value,
    version <- Base,
    call <- [a \in Agents |-> IF pc[a] = "done" THEN Idle ELSE call[a]]

Implements == Register!Spec

\* A call of a thread that is not terminated returns or throws, also when
\* another thread died holding the lock (the bound of the spin loops).
CallsEnd == \A a \in Agents : (pc[a] # "idle") ~> (pc[a] = "idle" \/ a \in dead)
=============================================================================
