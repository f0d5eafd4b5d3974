------------------------ MODULE ProvisionalScopeProofs ------------------------
(***************************************************************************)
(* "Never both, never neither": whatever the parent refuses, the listeners *)
(* do and the callbacks fail at, and for any number of registrations, each *)
(* one ends with the parent or is released -- provided no getter read by   *)
(* own() settles the scope.  Under the same proviso a commit says the      *)
(* truth of what the parent has, and the scope is an owner as              *)
(* ReleaseLedger states it.                                                *)
(***************************************************************************)
EXTENDS ProvisionalScope, TLAPS

\* Every registration is in exactly one place, and an offered one is remaining.
PlaceInv ==
    /\ made \in Nat
    /\ entries \cup remaining \cup ({current} \ {None}) \cup parentOwns \cup released = 1 .. made
    /\ entries \cap (remaining \cup parentOwns \cup released) = {}
    /\ remaining \cap (parentOwns \cup released) = {} /\ parentOwns \cap released = {}
    /\ current \notin entries \cup remaining \cup parentOwns \cup released
    /\ offering # None => offering \in remaining

\* A settled scope has handed its entries to the operation, and an operation
\* that is over has dealt with all of them.
PhaseInv ==
    /\ state \in {"pending", "committed", "rolledback"}
    /\ state # "pending" => entries = {} /\ admitting = 0
    /\ state = "pending" => /\ op = "none" /\ remaining = {}
                            /\ current = None /\ offering = None
    /\ offering # None => state = "committed" /\ op = "settled"
    /\ current # None => state = "rolledback" /\ op = "settled"
    /\ op = "done" => remaining = {}
    /\ op # "none" => state # "pending"
    /\ admitting \in Nat

IInv == PlaceInv /\ PhaseInv

LEMMA InitInv == Init => IInv
  BY DEF Init, IInv, PlaceInv, PhaseInv, None

LEMMA OwnReturnsInv == ASSUME IInv, OwnReturns PROVE IInv'
<1>1. /\ admitting > 0 /\ made' = made + 1 /\ admitting' = admitting - 1
      /\ entries' = entries \cup {made + 1}
      /\ UNCHANGED <<state, op, remaining, offering, current, released, parentOwns>>
  BY DEF OwnReturns, Push, release, parent
<1>2. 1 .. made' = 1 .. made \cup {made + 1} /\ made + 1 \notin 1 .. made /\ made' \in Nat
      /\ made + 1 # None
  BY <1>1 DEF IInv, PlaceInv, None
<1>3. state = "pending"
  BY <1>1 DEF IInv, PhaseInv
<1>4. current = None /\ remaining = {} /\ offering = None
  BY <1>3 DEF IInv, PhaseInv
<1>5. PlaceInv'
  BY <1>1, <1>2, <1>4 DEF IInv, PlaceInv
<1>6. PhaseInv'
  BY <1>1, <1>3 DEF IInv, PhaseInv
<1> QED BY <1>5, <1>6 DEF IInv

LEMMA SettleInv ==
  ASSUME ~GetterRollsBack, IInv, NEW to \in {"committed", "rolledback"},
         NEW committed, NEW rolledBack, Settle(to, committed, rolledBack)
  PROVE  IInv'
<1>1. /\ state = "pending" /\ state' = to /\ remaining' = entries /\ entries' = {}
      /\ op' \in {"listeners", "settled"} /\ ~(admitting > 0)
      /\ UNCHANGED <<made, admitting, offering, current, released, parentOwns>>
  BY DEF Settle, release, parent
<1>2. PlaceInv'
  BY <1>1 DEF IInv, PlaceInv, PhaseInv
<1>3. PhaseInv'
  BY <1>1 DEF IInv, PhaseInv
<1> QED BY <1>2, <1>3 DEF IInv

LEMMA ParentOwnsInv == ASSUME IInv, ParentOwns PROVE IInv'
<1>1. /\ offering # None /\ parentOwns' = parentOwns \cup {offering}
      /\ remaining' = remaining \ {offering} /\ offering' = None
      /\ UNCHANGED <<state, made, admitting, entries, op, current, released>>
  BY DEF ParentOwns, registry, release
<1>2. offering \in remaining
  BY <1>1 DEF IInv, PlaceInv
<1>3. PlaceInv'
  BY <1>1, <1>2 DEF IInv, PlaceInv
<1>4. PhaseInv'
  BY <1>1 DEF IInv, PhaseInv
<1> QED BY <1>3, <1>4 DEF IInv

LEMMA ParentRefusesInv == ASSUME IInv, ParentRefuses PROVE IInv'
<1>1. /\ state' = "rolledback" /\ remaining' = remaining /\ offering' = None
      /\ state = "committed" /\ op = "settled"
      /\ UNCHANGED <<made, admitting, entries, op, current, released, parentOwns>>
  BY DEF ParentRefuses, Compensate, Refused, Transferring, registry, release, parent,
         IInv, PhaseInv
<1> QED BY <1>1 DEF IInv, PlaceInv, PhaseInv

LEMMA CallReleaseInv == ASSUME IInv, NEW i \in Item, CallRelease(i) PROVE IInv'
<1>1. /\ op = "settled" /\ state = "rolledback" /\ current = None /\ i \in remaining
      /\ current' = i /\ remaining' = remaining \ {i}
      /\ UNCHANGED <<state, made, admitting, entries, op, offering, released, parentOwns>>
  BY DEF CallRelease, Call, Releasing, registry, parent
<1>2. offering = None
  BY <1>1 DEF IInv, PhaseInv
<1>3. i # None /\ i \notin entries \cup parentOwns \cup released
  BY <1>1 DEF IInv, PlaceInv, None
<1>4. PlaceInv'
  BY <1>1, <1>2, <1>3 DEF IInv, PlaceInv
<1>5. PhaseInv'
  BY <1>1 DEF IInv, PhaseInv
<1> QED BY <1>4, <1>5 DEF IInv

LEMMA ReleaseReturnsInv == ASSUME IInv, NEW ok \in BOOLEAN, ReleaseReturns(ok) PROVE IInv'
<1>1. /\ current # None /\ released' = released \cup {current} /\ current' = None
      /\ UNCHANGED <<state, made, admitting, entries, op, remaining, offering, parentOwns>>
  BY DEF ReleaseReturns, registry, parent
<1>2. None \notin 1 .. made
  BY DEF None
<1>3. PlaceInv'
  BY <1>1, <1>2 DEF IInv, PlaceInv
<1>4. PhaseInv'
  BY <1>1 DEF IInv, PhaseInv
<1> QED BY <1>3, <1>4 DEF IInv

LEMMA StepInv == ASSUME ~GetterRollsBack PROVE IInv /\ [Next]_vars => IInv'
<1> SUFFICES ASSUME IInv, [Next]_vars PROVE IInv'
  OBVIOUS
<1>1. CASE UNCHANGED vars
  BY <1>1 DEF vars, IInv, PlaceInv, PhaseInv
<1>2. CASE OwnBegins
  BY <1>2 DEF OwnBegins, UserRuns, release, parent, promises, IInv, PlaceInv, PhaseInv
<1>3. CASE OwnReturns
  BY <1>3, OwnReturnsInv
<1>4. CASE ReadSignal \/ ParentSignalAborts \/ ParentCloses
  BY <1>4 DEF ReadSignal, ParentSignalAborts, ParentCloses, registry, release,
              parent, IInv, PlaceInv, PhaseInv
<1>5. CASE Rollback \/ CommitTo
  BY <1>5, SettleInv DEF Rollback, CommitTo
<1>6. CASE ListenersReturn
  BY <1>6 DEF ListenersReturn, registry, release, parent, IInv, PlaceInv, PhaseInv
<1>7. CASE ParentOwns
  BY <1>7, ParentOwnsInv
<1>8. CASE ParentRefuses
  BY <1>8, ParentRefusesInv
<1>9. CASE CommitSucceeds
  BY <1>9 DEF CommitSucceeds, Transferring, registry, release, parent,
              IInv, PlaceInv, PhaseInv
<1>10. CASE ReleaseWaits
  BY <1>10 DEF ReleaseWaits, registry, parent, IInv, PlaceInv, PhaseInv
<1>11. CASE FinishRelease
  BY <1>11 DEF FinishRelease, FinishWhen, Releasing, registry, release, parent,
               IInv, PlaceInv, PhaseInv
<1>12. ASSUME NEW i \in Item, ParentAdmits(i) PROVE IInv'
  <2>1. /\ i \in remaining /\ offering' = i /\ op = "settled" /\ state = "committed"
        /\ UNCHANGED <<state, made, admitting, entries, op, remaining, current, released,
                       parentOwns>>
    BY <1>12 DEF ParentAdmits, Offer, Transferring, registry, release, parent
  <2> QED BY <2>1 DEF IInv, PlaceInv, PhaseInv
<1>13. ASSUME NEW i \in Item, CallRelease(i) PROVE IInv'
  BY <1>13, CallReleaseInv
<1>14. ASSUME NEW ok \in BOOLEAN, ReleaseReturns(ok) PROVE IInv'
  BY <1>14, ReleaseReturnsInv
<1> QED
  BY <1>1, <1>2, <1>3, <1>4, <1>5, <1>6, <1>7, <1>8, <1>9, <1>10, <1>11, <1>12, <1>13,
     <1>14 DEF Next

\* A settled scope whose operation is over has given each registration to the
\* parent or released it, and at no time both.
THEOREM OwnershipTransfers ==
  ASSUME ~GetterRollsBack PROVE Spec => []NeverBothNeverNeither
<1>1. IInv => NeverBothNeverNeither
  <2> SUFFICES ASSUME IInv PROVE NeverBothNeverNeither
    OBVIOUS
  <2>1. parentOwns \cap (released \cup remaining \cup {current}) \subseteq {offering}
    BY DEF IInv, PlaceInv
  <2>2. op = "done" => parentOwns \cup released = 1 .. made
    BY DEF IInv, PlaceInv, PhaseInv
  <2> QED BY <2>1, <2>2 DEF NeverBothNeverNeither
<1>2. Spec => []IInv
  BY InitInv, StepInv, PTL DEF Spec
<1> QED BY <1>1, <1>2, PTL

-----------------------------------------------------------------------------
(* What a commit says of itself.                                           *)

\* The parent has a prefix of the registrations, and is offered the next one;
\* a promise is settled only when the operation is over, and the one of a
\* commit is resolved only when nothing went wrong.
CommitInv ==
    /\ \A i \in parentOwns : \A j \in 1 .. i : j \in parentOwns
    /\ offering # None => \A j \in remaining : offering <= j
    /\ state = "pending" =>
         released = {} /\ parentOwns = {} /\ commitPromise = "none" /\ rollbackPromise = "none"
    /\ state = "committed" => released = {} /\ rollbackPromise = "none"
    /\ {commitPromise, rollbackPromise} \cap {"resolved", "rejected"} # {} => op = "done"
    /\ commitPromise = "resolved" => state = "committed" /\ ~settleFailed

LEMMA CommitInit == Init => CommitInv
BY DEF Init, CommitInv, None

\* The parent takes the oldest entry left: everything before it is there.
LEMMA NextOfPrefix == ASSUME IInv, CommitInv, ParentOwns PROVE CommitInv'
<1>1. /\ offering # None /\ parentOwns' = parentOwns \cup {offering} /\ offering' = None
      /\ UNCHANGED <<state, op, settleFailed, released, commitPromise, rollbackPromise>>
  BY DEF ParentOwns, release, promises
<1>2. /\ state = "committed" /\ released = {} /\ current = None /\ entries = {}
      /\ offering \in remaining /\ remaining \cup parentOwns = 1 .. made /\ made \in Nat
  BY <1>1 DEF IInv, PlaceInv, PhaseInv, CommitInv
<1>3. \A j \in 1 .. offering : j \in parentOwns \cup {offering}
  BY <1>1, <1>2 DEF CommitInv
<1>4. \A i \in parentOwns' : \A j \in 1 .. i : j \in parentOwns'
  BY <1>1, <1>3 DEF CommitInv
<1> QED BY <1>1, <1>2, <1>4 DEF CommitInv

LEMMA CommitStep == IInv /\ CommitInv /\ [Next]_vars => CommitInv'
<1> SUFFICES ASSUME IInv, CommitInv, [Next]_vars PROVE CommitInv'
  OBVIOUS
<1>1. CASE \/ UNCHANGED vars \/ OwnBegins \/ OwnReturns \/ ReadSignal \/ ParentSignalAborts
           \/ ParentCloses
  <2>1. /\ UNCHANGED <<parentOwns, offering, remaining, state, released, op, settleFailed>>
        /\ UNCHANGED <<commitPromise, rollbackPromise>>
    BY <1>1 DEF vars, OwnBegins, OwnReturns, Push, ReadSignal, ParentSignalAborts,
       ParentCloses, release, parent, promises
  <2> QED BY <2>1 DEF CommitInv
<1>2. CASE Rollback \/ CommitTo
  <2>1. /\ state = "pending" /\ UNCHANGED <<parentOwns, offering, released>>
        /\ \/ state' = "rolledback" /\ commitPromise' = "none" /\ rollbackPromise' = "pending"
           \/ state' = "committed" /\ commitPromise' = "pending" /\ rollbackPromise' = "none"
    BY <1>2 DEF Rollback, CommitTo, Settle, release, parent
  <2>2. offering = None
    BY <2>1 DEF IInv, PhaseInv
  <2> QED BY <2>1, <2>2 DEF CommitInv
<1>3. CASE ListenersReturn
  <2>1. /\ op = "listeners" /\ UNCHANGED <<parentOwns, offering, remaining, state, released>>
        /\ UNCHANGED <<settleFailed, commitPromise, rollbackPromise>>
    BY <1>3 DEF ListenersReturn, release, parent, promises
  <2> QED BY <2>1 DEF CommitInv
<1>4. CASE ParentOwns
  BY <1>4, NextOfPrefix
<1>5. CASE ParentRefuses
  <2>1. /\ state' = "rolledback" /\ offering' = None
        /\ UNCHANGED <<parentOwns, released, op, settleFailed, commitPromise, rollbackPromise>>
    BY <1>5 DEF ParentRefuses, Compensate, release, parent, promises
  <2>2. state = "committed" /\ op = "settled"
    BY <1>5 DEF ParentRefuses, Compensate, Refused, Transferring, IInv, PhaseInv
  <2> QED BY <2>1, <2>2 DEF CommitInv
<1>6. CASE CommitSucceeds
  BY <1>6 DEF CommitSucceeds, Transferring, Promise, release, parent, CommitInv
<1>7. CASE ReleaseWaits
  <2>1. /\ state = "rolledback" /\ op = "settled"
    BY <1>7 DEF ReleaseWaits, IInv, PhaseInv
  <2> QED BY <1>7, <2>1 DEF ReleaseWaits, registry, parent, CommitInv
<1>8. CASE FinishRelease
  BY <1>8 DEF FinishRelease, FinishWhen, Releasing, Promise, release, parent, CommitInv
<1>9. ASSUME NEW i \in Item, ParentAdmits(i) PROVE CommitInv'
  BY <1>9 DEF ParentAdmits, Oldest, Offer, Transferring, release, parent, promises, CommitInv
<1>10. ASSUME NEW i \in Item, CallRelease(i) PROVE CommitInv'
  <2>1. offering = None /\ state = "rolledback"
    BY <1>10 DEF CallRelease, Call, Releasing, IInv, PhaseInv
  <2> QED BY <1>10, <2>1 DEF CallRelease, Call, parent, promises, CommitInv
<1>11. ASSUME NEW ok \in BOOLEAN, ReleaseReturns(ok) PROVE CommitInv'
  <2>1. offering = None /\ state = "rolledback"
    BY <1>11 DEF ReleaseReturns, IInv, PhaseInv
  <2> QED BY <1>11, <2>1 DEF ReleaseReturns, parent, promises, CommitInv
<1> QED
  BY <1>1, <1>2, <1>3, <1>4, <1>5, <1>6, <1>7, <1>8, <1>9, <1>10, <1>11 DEF Next

\* The parent always has a prefix of the registrations.  A commit that resolves
\* has given it all of them, and its settling did not fail; one that rejects, like
\* a rollback that is over, leaves nothing waiting or being released.
THEOREM CommitIsTruthful ==
  ASSUME ~GetterRollsBack PROVE Spec => []CommitTellsTheTruth
<1>1. IInv /\ CommitInv => CommitTellsTheTruth
  <2> SUFFICES ASSUME IInv, CommitInv PROVE CommitTellsTheTruth
    OBVIOUS
  <2>1. commitPromise = "resolved" => parentOwns = 1 .. made /\ ~settleFailed
    BY DEF IInv, PlaceInv, PhaseInv, CommitInv
  <2>2. {commitPromise, rollbackPromise} \cap {"resolved", "rejected"} # {} =>
          current = None /\ remaining = {}
    BY DEF IInv, PhaseInv, CommitInv
  <2> QED BY <2>1, <2>2 DEF CommitTellsTheTruth, CommitInv
<1> QED BY <1>1, InitInv, StepInv, CommitInit, CommitStep, PTL DEF Spec

-----------------------------------------------------------------------------
(* The scope is an owner as ReleaseLedger states it.                       *)

MadeInv == made \in Nat /\ admitting \in Nat /\ made + admitting <= MaxOwn

LEMMA MadeStep == MadeInv /\ [Next]_vars => MadeInv'
<1> SUFFICES ASSUME MadeInv, [Next]_vars PROVE MadeInv'
  OBVIOUS
<1>0. MaxOwn \in Nat
  BY ConstantsAssumption
<1>1. CASE OwnBegins
  BY <1>0, <1>1 DEF OwnBegins, MadeInv
<1>2. CASE OwnReturns
  BY <1>0, <1>2 DEF OwnReturns, Push, MadeInv
<1>3. CASE UNCHANGED <<made, admitting>>
  BY <1>3 DEF MadeInv
<1>4. ~OwnBegins /\ ~OwnReturns => UNCHANGED <<made, admitting>>
  BY DEF Next, vars, ReadSignal, ParentSignalAborts, ParentCloses, Rollback, CommitTo,
     Settle, ListenersReturn, ParentOwns, ParentRefuses, Compensate, CommitSucceeds,
     ReleaseWaits, FinishRelease, FinishWhen, ParentAdmits, Offer, CallRelease, Call,
     ReleaseReturns, registry
<1> QED BY <1>1, <1>2, <1>3, <1>4

LEMMA LedgerStep ==
    ASSUME IInv, MadeInv, [Next]_vars
    PROVE  [Ledger!Next]_(Ledger!vars)
<1> DEFINE ord == [i \in Item |-> 0]
<1>o. \A r \in Item : [ord EXCEPT ![r] = ord[r]] = ord
  OBVIOUS
<1>1. CASE OwnReturns
  <2>1. /\ admitting > 0 /\ made' = made + 1 /\ entries' = entries \cup {made + 1}
        /\ UNCHANGED <<state, remaining, current, released, parentOwns>>
    BY <1>1 DEF OwnReturns, Push, release, parent
  <2>2. state = "pending" /\ made + 1 \in Item
    BY <2>1, ConstantsAssumption DEF IInv, PhaseInv, MadeInv, Item
  <2>3. made + 1 \notin entries \cup remaining \cup ({current} \ {None})
                     \cup parentOwns \cup released
    <3>1. made + 1 \notin 1 .. made
      BY DEF IInv, PlaceInv
    <3> QED BY <3>1 DEF IInv, PlaceInv
  <2>4. Ledger!Take(made + 1)
    BY <1>o, <2>1, <2>2, <2>3 DEF Ledger!Take
  <2> QED BY <2>2, <2>4 DEF Ledger!Next, Ledger!Registration, Item
<1>2. CASE Rollback \/ CommitTo
  <2>1. /\ state' # "pending" /\ remaining' = entries /\ entries' = {} /\ state = "pending"
        /\ UNCHANGED <<current, released, parentOwns>>
    BY <1>2 DEF Rollback, CommitTo, Settle, release, parent
  <2>2. remaining = {}
    BY <2>1 DEF IInv, PhaseInv
  <2>3. Ledger!Close
    BY <2>1, <2>2 DEF Ledger!Close
  <2> QED BY <2>3 DEF Ledger!Next
<1>3. CASE ParentOwns
  <2>1. /\ offering # None /\ parentOwns' = parentOwns \cup {offering}
        /\ remaining' = remaining \ {offering}
        /\ UNCHANGED <<state, entries, current, released>>
    BY <1>3 DEF ParentOwns, registry, release
  <2>2. offering \in remaining /\ current = None /\ entries = {} /\ offering \in Item
    BY <2>1, ConstantsAssumption DEF IInv, PlaceInv, PhaseInv, MadeInv, Item
  <2>3. Ledger!HandBack(offering)
    BY <2>1, <2>2 DEF Ledger!HandBack
  <2> QED BY <2>2, <2>3 DEF Ledger!Next, Ledger!Registration, Item
<1>4. ASSUME NEW i \in Item, CallRelease(i) PROVE Ledger!Next
  <2>1. /\ state = "rolledback" /\ current = None /\ i \in remaining /\ Newest(i)
        /\ current' = i /\ remaining' = remaining \ {i}
        /\ UNCHANGED <<state, entries, released, parentOwns>>
    BY <1>4 DEF CallRelease, Call, Releasing, registry, parent
  <2>2. entries = {} /\ i # None /\ remaining \subseteq Item
    BY <2>1, ConstantsAssumption DEF IInv, PlaceInv, PhaseInv, MadeInv, Item, None
  <2>3. \A q \in remaining \ {i} : Ledger!Precedes(i, q)
    BY <2>1, <2>2 DEF Newest, Ledger!Precedes, Item
  <2>4. Ledger!Release(i)
    BY <2>1, <2>2, <2>3 DEF Ledger!Release
  <2> QED BY <2>4 DEF Ledger!Next, Ledger!Registration, Item
<1>5. ASSUME NEW ok \in BOOLEAN, ReleaseReturns(ok) PROVE Ledger!Next
  <2>1. /\ current # None /\ released' = released \cup {current} /\ current' = None
        /\ UNCHANGED <<state, entries, remaining, parentOwns>>
    BY <1>5 DEF ReleaseReturns, registry, parent
  <2>2. Ledger!Released
    BY <2>1 DEF Ledger!Released
  <2> QED BY <2>2 DEF Ledger!Next
<1>6. CASE ParentRefuses
  <2>1. /\ state' = "rolledback" /\ remaining' = remaining
        /\ UNCHANGED <<entries, current, released, parentOwns>>
    BY <1>6 DEF ParentRefuses, Compensate, registry, release, parent
  <2>2. state # "pending"
    BY <1>6 DEF ParentRefuses, Compensate, Refused, Transferring, IInv, PhaseInv
  <2> QED BY <2>1, <2>2 DEF Ledger!vars
<1>7. CASE UNCHANGED <<state, entries, remaining, current, released, parentOwns>>
  BY <1>7 DEF Ledger!vars
<1>8. CASE \/ OwnBegins \/ ReadSignal \/ ParentSignalAborts \/ ParentCloses \/ ListenersReturn
           \/ CommitSucceeds \/ ReleaseWaits \/ FinishRelease \/ UNCHANGED vars
           \/ \E i \in Item : ParentAdmits(i)
  <2>1. UNCHANGED <<state, entries, remaining, current, released, parentOwns>>
    BY <1>8 DEF OwnBegins, ReadSignal, ParentSignalAborts, ParentCloses, ListenersReturn,
       CommitSucceeds, ReleaseWaits, FinishRelease, FinishWhen, ParentAdmits, Offer, vars,
       registry, release, parent
  <2> QED BY <1>7, <2>1
<1> QED BY <1>1, <1>2, <1>3, <1>4, <1>5, <1>6, <1>8 DEF Next

\* Entries are taken while the scope is open, leave it once, to the parent or by
\* a release, and releases run one at a time and newest first, whatever the
\* parent, the listeners and the callbacks do.
THEOREM RefinesReleaseLedger ==
  ASSUME ~GetterRollsBack PROVE Spec => ImplementsReleaseLedger
<1>1. Init => MadeInv
  BY ConstantsAssumption DEF Init, MadeInv
<1>2. Init => Ledger!Init
  BY DEF Init, Ledger!Init, Ledger!Registration, Item, None
<1>3. Spec => [](IInv /\ MadeInv)
  BY <1>1, InitInv, StepInv, MadeStep, PTL DEF Spec
<1> QED
  BY <1>2, <1>3, LedgerStep, PTL DEF Spec, ImplementsReleaseLedger, Ledger!Spec
=============================================================================
