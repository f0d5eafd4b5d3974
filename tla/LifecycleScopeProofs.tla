------------------------- MODULE LifecycleScopeProofs -------------------------
(***************************************************************************)
(* No registration of a scope is lost or doubled, for any resources,       *)
(* descriptors, policies and number of registrations, provided no          *)
(* descriptor getter disposes the scope.  Under the same proviso every     *)
(* release follows its degrade chain, every failure surfaces, and the      *)
(* scope is an owner as ReleaseLedger states it.                           *)
(***************************************************************************)
EXTENDS LifecycleScope, SequenceTheorems, TLAPS

\* The own() calls in progress and the registrations made are sequences.
SeqInv == owned \in Seq(Call) /\ admitting \in Seq(Call)

\* dispose() leaves nothing live, and no own() call of before is still reading.
DisposeInv ==
    /\ disposePromise # "none" =>
           lifecycle # "open" /\ admitting = <<>> /\ entries = {}
    /\ disposePromise = "none" => plan = {} /\ current = None

\* Finalizers watch live registrations only, and run only for a dropped scope.
GcInv ==
    /\ armed \subseteq entries \ collected
    /\ collected \subseteq entries
    /\ collected # {} => abandoned
    /\ abandoned => disposePromise = "none" /\ admitting = <<>>

\* OnePlace, set by set.
PlaceInv ==
    /\ entries \cup plan \cup ({current} \ {None}) \cup handedBack \cup disposed = DOMAIN owned
    /\ entries \cap plan = {} /\ entries \cap handedBack = {} /\ entries \cap disposed = {}
    /\ plan \cap handedBack = {} /\ plan \cap disposed = {} /\ handedBack \cap disposed = {}
    /\ current \notin entries \cup plan \cup handedBack \cup disposed
    /\ None \notin DOMAIN owned

IInv == SeqInv /\ DisposeInv /\ GcInv /\ PlaceInv

LEMMA InitInv == Init => IInv
  BY DEF Init, IInv, SeqInv, DisposeInv, GcInv, PlaceInv, None

\* The steps of the release loop that only record what a callback did.
LEMMA LoopInv ==
  ASSUME IInv, UNCHANGED <<registry, lifecycle, disposePromise, plan, current, disposed>>
  PROVE  IInv'
  BY DEF IInv, SeqInv, DisposeInv, GcInv, PlaceInv, registry

LEMMA OwnBeginsInv == ASSUME IInv, NEW call \in Call, OwnBegins(call) PROVE IInv'
<1>1. SeqInv'
  BY DEF IInv, SeqInv, OwnBegins
<1>2. DisposeInv' /\ GcInv' /\ PlaceInv'
  BY DEF IInv, DisposeInv, GcInv, PlaceInv, OwnBegins, loop, UserRuns
<1> QED BY <1>1, <1>2 DEF IInv

LEMMA OwnReturnsInv == ASSUME IInv, OwnReturns PROVE IInv'
<1> DEFINE call == admitting[Len(admitting)]
           r    == Len(owned) + 1
<1>1. /\ admitting # <<>> /\ owned' = Append(owned, call)
      /\ admitting' = SubSeq(admitting, 1, Len(admitting) - 1)
      /\ entries' = entries \cup {r} /\ (armed' = armed \cup {r} \/ armed' = armed)
      /\ UNCHANGED <<lifecycle, abandoned, disposePromise, handedBack, collected,
                     plan, current, disposed>>
  BY DEF OwnReturns, Push, loop
<1>2. SeqInv /\ DisposeInv /\ GcInv /\ PlaceInv
  BY DEF IInv
<1>3. /\ call \in Call /\ owned' \in Seq(Call) /\ admitting' \in Seq(Call)
      /\ DOMAIN owned = 1 .. Len(owned) /\ Len(owned) \in Nat
      /\ DOMAIN owned' = 1 .. Len(owned) + 1
  BY <1>1, <1>2 DEF SeqInv
<1>4. /\ r \notin DOMAIN owned /\ DOMAIN owned' = DOMAIN owned \cup {r} /\ r # None
      /\ r \in DOMAIN owned'
  BY <1>3 DEF None
<1> HIDE DEF r, call
<1>5. disposePromise = "none" /\ ~abandoned
  BY <1>1, <1>2 DEF DisposeInv, GcInv
<1>6. SeqInv' /\ DisposeInv'
  BY <1>1, <1>2, <1>3, <1>5 DEF SeqInv, DisposeInv
<1>7. GcInv'
  BY <1>1, <1>2, <1>5 DEF GcInv
<1>8. PlaceInv'
  BY <1>1, <1>2, <1>4, <1>5 DEF PlaceInv, DisposeInv
<1> QED BY <1>6, <1>7, <1>8 DEF IInv

LEMMA ReleaseInv == ASSUME IInv, NEW resource \in Resource, Release(resource) PROVE IInv'
<1>1. PICK r \in entries : /\ entries' = entries \ {r} /\ armed' = armed \ {r}
                           /\ handedBack' = handedBack \cup {r}
  BY DEF Release
<1>2. /\ UNCHANGED <<lifecycle, owned, admitting, abandoned, disposePromise, collected,
                     plan, current, disposed>>
      /\ ~abandoned
  BY DEF Release, UserRuns, loop
<1>3. SeqInv' /\ DisposeInv'
  BY <1>1, <1>2 DEF IInv, SeqInv, DisposeInv
<1>4. GcInv'
  BY <1>1, <1>2 DEF IInv, GcInv
<1>5. PlaceInv'
  BY <1>1, <1>2 DEF IInv, PlaceInv
<1> QED BY <1>3, <1>4, <1>5 DEF IInv

LEMMA DisposeStepInv == ASSUME GetterMay = {}, IInv, Dispose PROVE IInv'
<1>1. /\ disposePromise = "none" /\ ~abandoned /\ admitting = <<>>
      /\ lifecycle' = "closing" /\ disposePromise' = "pending"
      /\ plan' = entries /\ entries' = {} /\ armed' = armed \ entries
      /\ UNCHANGED <<owned, admitting, abandoned, handedBack, collected, current, disposed>>
  BY DEF Dispose, DisposeTaking, UserRuns
<1>2. SeqInv' /\ DisposeInv'
  BY <1>1 DEF IInv, SeqInv, DisposeInv
<1>3. GcInv'
  BY <1>1 DEF IInv, GcInv
<1>4. PlaceInv'
  BY <1>1 DEF IInv, PlaceInv, DisposeInv
<1> QED BY <1>2, <1>3, <1>4 DEF IInv

LEMMA BeginItemInv == ASSUME IInv, NEW r \in Registration, BeginItem(r) PROVE IInv'
<1>1. /\ current = None /\ r \in plan /\ plan' = plan \ {r} /\ current' = r
      /\ UNCHANGED <<lifecycle, disposePromise, owned, admitting, entries, armed, abandoned,
                     handedBack, collected, disposed>>
  BY DEF BeginItem, registry
<1>2. SeqInv' /\ GcInv' /\ DisposeInv'
  BY <1>1 DEF IInv, SeqInv, GcInv, DisposeInv
<1>3. PlaceInv'
  BY <1>1 DEF IInv, PlaceInv
<1> QED BY <1>2, <1>3 DEF IInv

LEMMA ItemDoneInv == ASSUME IInv, ItemDone PROVE IInv'
<1>1. /\ current # None /\ disposed' = disposed \cup {current} /\ current' = None
      /\ UNCHANGED <<lifecycle, disposePromise, owned, admitting, entries, armed, abandoned,
                     handedBack, collected, plan>>
  BY DEF ItemDone, registry
<1>2. SeqInv' /\ GcInv' /\ DisposeInv'
  BY <1>1 DEF IInv, SeqInv, GcInv, DisposeInv
<1>3. PlaceInv'
  BY <1>1 DEF IInv, PlaceInv
<1> QED BY <1>2, <1>3 DEF IInv

LEMMA GcFiresInv == ASSUME IInv, NEW r \in Registration, GcFires(r) PROVE IInv'
<1>1. /\ r \in armed /\ armed' = armed \ {r} /\ collected' = collected \cup {r}
      /\ abandoned \/ \A q \in entries : owned[q].resource # owned[r].resource
      /\ UNCHANGED <<lifecycle, disposePromise, owned, admitting, entries, abandoned,
                     handedBack, plan, current, disposed>>
  BY DEF GcFires, loop
<1>2. r \in entries \ collected /\ abandoned
  BY <1>1 DEF IInv, GcInv
<1>3. SeqInv' /\ DisposeInv' /\ PlaceInv'
  BY <1>1 DEF IInv, SeqInv, DisposeInv, PlaceInv
<1>4. GcInv'
  BY <1>1, <1>2 DEF IInv, GcInv
<1> QED BY <1>3, <1>4 DEF IInv

LEMMA StepInv == ASSUME GetterMay = {} PROVE IInv /\ [Next]_vars => IInv'
<1> SUFFICES ASSUME IInv, [Next]_vars PROVE IInv'
  OBVIOUS
<1>1. CASE UNCHANGED vars
  BY <1>1, LoopInv DEF vars, registry
<1>2. CASE OwnReturns
  BY <1>2, OwnReturnsInv
<1>3. CASE Close
  BY <1>3 DEF Close, UserRuns, registry, loop, IInv, SeqInv, DisposeInv, GcInv, PlaceInv
<1>4. CASE Dispose
  BY <1>4, DisposeStepInv
<1>5. CASE Abandon
  BY <1>5 DEF Abandon, loop, IInv, SeqInv, DisposeInv, GcInv, PlaceInv
<1>6. CASE GracefulTimesOut
  BY <1>6, LoopInv DEF GracefulTimesOut, Settles
<1>7. CASE ItemDone
  BY <1>7, ItemDoneInv
<1>8. CASE Finish
  <2>1. /\ disposePromise = "pending" /\ lifecycle' = "terminal"
        /\ disposePromise' \in {"rejected", "resolved"}
        /\ UNCHANGED <<owned, admitting, entries, armed, abandoned, handedBack, collected,
                       plan, current, disposed>>
    BY <1>8 DEF Finish, registry
  <2> QED BY <2>1 DEF IInv, SeqInv, DisposeInv, GcInv, PlaceInv
<1>9. CASE \E call \in Call : OwnBegins(call)
  BY <1>9, OwnBeginsInv
<1>10. CASE \E resource \in Resource : Release(resource)
  BY <1>10, ReleaseInv
<1>11. CASE \E r \in Registration : BeginItem(r) \/ GcFires(r)
  BY <1>11, BeginItemInv, GcFiresInv
<1>12. CASE \E act \in {"returns", "throws", "waits", "joins"} : CallPhase(act)
  BY <1>12, LoopInv DEF CallPhase
<1>13. CASE \E p \in Phase, o \in {"ok", "failed"} : CallbackSettles(p, o)
  BY <1>13, LoopInv DEF CallbackSettles, Settles
<1> QED
  BY <1>1, <1>2, <1>3, <1>4, <1>5, <1>6, <1>7, <1>8, <1>9, <1>10, <1>11, <1>12, <1>13
     DEF Next

LEMMA PlacesDisjoint == IInv => OnePlace
<1> SUFFICES ASSUME GcInv, PlaceInv, DisposeInv PROVE OnePlace
  BY DEF IInv
<1> DEFINE P(i) == Places[i]
<1>1. /\ P(1) = entries \ collected /\ P(2) = plan /\ P(3) = {current} \ {None}
      /\ P(4) = handedBack /\ P(5) = disposed /\ P(6) = collected
  BY DEF Places
<1>2. \A i, j \in 1 .. 6 : i # j => P(i) \cap P(j) = {}
  <2> SUFFICES ASSUME NEW i \in 1 .. 6, NEW j \in 1 .. 6, i # j PROVE P(i) \cap P(j) = {}
    OBVIOUS
  <2> HIDE DEF P
  <2>1. \A x : ~(x \in P(i) /\ x \in P(j))
    BY <1>1 DEF GcInv, PlaceInv
  <2> QED BY <2>1
<1>3. UNION {P(i) : i \in 1 .. 6} = DOMAIN owned
  <2> HIDE DEF P
  <2>1. UNION {P(i) : i \in 1 .. 6} =
            P(1) \cup P(2) \cup P(3) \cup P(4) \cup P(5) \cup P(6)
    <3>1. 1 .. 6 = {1, 2, 3, 4, 5, 6}
      OBVIOUS
    <3> QED BY <3>1
  <2> QED BY <1>1, <2>1 DEF GcInv, PlaceInv
<1> QED BY <1>2, <1>3 DEF OnePlace

\* Nothing is skipped or doubled: at any time a registration is live, planned,
\* being released, handed back, released or collected, and only one of these.
THEOREM NothingLostOrDoubled == ASSUME GetterMay = {} PROVE Spec => []OnePlace
<1>1. Spec => []IInv
  BY InitInv, StepInv, PTL DEF Spec
<1> QED BY <1>1, PlacesDisjoint, PTL

-----------------------------------------------------------------------------
(* The degrade chain.                                                      *)

Outcomes == {"not_called", "running", "joining", "ok", "failed", "timed_out"}

\* Registrations are numbered by the bound on own() calls.
CountInv == Len(owned) + Len(admitting) <= MaxOwn

\* What the callbacks of r did fits its descriptor: one phase, or graceful and
\* force after it; no callback waits for its own scope.
Fits(r) ==
    LET chain == owned[r].descriptor.chain
    IN  /\ \A p \in Phase : outcome[r][p] \in Outcomes \ {"joining"}
        /\ outcome[r]["custom"] # "not_called" => chain = "custom"
        /\ outcome[r]["graceful"] # "not_called" => chain = "graceful"
        /\ outcome[r]["force"] # "not_called" =>
             \/ chain = "force"
             \/ chain = "graceful" /\ outcome[r]["graceful"] \in {"failed", "timed_out"}
        /\ outcome[r]["custom"] # "timed_out" /\ outcome[r]["force"] # "timed_out"

\* Only the registration being released and those released have called, and
\* what is released has nothing left to call or to wait for.
ChainInv ==
    /\ outcome \in [Registration -> [Phase -> Outcomes]]
    /\ \A r \in Registration : r \notin disposed \cup {current} =>
         \A p \in Phase : outcome[r][p] = "not_called"
    /\ \A r \in disposed \cup ({current} \ {None}) : Fits(r)
    /\ \A r \in disposed : ~Waiting(r) /\ Due(r) = {}

LEMMA CountStep == SeqInv /\ CountInv /\ [Next]_vars => CountInv'
<1> SUFFICES ASSUME SeqInv, CountInv, [Next]_vars PROVE CountInv'
  OBVIOUS
<1>0. /\ owned \in Seq(Call) /\ admitting \in Seq(Call) /\ Len(owned) \in Nat
      /\ Len(admitting) \in Nat /\ MaxOwn \in Nat
  BY ConstantsAssumption DEF SeqInv
<1>1. CASE \E call \in Call : OwnBegins(call)
  <2>1. /\ Len(owned) + Len(admitting) < MaxOwn /\ Len(admitting') = Len(admitting) + 1
        /\ owned' = owned
    BY <1>0, <1>1 DEF OwnBegins
  <2> QED BY <1>0, <2>1 DEF CountInv
<1>2. CASE OwnReturns
  <2>1. /\ admitting # <<>> /\ owned' = Append(owned, admitting[Len(admitting)])
        /\ admitting' = SubSeq(admitting, 1, Len(admitting) - 1)
    BY <1>2 DEF OwnReturns, Push
  <2>2. Len(admitting) \in Nat \ {0}
    BY <1>0, <2>1
  <2>3. Len(admitting) - 1 \in Nat
    BY <2>2
  <2>4. Len(owned') = Len(owned) + 1
    BY <1>0, <2>1
  <2>5. Len(admitting') = Len(admitting) - 1
    <3>1. \A i \in 1 .. Len(admitting) - 1 : admitting[i] \in Call
      BY <1>0, <2>3
    <3>2. Len(admitting') = IF 1 <= Len(admitting) - 1 THEN Len(admitting) - 1 - 1 + 1 ELSE 0
      BY <2>1, <2>3, <3>1, SubSeqProperties
    <3> QED BY <2>2, <3>2
  <2> QED BY <1>0, <2>2, <2>4, <2>5 DEF CountInv
<1>3. ~OwnReturns /\ ~(\E call \in Call : OwnBegins(call)) => UNCHANGED <<owned, admitting>>
  BY DEF Next, vars, Close, Dispose, DisposeTaking, Abandon, GracefulTimesOut, Settles,
     ItemDone, Finish, Release, BeginItem, GcFires, CallPhase, CallbackSettles, registry
<1> QED BY <1>1, <1>2, <1>3 DEF CountInv

\* The registrations are a prefix of the numbers, and keep their descriptors.
LEMMA OwnedKept ==
    ASSUME SeqInv, CountInv, CountInv', SeqInv', [Next]_vars
    PROVE  /\ DOMAIN owned \subseteq Registration /\ DOMAIN owned \subseteq DOMAIN owned'
           /\ \A r \in DOMAIN owned : owned'[r] = owned[r]
<1>0. /\ owned \in Seq(Call) /\ admitting \in Seq(Call) /\ Len(owned) \in Nat
      /\ Len(admitting) \in Nat /\ MaxOwn \in Nat
  BY ConstantsAssumption DEF SeqInv
<1>1. DOMAIN owned \subseteq Registration
  BY <1>0 DEF CountInv, Registration
<1>2. CASE OwnReturns
  <2>1. admitting[Len(admitting)] \in Call /\ owned' = Append(owned, admitting[Len(admitting)])
    BY <1>0, <1>2 DEF OwnReturns, Push
  <2> QED BY <1>0, <1>1, <2>1
<1>3. ~OwnReturns => owned' = owned
  BY DEF Next, vars, Close, Dispose, DisposeTaking, Abandon, GracefulTimesOut, Settles,
     ItemDone, Finish, Release, BeginItem, GcFires, CallPhase, CallbackSettles, registry,
     OwnBegins
<1> QED BY <1>1, <1>2, <1>3

LEMMA ChainStep ==
    ASSUME IInv, IInv', CountInv, CountInv', ChainInv, [Next]_vars
    PROVE  ChainInv'
<1>0. /\ DOMAIN owned \subseteq Registration /\ current \in DOMAIN owned \cup {None}
      /\ disposed \subseteq DOMAIN owned /\ None \notin DOMAIN owned
      /\ \A r \in DOMAIN owned : owned'[r] = owned[r]
      /\ current \notin disposed /\ plan \subseteq DOMAIN owned /\ plan \cap disposed = {}
  BY OwnedKept DEF IInv, PlaceInv
<1>1. outcome \in [Registration -> [Phase -> Outcomes]]
  BY DEF ChainInv
\* What an outcome depends on is kept.
<1>a. ASSUME NEW r \in DOMAIN owned, outcome'[r] = outcome[r]
      PROVE  /\ Fits(r)' <=> Fits(r)
             /\ Waiting(r)' <=> Waiting(r)
             /\ Due(r)' = Due(r)
  BY <1>0, <1>a DEF Fits, Waiting, Due, DueAfter
<1>2. CASE UNCHANGED <<outcome, current, disposed>>
  BY <1>0, <1>1, <1>2, <1>a DEF ChainInv
<1>3. ASSUME NEW r \in Registration, BeginItem(r) PROVE ChainInv'
  <2>1. /\ current = None /\ r \in plan /\ current' = r /\ UNCHANGED <<outcome, disposed, owned>>
    BY <1>3 DEF BeginItem, registry
  <2>2. Fits(r)
    BY <1>0, <2>1 DEF ChainInv, Fits, Outcomes, Phase
  <2>3. \A q \in disposed \cup {r} : Fits(q)'
    BY <1>0, <1>a, <2>1, <2>2 DEF ChainInv
  <2>4. \A q \in disposed : ~Waiting(q)' /\ (Due(q) = {})'
    BY <1>0, <1>a, <2>1 DEF ChainInv
  <2>5. None \notin Registration
    BY DEF None, Registration
  <2> QED BY <1>1, <2>1, <2>3, <2>4, <2>5 DEF ChainInv
<1>4. CASE ItemDone
  <2>1. /\ current # None /\ ~Waiting(current) /\ Due(current) = {}
        /\ disposed' = disposed \cup {current} /\ current' = None /\ outcome' = outcome
    BY <1>4 DEF ItemDone
  <2> QED BY <1>0, <1>1, <1>a, <2>1 DEF ChainInv
\* A phase of the current registration is given an outcome.
<1>b. ASSUME current # None, UNCHANGED <<current, disposed>>, NEW p \in Phase,
             NEW o \in Outcomes, SetOutcome(p, o), Fits(current)'
      PROVE  ChainInv'
  <2>1. /\ outcome' \in [Registration -> [Phase -> Outcomes]]
        /\ \A r \in Registration \ {current} : outcome'[r] = outcome[r]
    BY <1>0, <1>1, <1>b DEF SetOutcome
  <2> QED BY <1>0, <1>a, <1>b, <2>1 DEF ChainInv
<1>c. ASSUME current # None, NEW p \in Phase, NEW o \in Outcomes, SetOutcome(p, o)
      PROVE  /\ outcome'[current][p] = o
             /\ \A q \in Phase \ {p} : outcome'[current][q] = outcome[current][q]
             /\ Fits(current) /\ owned'[current] = owned[current]
  BY <1>0, <1>1, <1>c DEF SetOutcome, ChainInv
<1>5. ASSUME NEW act \in {"returns", "throws", "waits", "joins"}, CallPhase(act)
      PROVE  ChainInv'
  <2> PICK p \in Due(current) : SetOutcome(p, CallOutcome(act))
    BY <1>5 DEF CallPhase
  <2>1. /\ current # None /\ ~Waiting(current) /\ UNCHANGED <<current, disposed>>
        /\ CallOutcome(act) \in {"ok", "failed", "running"} /\ p \in Phase
    BY <1>5 DEF CallPhase, CallOutcome, JoinOutcome, Due, DueAfter
  <2>2. /\ outcome'[current][p] \in {"ok", "failed", "running"}
        /\ \A q \in Phase \ {p} : outcome'[current][q] = outcome[current][q]
        /\ Fits(current) /\ owned'[current] = owned[current]
    BY <1>c, <2>1 DEF Outcomes
  <2>3. /\ outcome[current][p] = "not_called"
        /\ \/ p = owned[current].descriptor.chain
           \/ p = "force" /\ owned[current].descriptor.chain = "graceful"
              /\ outcome[current]["graceful"] \in {"failed", "timed_out"}
    BY DEF Due, DueAfter
  <2>4. Fits(current)'
    <3>1. CASE p = "custom"
      BY <2>1, <2>2, <2>3, <3>1 DEF Fits, Phase, Outcomes
    <3>2. CASE p = "graceful"
      BY <2>1, <2>2, <2>3, <3>2 DEF Fits, Phase, Outcomes
    <3>3. CASE p = "force"
      BY <2>1, <2>2, <2>3, <3>3 DEF Fits, Phase, Outcomes
    <3> QED BY <2>1, <3>1, <3>2, <3>3 DEF Phase
  <2> QED BY <1>b, <2>1, <2>4 DEF Outcomes
<1>d. ASSUME NEW p \in Phase, NEW o \in {"ok", "failed", "timed_out"}, Settles(p, o),
             o = "timed_out" => p = "graceful"
      PROVE  ChainInv'
  <2>1. /\ current # None /\ outcome[current][p] = "running" /\ SetOutcome(p, o)
        /\ UNCHANGED <<current, disposed>>
    BY <1>d DEF Settles
  <2>2. /\ outcome'[current][p] = o
        /\ \A q \in Phase \ {p} : outcome'[current][q] = outcome[current][q]
        /\ Fits(current) /\ owned'[current] = owned[current]
    BY <1>c, <2>1 DEF Outcomes
  <2>3. Fits(current)'
    <3>1. CASE p = "custom"
      BY <1>d, <2>1, <2>2, <3>1 DEF Fits, Phase, Outcomes
    <3>2. CASE p = "graceful"
      BY <1>d, <2>1, <2>2, <3>2 DEF Fits, Phase, Outcomes
    <3>3. CASE p = "force"
      BY <1>d, <2>1, <2>2, <3>3 DEF Fits, Phase, Outcomes
    <3> QED BY <3>1, <3>2, <3>3 DEF Phase
  <2> QED BY <1>b, <2>1, <2>3 DEF Outcomes
<1>6. CASE GracefulTimesOut \/ \E p \in Phase, o \in {"ok", "failed"} : CallbackSettles(p, o)
  BY <1>6, <1>d DEF GracefulTimesOut, CallbackSettles, Phase
<1>7. CASE \/ OwnReturns \/ Close \/ Dispose \/ Abandon \/ Finish \/ UNCHANGED vars
           \/ \E call \in Call : OwnBegins(call)
           \/ \E resource \in Resource : Release(resource)
           \/ \E r \in Registration : GcFires(r)
  <2>1. UNCHANGED <<outcome, current, disposed>>
    BY <1>7 DEF OwnReturns, Push, Close, Dispose, DisposeTaking, Abandon, Finish, vars,
       OwnBegins, Release, GcFires, loop
  <2> QED BY <1>2, <2>1
<1> QED BY <1>3, <1>4, <1>5, <1>6, <1>7 DEF Next

ScopeInv == IInv /\ CountInv /\ ChainInv

LEMMA ScopeInvariance == ASSUME GetterMay = {} PROVE Spec => []ScopeInv
<1>1. Init => CountInv /\ ChainInv
  BY ConstantsAssumption DEF Init, CountInv, ChainInv, Outcomes, Phase, None
<1>2. ScopeInv /\ [Next]_vars => ScopeInv'
  BY StepInv, CountStep, ChainStep DEF ScopeInv, IInv
<1> QED BY <1>1, <1>2, InitInv, PTL DEF Spec, ScopeInv

\* Everything released was released along the chain its descriptor declares:
\* force follows graceful exactly when that failed or ran out of time.
THEOREM DegradeChainHolds == ASSUME GetterMay = {} PROVE Spec => []DegradeChain
<1>1. ScopeInv => DegradeChain
  <2> SUFFICES ASSUME ScopeInv, NEW r \in disposed
               PROVE  LET called == {p \in Phase : outcome[r][p] # "not_called"}
                          chain  == owned[r].descriptor.chain
                      IN  /\ called = IF chain = "graceful" /\ outcome[r]["graceful"] # "ok"
                                      THEN {"graceful", "force"} ELSE {chain}
                          /\ \A p \in called : outcome[r][p] \in {"ok", "failed", "timed_out"}
                          /\ outcome[r]["force"] # "timed_out"
    BY DEF DegradeChain
  <2>1. /\ Fits(r) /\ r \in DOMAIN owned
        /\ \A p \in Phase : outcome[r][p] # "running"
        /\ \A p \in Phase : p \notin Due(r)
    BY DEF ScopeInv, IInv, PlaceInv, ChainInv, Waiting
  <2>2. owned[r].descriptor.chain \in Phase
    <3>1. owned[r] \in Call
      BY <2>1 DEF ScopeInv, IInv, SeqInv
    <3>2. owned[r].descriptor \in Descriptor
      BY <3>1 DEF Call
    <3> QED BY <3>2, ConstantsAssumption DEF Phase
  <2>3. /\ outcome[r][owned[r].descriptor.chain] # "not_called"
        /\ owned[r].descriptor.chain = "graceful"
             /\ outcome[r]["graceful"] \in {"failed", "timed_out"}
           => outcome[r]["force"] # "not_called"
    BY <2>1, <2>2 DEF Due, DueAfter, Phase
  <2> QED BY <2>1, <2>2, <2>3 DEF Fits, Phase, Outcomes
<1> QED BY <1>1, ScopeInvariance, PTL

-----------------------------------------------------------------------------
(* Failures.                                                               *)

Distinct(s) == \A i, j \in 1 .. Len(s) : s[i] = s[j] => i = j

\* What is in a concatenation, and that it repeats nothing.
LEMMA MembersConcat ==
    ASSUME NEW S, NEW s \in Seq(S), NEW t \in Seq(S)
    PROVE  /\ Members(s \o t) = Members(s) \cup Members(t)
           /\ Distinct(s) /\ Distinct(t) /\ Members(s) \cap Members(t) = {} => Distinct(s \o t)
<1>1. /\ s \o t \in Seq(S) /\ Len(s \o t) = Len(s) + Len(t)
      /\ \A i \in 1 .. Len(s) + Len(t) :
           (s \o t)[i] = IF i <= Len(s) THEN s[i] ELSE t[i - Len(s)]
  BY ConcatProperties
<1>2. /\ Members(s) = {s[i] : i \in 1 .. Len(s)} /\ Members(t) = {t[i] : i \in 1 .. Len(t)}
      /\ Members(s \o t) = {(s \o t)[i] : i \in 1 .. Len(s) + Len(t)}
      /\ Len(s) \in Nat /\ Len(t) \in Nat
  BY <1>1 DEF Members
<1>3. Members(s \o t) \subseteq Members(s) \cup Members(t)
  BY <1>1, <1>2
<1>4. ASSUME NEW i \in 1 .. Len(s) PROVE s[i] \in Members(s \o t)
  BY <1>1, <1>2
<1>5. ASSUME NEW i \in 1 .. Len(t) PROVE t[i] \in Members(s \o t)
  <2>1. i + Len(s) \in 1 .. Len(s) + Len(t) /\ (s \o t)[i + Len(s)] = t[i]
    BY <1>1, <1>2
  <2> QED BY <1>2, <2>1
<1>6. ASSUME Distinct(s), Distinct(t), Members(s) \cap Members(t) = {},
             NEW i \in 1 .. Len(s \o t), NEW j \in 1 .. Len(s \o t), (s \o t)[i] = (s \o t)[j]
      PROVE  i = j
  <2>1. CASE i <= Len(s) /\ j <= Len(s)
    BY <1>1, <1>2, <1>6, <2>1 DEF Distinct
  <2>2. CASE i > Len(s) /\ j > Len(s)
    <3>1. i - Len(s) \in 1 .. Len(t) /\ j - Len(s) \in 1 .. Len(t)
      BY <1>1, <1>2, <2>2
    <3>2. t[i - Len(s)] = t[j - Len(s)]
      BY <1>1, <1>2, <1>6, <2>2
    <3>3. i - Len(s) = j - Len(s)
      BY <1>6, <3>1, <3>2 DEF Distinct
    <3> QED BY <1>2, <3>3, <1>1
  <2>3. ASSUME NEW m \in 1 .. Len(s \o t), NEW n \in 1 .. Len(s \o t), m <= Len(s), n > Len(s)
        PROVE  (s \o t)[m] # (s \o t)[n]
    <3>1. (s \o t)[m] \in Members(s)
      BY <1>1, <1>2, <2>3
    <3>2. n - Len(s) \in 1 .. Len(t) /\ (s \o t)[n] = t[n - Len(s)]
      BY <1>1, <1>2, <2>3
    <3> QED BY <1>2, <1>6, <3>1, <3>2
  <2> QED BY <1>1, <1>2, <1>6, <2>1, <2>2, <2>3
<1>7. Members(s \o t) = Members(s) \cup Members(t)
  BY <1>2, <1>3, <1>4, <1>5
<1>8. Distinct(s) /\ Distinct(t) /\ Members(s) \cap Members(t) = {} => Distinct(s \o t)
  BY <1>6 DEF Distinct
<1> QED BY <1>7, <1>8

Failed(R) == {f \in Failure : f[1] \in R /\ outcome[f[1]][f[2]] = "failed"}

\* The failures of a registration, each once.
LEMMA FailuresListed ==
    ASSUME NEW r \in Registration
    PROVE  /\ FailuresOf(r) \in Seq(Failure) /\ Distinct(FailuresOf(r))
           /\ Members(FailuresOf(r)) = Failed({r})
<1> DEFINE Of(p) == IF outcome[r][p] = "failed" THEN << <<r, p>> >> ELSE <<>>
           In(p) == IF outcome[r][p] = "failed" THEN {<<r, p>>} ELSE {}
<1>1. ASSUME NEW p \in Phase
      PROVE  Of(p) \in Seq(Failure) /\ Members(Of(p)) = In(p) /\ Distinct(Of(p))
  <2>1. <<r, p>> \in Failure
    BY DEF Failure
  <2>2. CASE outcome[r][p] = "failed"
    <3>1. /\ << <<r, p>> >> \in Seq(Failure) /\ DOMAIN << <<r, p>> >> = 1 .. 1
          /\ Len(<< <<r, p>> >>) = 1 /\ << <<r, p>> >>[1] = <<r, p>>
      BY <2>1
    <3>2. Members(<< <<r, p>> >>) = {<<r, p>>}
      BY <3>1 DEF Members
    <3> QED BY <2>2, <3>1, <3>2 DEF Distinct
  <2>3. CASE outcome[r][p] # "failed"
    BY <2>3 DEF Members, Distinct
  <2> QED BY <2>2, <2>3
<1>2. {"custom", "graceful", "force"} = Phase
  BY DEF Phase
<1>3. FailuresOf(r) = Of("custom") \o Of("graceful") \o Of("force")
  BY DEF FailuresOf
<1>4. \A p, q \in Phase : p # q => In(p) \cap In(q) = {}
  OBVIOUS
<1>5. Failed({r}) = In("custom") \cup In("graceful") \cup In("force")
  BY <1>2 DEF Failed, Failure
<1> HIDE DEF Of, In
<1>6. /\ Of("custom") \o Of("graceful") \in Seq(Failure)
      /\ Members(Of("custom") \o Of("graceful")) = In("custom") \cup In("graceful")
      /\ Distinct(Of("custom") \o Of("graceful"))
  BY <1>1, <1>2, <1>4, MembersConcat, ConcatProperties
<1>7. (In("custom") \cup In("graceful")) \cap In("force") = {}
  BY <1>2, <1>4
<1> DEFINE two == Of("custom") \o Of("graceful")
<1> HIDE DEF two
<1>8. /\ two \in Seq(Failure) /\ Members(two) = In("custom") \cup In("graceful")
      /\ Distinct(two) /\ FailuresOf(r) = two \o Of("force")
  BY <1>3, <1>6 DEF two
<1>9. /\ Of("force") \in Seq(Failure) /\ Members(Of("force")) = In("force")
      /\ Distinct(Of("force"))
  BY <1>1, <1>2
<1>10. FailuresOf(r) \in Seq(Failure)
  BY <1>8, <1>9, ConcatProperties
<1>11. Members(two) \cap Members(Of("force")) = {}
  BY <1>7, <1>8, <1>9
<1>12. Distinct(two \o Of("force"))
  BY <1>8, <1>9, <1>11, MembersConcat
<1>13. Members(two \o Of("force")) = Members(two) \cup Members(Of("force"))
  BY <1>8, <1>9, MembersConcat
<1> QED BY <1>5, <1>8, <1>9, <1>10, <1>12, <1>13

\* The collector divides the failures of an item.
LEMMA Divided ==
    ASSUME NEW s \in Seq(Failure), Distinct(s)
    PROVE  /\ ToKeep(s) \in Seq(Failure)
           /\ Members(ToKeep(s)) \cup ToReporter(s) = Members(s)
           /\ Members(ToKeep(s)) \cap ToReporter(s) = {}
<1>1. Members(<<>>) = {} /\ <<>> \in Seq(Failure)
  BY DEF Members
<1>2. CASE policy = "report"
  BY <1>1, <1>2 DEF ToKeep, ToReporter
<1>3. CASE policy = "firstError" /\ errors = <<>> /\ s # <<>>
  <2>1. /\ Len(s) \in Nat \ {0} /\ Tail(s) \in Seq(Failure) /\ Len(Tail(s)) = Len(s) - 1
        /\ \A i \in 1 .. Len(s) - 1 : Tail(s)[i] = s[i + 1]
        /\ Head(s) = s[1] /\ Head(s) \in Failure
    BY <1>3
  <2>2. /\ Members(s) = {s[i] : i \in 1 .. Len(s)}
        /\ Members(Tail(s)) = {Tail(s)[i] : i \in 1 .. Len(s) - 1}
    <3>1. DOMAIN Tail(s) = 1 .. Len(s) - 1 /\ DOMAIN s = 1 .. Len(s)
      BY <2>1
    <3> QED BY <3>1 DEF Members
  <2>3. Members(s) \subseteq {Head(s)} \cup Members(Tail(s))
    <3>1. ASSUME NEW i \in 1 .. Len(s), i # 1 PROVE s[i] \in Members(Tail(s))
      <4>1. i - 1 \in 1 .. Len(s) - 1 /\ Tail(s)[i - 1] = s[i]
        BY <2>1, <3>1
      <4> QED BY <2>2, <4>1
    <3> QED BY <2>1, <2>2, <3>1
  <2>4. {Head(s)} \cup Members(Tail(s)) \subseteq Members(s)
    BY <2>1, <2>2
  <2>5. Head(s) \notin Members(Tail(s))
    <3>1. ASSUME NEW i \in 1 .. Len(s) - 1 PROVE Tail(s)[i] # s[1]
      BY <2>1, <3>1 DEF Distinct
    <3> QED BY <2>1, <2>2, <3>1
  <2>6. ToKeep(s) = <<Head(s)>> /\ ToReporter(s) = Members(Tail(s))
    BY <1>3 DEF ToKeep, ToReporter
  <2>7. Members(<<Head(s)>>) = {Head(s)} /\ <<Head(s)>> \in Seq(Failure)
    <3>1. /\ <<Head(s)>> \in Seq(Failure) /\ DOMAIN <<Head(s)>> = 1 .. 1
          /\ <<Head(s)>>[1] = Head(s)
      BY <2>1
    <3> QED BY <3>1 DEF Members
  <2> QED BY <2>3, <2>4, <2>5, <2>6, <2>7
<1>4. CASE policy = "firstError" /\ ~(errors = <<>> /\ s # <<>>)
  BY <1>1, <1>4 DEF ToKeep, ToReporter
<1>5. CASE policy \notin {"report", "firstError"}
  BY <1>5 DEF ToKeep, ToReporter
<1> QED BY <1>2, <1>3, <1>4, <1>5

\* The collector and the reporter together have the failures of what has been
\* released, and the promise carries what the collector kept.
FailureInv ==
    /\ errors \in Seq(Failure)
    /\ reported \cup Members(errors) = Failed(disposed)
    /\ reported \cap Members(errors) = {}
    /\ Ended => /\ delivered = Members(errors) /\ plan = {} /\ current = None
                /\ disposePromise = "rejected" <=> Rejects

LEMMA FailureStep ==
    ASSUME ScopeInv, ScopeInv', FailureInv, [Next]_vars
    PROVE  FailureInv'
<1>0. /\ disposed \subseteq Registration /\ current \in Registration \cup {None}
      /\ current \notin disposed /\ None \notin Registration /\ policy' = policy
      /\ DOMAIN owned \subseteq Registration
  <2>1. DOMAIN owned \subseteq Registration
    BY OwnedKept DEF ScopeInv, IInv
  <2>2. policy' = policy
    BY DEF Next, vars, Close, Dispose, DisposeTaking, Abandon, GracefulTimesOut, Settles,
       ItemDone, Finish, Release, BeginItem, GcFires, CallPhase, CallbackSettles, registry,
       OwnBegins, OwnReturns, Push
  <2>3. None \notin Registration
    BY DEF None, Registration
  <2> QED BY <2>1, <2>2, <2>3 DEF ScopeInv, IInv, PlaceInv
\* A callback of the registration being released changes no other outcome.
<1>a. ASSUME UNCHANGED <<errors, reported, delivered, disposed, disposePromise, plan, current>>,
             \A r \in disposed : outcome'[r] = outcome[r]
      PROVE  FailureInv'
  <2>1. Failed(disposed)' = Failed(disposed)
    BY <1>a DEF Failed
  <2> QED BY <1>0, <1>a, <2>1 DEF FailureInv, Ended, Rejects
<1>1. CASE ItemDone
  <2> DEFINE s == FailuresOf(current)
  <2>1. /\ current \in Registration /\ reported' = reported \cup ToReporter(s)
        /\ errors' = errors \o ToKeep(s) /\ disposed' = disposed \cup {current}
        /\ outcome' = outcome /\ disposePromise' = disposePromise
    BY <1>0, <1>1 DEF ItemDone
  <2>2. ~Ended
    BY <1>1 DEF ItemDone, FailureInv
  <2>3. s \in Seq(Failure) /\ Distinct(s) /\ Members(s) = Failed({current})
    BY <2>1, FailuresListed
  <2> HIDE DEF s
  <2>4. /\ ToKeep(s) \in Seq(Failure) /\ Members(ToKeep(s)) \cup ToReporter(s) = Failed({current})
        /\ Members(ToKeep(s)) \cap ToReporter(s) = {}
    BY <2>3, Divided
  <2>5. errors' \in Seq(Failure) /\ Members(errors') = Members(errors) \cup Members(ToKeep(s))
    BY <2>1, <2>4, MembersConcat, ConcatProperties DEF FailureInv
  <2>6. Failed(disposed)' = Failed(disposed) \cup Failed({current})
    BY <2>1 DEF Failed
  <2>7. Failed(disposed) \cap Failed({current}) = {}
    BY <1>0 DEF Failed
  <2>8. Members(errors)' = Members(errors')
    BY DEF Members
  <2> QED BY <2>1, <2>2, <2>4, <2>5, <2>6, <2>7, <2>8 DEF FailureInv, Ended
<1>2. CASE Finish
  <2>1. /\ plan = {} /\ current = None /\ delivered' = Members(errors)
        /\ disposePromise' = IF Rejects THEN "rejected" ELSE "resolved"
        /\ UNCHANGED <<errors, reported, disposed, outcome, plan, current>>
    BY <1>2 DEF Finish
  <2>2. /\ Failed(disposed)' = Failed(disposed) /\ Members(errors)' = Members(errors)
        /\ Rejects' = Rejects
    BY <1>0, <2>1 DEF Failed, Members, Rejects
  <2> QED BY <2>1, <2>2 DEF FailureInv
<1>3. CASE Dispose
  BY <1>0, <1>3 DEF Dispose, DisposeTaking, FailureInv, Ended, Failed, Members
<1>4. CASE \E r \in Registration : BeginItem(r)
  <2>1. /\ ~Ended /\ UNCHANGED <<errors, reported, disposed, outcome, disposePromise>>
    BY <1>4 DEF BeginItem, FailureInv
  <2> QED BY <2>1 DEF FailureInv, Ended, Failed, Members
<1>b. ASSUME NEW p, NEW o, SetOutcome(p, o), current # None,
             UNCHANGED <<errors, reported, delivered, disposed, disposePromise, plan, current>>
      PROVE  FailureInv'
  <2>1. \A r \in disposed : outcome'[r] = outcome[r]
    BY <1>0, <1>b DEF SetOutcome, ScopeInv, ChainInv
  <2> QED BY <1>a, <1>b, <2>1
<1>5. CASE \E act \in {"returns", "throws", "waits", "joins"} : CallPhase(act)
  BY <1>5, <1>b DEF CallPhase
<1>6. CASE GracefulTimesOut \/ \E p \in Phase, o \in {"ok", "failed"} : CallbackSettles(p, o)
  BY <1>6, <1>b DEF GracefulTimesOut, CallbackSettles, Settles
<1>7. CASE \/ OwnReturns \/ Close \/ Abandon \/ UNCHANGED vars
           \/ \E call \in Call : OwnBegins(call)
           \/ \E resource \in Resource : Release(resource)
           \/ \E r \in Registration : GcFires(r)
  <2>1. UNCHANGED <<errors, reported, delivered, disposed, disposePromise, plan, current, outcome>>
    BY <1>7 DEF OwnReturns, Push, Close, Abandon, vars, OwnBegins,
       Release, GcFires, loop
  <2> QED BY <1>a, <2>1
<1> QED BY <1>1, <1>2, <1>3, <1>4, <1>5, <1>6, <1>7 DEF Next

\* The failures of a force phase are told the moment they happen.
Diagnosed ==
    diagnosed = {f \in Failure : f[2] = "force" /\ outcome[f[1]][f[2]] = "failed"}

\* A phase that is called, or that settles, has not failed before.
LEMMA NotYetFailed ==
    ASSUME ScopeInv, NEW p \in Phase, NEW o, current # None,
           outcome[current][p] \in {"not_called", "running"}, SetOutcome(p, o), Diagnosed
    PROVE  Diagnosed'
<1>1. /\ outcome \in [Registration -> [Phase -> Outcomes]] /\ current \in Registration
  <2>1. DOMAIN owned \subseteq Registration
    <3>1. /\ owned \in Seq(Call) /\ admitting \in Seq(Call) /\ Len(owned) \in Nat
          /\ Len(admitting) \in Nat /\ MaxOwn \in Nat
      BY ConstantsAssumption DEF ScopeInv, IInv, SeqInv
    <3> QED BY <3>1 DEF ScopeInv, CountInv, Registration
  <2> QED BY <2>1 DEF ScopeInv, IInv, PlaceInv, ChainInv
<1>2. ASSUME NEW f \in Failure
      PROVE  outcome'[f[1]][f[2]] = IF f = <<current, p>> THEN o ELSE outcome[f[1]][f[2]]
  <2>1. f[1] \in Registration /\ f[2] \in Phase /\ f = <<f[1], f[2]>>
    BY DEF Failure
  <2> QED BY <1>1, <2>1 DEF SetOutcome
<1>3. <<current, p>> \in Failure /\ <<current, p>>[1] = current /\ <<current, p>>[2] = p
  BY <1>1 DEF Failure
<1>4. CASE p = "force" /\ o = "failed"
  <2>1. diagnosed' = diagnosed \cup {<<current, p>>}
    BY <1>4 DEF SetOutcome
  <2> QED BY <1>2, <1>3, <1>4, <2>1 DEF Diagnosed
<1>5. CASE p # "force" \/ o # "failed"
  <2>1. diagnosed' = diagnosed
    BY <1>5 DEF SetOutcome
  <2> QED BY <1>2, <1>3, <1>5, <2>1 DEF Diagnosed
<1> QED BY <1>4, <1>5

LEMMA DiagnosedStep == ASSUME ScopeInv, Diagnosed, [Next]_vars PROVE Diagnosed'
<1>1. CASE \E act \in {"returns", "throws", "waits", "joins"} : CallPhase(act)
  BY <1>1, NotYetFailed DEF CallPhase, Due, DueAfter
<1>2. ASSUME NEW p \in Phase, NEW o, Settles(p, o) PROVE Diagnosed'
  BY <1>2, NotYetFailed DEF Settles
<1>3. CASE GracefulTimesOut \/ \E p \in Phase, o \in {"ok", "failed"} : CallbackSettles(p, o)
  BY <1>2, <1>3 DEF GracefulTimesOut, CallbackSettles, Phase
<1>4. CASE \/ OwnReturns \/ Close \/ Dispose \/ Abandon \/ ItemDone \/ Finish \/ UNCHANGED vars
           \/ \E call \in Call : OwnBegins(call)
           \/ \E resource \in Resource : Release(resource)
           \/ \E r \in Registration : BeginItem(r) \/ GcFires(r)
  <2>1. UNCHANGED <<outcome, diagnosed>>
    BY <1>4 DEF OwnReturns, Push, Close, Dispose, DisposeTaking, Abandon, ItemDone, Finish, vars,
       OwnBegins, Release, BeginItem, GcFires, loop
  <2> QED BY <2>1 DEF Diagnosed
<1> QED BY <1>1, <1>3, <1>4 DEF Next

LEMMA FailureInvariance ==
    ASSUME GetterMay = {} PROVE Spec => [](ScopeInv /\ FailureInv /\ Diagnosed)
<1>1. Init => FailureInv
  BY DEF Init, FailureInv, Ended, Failed, Members
<1>2. Init => Diagnosed
  BY DEF Init, Diagnosed, Failure
<1>3. ScopeInv /\ ScopeInv' /\ FailureInv /\ [Next]_vars => FailureInv'
  BY FailureStep
<1>4. ScopeInv /\ Diagnosed /\ [Next]_vars => Diagnosed'
  BY DiagnosedStep
<1> QED BY <1>1, <1>2, <1>3, <1>4, ScopeInvariance, PTL DEF Spec

\* When dispose() has settled, the collector has told the caller of every failed
\* callback once, through the promise or the reporter; the reporter was told of
\* every failed force besides; and the promise rejects exactly when the policy
\* says so.
THEOREM FailuresSurfaceHolds == ASSUME GetterMay = {} PROVE Spec => []FailuresSurface
<1>1. ScopeInv /\ FailureInv /\ Diagnosed => FailuresSurface
  <2> SUFFICES ASSUME ScopeInv, FailureInv, Diagnosed, Ended
               PROVE  FailuresSurface
    BY DEF FailuresSurface
  <2> DEFINE failed == {f \in Failure : outcome[f[1]][f[2]] = "failed"}
  <2>1. /\ delivered = Members(errors) /\ current = None
        /\ disposePromise = "rejected" <=> Rejects
    BY DEF FailureInv
  <2>2. \A f \in Failure : outcome[f[1]][f[2]] = "failed" => f[1] \in disposed
    <3> SUFFICES ASSUME NEW f \in Failure, f[1] \notin disposed
                 PROVE  outcome[f[1]][f[2]] # "failed"
      OBVIOUS
    <3>1. f[1] \in Registration /\ f[2] \in Phase /\ f[1] # None
      BY DEF Failure, Registration, None
    <3> QED BY <2>1, <3>1 DEF ScopeInv, ChainInv
  <2>3. Failed(disposed) = failed
    BY <2>2 DEF Failed
  <2>4. errors # <<>> <=> Members(errors) # {}
    BY DEF FailureInv, Members
  <2>5. diagnosed = {f \in failed : f[2] = "force"}
    BY DEF Diagnosed
  <2>6. /\ reported \cup delivered = failed /\ reported \cap delivered = {}
        /\ disposePromise = "rejected" <=>
               policy \in {"throw", "firstError"} /\ delivered # {}
    BY <2>1, <2>3, <2>4 DEF FailureInv, Rejects
  <2> QED BY <2>5, <2>6 DEF FailuresSurface
<1> QED BY <1>1, FailureInvariance, PTL

-----------------------------------------------------------------------------
(* The scope is an owner as ReleaseLedger states it.                       *)

LEMMA LedgerStep ==
    ASSUME ScopeInv, ScopeInv', [Next]_vars
    PROVE  [Ledger!Next]_(Ledger!vars)
<1>0. /\ DOMAIN owned \subseteq Registration /\ DOMAIN owned \subseteq DOMAIN owned'
      /\ \A r \in DOMAIN owned : owned'[r] = owned[r]
      /\ entries \cup plan \cup handedBack \cup disposed \subseteq DOMAIN owned
      /\ collected \subseteq entries /\ None \notin DOMAIN owned
  BY OwnedKept DEF ScopeInv, IInv, PlaceInv, GcInv
<1>i. Ledger!Registration = Registration
  BY DEF Ledger!Registration, Registration
<1>1. CASE OwnReturns
  <2>1. /\ admitting # <<>> /\ owned' = Append(owned, admitting[Len(admitting)])
        /\ entries' = entries \cup {Len(owned) + 1}
        /\ UNCHANGED <<disposePromise, handedBack, collected, plan, current, disposed>>
    BY <1>1 DEF OwnReturns, Push, loop
  <2>2. disposePromise = "none"
    BY <2>1 DEF ScopeInv, IInv, DisposeInv
  <2>3. /\ owned \in Seq(Call) /\ owned' \in Seq(Call) /\ admitting[Len(admitting)] \in Call
    BY <2>1 DEF ScopeInv, IInv, SeqInv
  <2>4. /\ Len(owned) + 1 \notin DOMAIN owned /\ DOMAIN owned' = DOMAIN owned \cup {Len(owned) + 1}
        /\ Len(owned) + 1 \in Registration
    <3>1. Len(owned) \in Nat /\ DOMAIN owned = 1 .. Len(owned) /\ Len(owned') = Len(owned) + 1
          /\ DOMAIN owned' = 1 .. Len(owned')
      BY <2>1, <2>3
    <3>2. DOMAIN owned' \subseteq Registration
      BY <3>1, ConstantsAssumption DEF ScopeInv, IInv, SeqInv, CountInv, Registration
    <3> QED BY <3>1, <3>2
  <2> PICK r \in Registration : r = Len(owned) + 1
    BY <2>4
  <2>5. r \notin ((entries \cup plan) \ collected) \cup ({current} \ {None})
                 \cup (handedBack \cup disposed \cup collected)
    BY <1>0, <2>4 DEF ScopeInv, IInv, PlaceInv
  <2>6. DeclaredOrder' = [DeclaredOrder EXCEPT ![r] = DeclaredOrder'[r]]
    BY <1>0, <2>4 DEF DeclaredOrder
  <2>7. Ledger!Take(r)
    <3>1. (entries' \cup plan') \ collected' = ((entries \cup plan) \ collected) \cup {r}
      BY <1>0, <2>1, <2>4
    <3>2. UNCHANGED <<disposePromise = "none", {current} \ {None},
                     handedBack \cup disposed \cup collected>>
      BY <2>1
    <3> QED BY <2>2, <2>5, <2>6, <3>1, <3>2 DEF Ledger!Take
  <2> QED BY <1>i, <2>7 DEF Ledger!Next
<1>2. CASE Dispose
  <2>1. /\ disposePromise = "none" /\ disposePromise' = "pending" /\ plan' = entries
        /\ entries' = {} /\ UNCHANGED <<owned, handedBack, collected, current, disposed>>
    BY <1>2 DEF Dispose, DisposeTaking
  <2>2. plan = {}
    BY <2>1 DEF ScopeInv, IInv, DisposeInv
  <2>3. Ledger!Close
    BY <2>1, <2>2 DEF Ledger!Close, DeclaredOrder
  <2> QED BY <2>3 DEF Ledger!Next
<1>3. ASSUME NEW resource \in Resource, Release(resource) PROVE Ledger!Next
  <2>1. PICK r \in entries : entries' = entries \ {r} /\ handedBack' = handedBack \cup {r}
    BY <1>3 DEF Release
  <2>2. /\ ~abandoned /\ UNCHANGED <<owned, disposePromise, collected, plan, current, disposed>>
    BY <1>3 DEF Release, UserRuns, loop
  <2>3. collected = {} /\ current = None
    BY <2>1, <2>2 DEF ScopeInv, IInv, GcInv, DisposeInv
  <2>4. r \notin plan /\ r \in Registration
    BY <1>0 DEF ScopeInv, IInv, PlaceInv
  <2>5. Ledger!HandBack(r)
    BY <2>1, <2>2, <2>3, <2>4 DEF Ledger!HandBack, DeclaredOrder
  <2> QED BY <1>i, <2>4, <2>5 DEF Ledger!Next
<1>4. ASSUME NEW r \in Registration, GcFires(r) PROVE Ledger!Next
  <2>1. /\ r \in armed /\ collected' = collected \cup {r}
        /\ UNCHANGED <<owned, disposePromise, entries, handedBack, plan, current, disposed>>
        /\ abandoned \/ \A q \in entries : owned[q].resource # owned[r].resource
    BY <1>4 DEF GcFires, loop
  <2>2. r \in entries \ collected /\ abandoned
    BY <2>1 DEF ScopeInv, IInv, GcInv
  <2>3. plan = {} /\ current = None
    BY <2>2 DEF ScopeInv, IInv, GcInv, DisposeInv
  <2>4. Ledger!HandBack(r)
    BY <2>1, <2>2, <2>3 DEF Ledger!HandBack, DeclaredOrder
  <2> QED BY <1>i, <2>4 DEF Ledger!Next
<1>5. ASSUME NEW r \in Registration, BeginItem(r) PROVE Ledger!Next
  <2>1. /\ current = None /\ r \in plan /\ plan' = plan \ {r} /\ current' = r
        /\ \A q \in plan \ {r} : Precedes(r, q)
        /\ UNCHANGED <<owned, disposePromise, entries, handedBack, collected, disposed>>
    BY <1>5 DEF BeginItem, registry
  <2>2. disposePromise # "none" /\ entries = {} /\ collected = {} /\ r # None
    BY <1>0, <2>1 DEF ScopeInv, IInv, DisposeInv
  <2>3. \A q \in plan \ {r} : Ledger!Precedes(r, q)
    BY <1>0, <2>1 DEF Precedes, OrderOf, Ledger!Precedes, DeclaredOrder
  <2>4. Ledger!Release(r)
    BY <2>1, <2>2, <2>3 DEF Ledger!Release, DeclaredOrder
  <2> QED BY <1>i, <2>4 DEF Ledger!Next
<1>6. CASE ItemDone
  <2>1. /\ current # None /\ disposed' = disposed \cup {current} /\ current' = None
        /\ UNCHANGED <<owned, disposePromise, entries, handedBack, collected, plan>>
    BY <1>6 DEF ItemDone, registry
  <2>2. Ledger!Released
    BY <2>1 DEF Ledger!Released, DeclaredOrder
  <2> QED BY <2>2 DEF Ledger!Next
<1>7. CASE Finish
  BY <1>7 DEF Finish, registry, Ledger!vars, DeclaredOrder
<1>8. CASE \/ Close \/ Abandon \/ GracefulTimesOut \/ UNCHANGED vars
           \/ \E call \in Call : OwnBegins(call)
           \/ \E act \in {"returns", "throws", "waits", "joins"} : CallPhase(act)
           \/ \E p \in Phase, o \in {"ok", "failed"} : CallbackSettles(p, o)
  <2>1. UNCHANGED <<owned, disposePromise, entries, handedBack, collected, plan, current, disposed>>
    BY <1>8 DEF Close, Abandon, GracefulTimesOut, CallbackSettles, Settles, vars, OwnBegins, CallPhase, registry, loop
  <2> QED BY <2>1 DEF Ledger!vars, DeclaredOrder
<1> QED BY <1>1, <1>2, <1>3, <1>4, <1>5, <1>6, <1>7, <1>8 DEF Next

\* Registrations are taken until dispose(), are handed back or released once,
\* and releases run one at a time, higher order first and newest among equals.
THEOREM RefinesReleaseLedger == ASSUME GetterMay = {} PROVE Spec => ImplementsReleaseLedger
<1>1. Init => Ledger!Init
  BY DEF Init, Ledger!Init, Ledger!Registration, Registration, DeclaredOrder, None
<1>2. ScopeInv /\ ScopeInv' /\ [Next]_vars => [Ledger!Next]_(Ledger!vars)
  BY LedgerStep
<1> QED
  BY <1>1, <1>2, ScopeInvariance, PTL DEF Spec, ImplementsReleaseLedger, Ledger!Spec
=============================================================================
