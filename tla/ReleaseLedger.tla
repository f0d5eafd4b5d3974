---------------------------- MODULE ReleaseLedger ----------------------------
(***************************************************************************)
(* What an owner of resources promises: a registration is taken while the  *)
(* owner is open, is handed back or released exactly once, and releases    *)
(* run one at a time -- higher order first, newest first among equals.     *)
(***************************************************************************)
EXTENDS Integers

CONSTANT MaxOwn         \* registrations are numbered 1 .. MaxOwn as they are made

Registration == 1 .. MaxOwn

VARIABLES open,         \* the owner still takes registrations
          order,        \* registration -> its declared order
          held,         \* owned registrations
          releasing,    \* the registration being released, if any
          gone          \* registrations handed back or released

vars == <<open, order, held, releasing, gone>>

Init ==
    /\ open = TRUE /\ order = [r \in Registration |-> 0]
    /\ held = {} /\ releasing = {} /\ gone = {}

\* The order of a registration is its declared one, and never changes.
Take(r) ==
    /\ open /\ r \notin held \cup releasing \cup gone
    /\ held' = held \cup {r}
    /\ order' = [order EXCEPT ![r] = order'[r]]
    /\ UNCHANGED <<open, releasing, gone>>

Close == open' = FALSE /\ UNCHANGED <<order, held, releasing, gone>>

HandBack(r) ==
    /\ r \in held /\ releasing = {}
    /\ held' = held \ {r} /\ gone' = gone \cup {r}
    /\ UNCHANGED <<open, order, releasing>>

Precedes(q, r) == order[q] > order[r] \/ (order[q] = order[r] /\ q > r)

Release(r) ==
    /\ ~open /\ r \in held /\ releasing = {}
    /\ \A q \in held \ {r} : Precedes(r, q)
    /\ held' = held \ {r} /\ releasing' = {r}
    /\ UNCHANGED <<open, order, gone>>

Released ==
    /\ releasing # {}
    /\ gone' = gone \cup releasing /\ releasing' = {}
    /\ UNCHANGED <<open, order, held>>

Next ==
    \/ Close \/ Released
    \/ \E r \in Registration :
        HandBack(r) \/ Release(r) \/ Take(r)

Spec == Init /\ [][Next]_vars
=============================================================================
