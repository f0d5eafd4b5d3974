---------------------------- MODULE CommittedLog ----------------------------
(***************************************************************************)
(* What a log store promises its callers, crashes included: one log, never *)
(* lost, which each call changes or looks at in one instant between its    *)
(* start and its answer.  A call that was answered took effect exactly     *)
(* once; one that was refused or cut off took effect at most once.         *)
(***************************************************************************)
EXTENDS LogImage

VARIABLES
  log,   \* the contents
  call   \* each call: its status, its request, the sequences it was assigned
         \* and, of a read, the contents it was shown

logVars == <<log, call>>

\* "done": it took effect, and its caller was not answered yet.
Statuses == {"idle", "pending", "done", "ok", "failed", "lost"}

Call(status, request, seqs, shown) ==
  [status |-> status, request |-> request, seqs |-> seqs, shown |-> shown]

Unmade == Call("idle", Request("read", 0), {}, Empty)

Init ==
  /\ log = Empty
  /\ call = [c \in Calls |-> Unmade]

Is(c, status) == call[c].status = status

Becomes(c, status) == call' = [call EXCEPT ![c].status = status]

\* A store that is closed or failed turns the call away.
Invoke(c) ==
  /\ Is(c, "idle")
  /\ \E r \in Requests, status \in {"pending", "failed"} :
       call' = [call EXCEPT ![c] = Call(status, r, {}, Empty)]
  /\ UNCHANGED log

Effect(c) ==
  /\ Is(c, "pending")
  /\ Admissible(log, call[c].request)
  /\ Writes(log, call[c].request)
  /\ log' = Applied(log, c, call[c].request)

TakeEffect(c) ==
  /\ Effect(c)
  /\ call' = [call EXCEPT ![c].status = "done", ![c].seqs = Assigned(log, call[c].request)]

Answer(c) ==
  /\ Is(c, "done")
  /\ Becomes(c, "ok")
  /\ UNCHANGED log

\* A query is shown the log of this instant.
Look(c) ==
  /\ Is(c, "pending")
  /\ Admissible(log, call[c].request)
  /\ ~Writes(log, call[c].request)
  /\ call' = [call EXCEPT ![c].status = "ok",
                          ![c].shown = IF call[c].request.kind = "read" THEN log ELSE Empty]
  /\ UNCHANGED log

Refuse(c) ==
  /\ Is(c, "pending")
  /\ Becomes(c, "failed")
  /\ UNCHANGED log

\* A refusal that leaves the effect behind: the caller must look before it retries.
Doubt(c) ==
  /\ Effect(c)
  /\ Becomes(c, "failed")

CutOff ==
  /\ call' = [c \in Calls |->
                IF call[c].status \in {"pending", "done"}
                  THEN [call[c] EXCEPT !.status = "lost", !.seqs = {}]
                  ELSE call[c]]
  /\ UNCHANGED log

Next ==
  \/ \E c \in Calls :
       Invoke(c) \/ TakeEffect(c) \/ Answer(c) \/ Look(c) \/ Refuse(c) \/ Doubt(c)
  \/ CutOff

Spec == Init /\ [][Next]_logVars
=============================================================================
