---------------------------- MODULE UnitTeardown ----------------------------
(***************************************************************************)
(* The teardown of one unit (supervision/src: unit-teardown.ts and         *)
(* supervisor-slot.ts).  The slot's scope releases its monitors, the unit, *)
(* the attachments and the lease, in that order; the unit by draining it,  *)
(* asking it to exit, then forcing it, each phase with a deadline.  The    *)
(* launch may still be pending, the unit may exit, appear late or ignore   *)
(* every signal, and a later call may ask for force in any phase.          *)
(*                                                                         *)
(* A deadline and the turns that follow it at once are one step.  Exit     *)
(* facts, diagnostics and errors of callbacks are not modelled: the        *)
(* teardown goes on after each of them.                                    *)
(***************************************************************************)
EXTENDS Naturals

Options == [drain : BOOLEAN,        \* stop.beforeTerminate
            graceful : BOOLEAN,     \* profile.gracefulTermination
            observable : BOOLEAN]   \* launcher capability exit-observation

VARIABLES options,
          launch,       \* "none", "pending", "resolved" or "rejected"
          disappeared,
          retired, mode,
          abandoned,
          at,           \* what the scope is releasing, or the phase of the unit
          forceIssued,
          forcing,      \* the shared force: "none", "waiting" or "over"
          attachments, lease,
          late          \* releases left to be made when the unit disappears

vars == <<options, launch, disappeared, retired, mode, abandoned, at, forceIssued,
          forcing, attachments, lease, late>>

request == <<retired, mode>>
force   == <<abandoned, forceIssued, forcing>>
owned   == <<attachments, lease, late>>

Init ==
  /\ options \in Options
  /\ launch = "none" /\ disappeared = FALSE
  /\ retired = FALSE /\ mode = "force"
  /\ abandoned = FALSE /\ at = "idle"
  /\ forceIssued = FALSE /\ forcing = "none"
  /\ attachments = "held" /\ lease = "held" /\ late = {}

Launched == launch = "resolved"
Running  == Launched /\ ~disappeared

\* forceAndReap(): one force and one reap deadline for all who ask.  In the code
\* "forcing" is set when terminate() has returned; a terminate() that asks for
\* force again is left out.
ForceAndReap ==
  IF forcing # "none" THEN UNCHANGED force
  ELSE IF disappeared THEN forcing' = "over" /\ UNCHANGED <<abandoned, forceIssued>>
  ELSE /\ forceIssued' = TRUE
       /\ abandoned' = (abandoned \/ ~options.observable)
       /\ forcing' = IF options.observable THEN "waiting" ELSE "over"

-----------------------------------------------------------------------------
(* The unit.                                                               *)

\* A callback that throws before the launch leaves it "none".
LaunchBegins ==
  /\ launch = "none" /\ ~disappeared /\ at \in {"idle", "monitors"}
  /\ launch' = "pending"
  /\ UNCHANGED <<options, disappeared, request, at, force, owned>>

\* Faulty variant: a unit that appears too late is left alone.
LateLaunchIgnored ==
  /\ launch = "pending"
  /\ launch' = "resolved"
  /\ UNCHANGED <<options, disappeared, request, at, force, owned>>

LaunchResolves ==
  /\ launch = "pending"
  /\ launch' = "resolved"
  /\ IF abandoned THEN ForceAndReap ELSE UNCHANGED force
  /\ UNCHANGED <<options, disappeared, request, at, owned>>

LaunchRejects ==
  /\ launch = "pending"
  /\ launch' = "rejected" /\ disappeared' = TRUE
  /\ UNCHANGED <<options, request, at, force, owned>>

\* The exit is observed before anybody who waits for it goes on.
Exits ==
  /\ Running
  /\ disappeared' = TRUE
  /\ forcing' = IF forcing = "waiting" THEN "over" ELSE forcing
  /\ UNCHANGED <<options, launch, request, at, abandoned, forceIssued, owned>>

-----------------------------------------------------------------------------
(* retire(): the first call starts the teardown, a later one may only      *)
(* upgrade it to force.                                                    *)

Retire(wanted) ==
  /\ retired' = TRUE
  /\ mode' = IF retired /\ wanted = "stop" THEN mode ELSE wanted
  /\ at' = IF retired THEN at ELSE "monitors"
  /\ IF wanted = "force" /\ retired /\ Running THEN ForceAndReap ELSE UNCHANGED force
  /\ UNCHANGED <<options, launch, disappeared, owned>>

-----------------------------------------------------------------------------
(* The unit's turn in the scope.                                           *)

\* Monitors go first; without a launch there is nothing to wait for.
MonitorsReleased ==
  /\ at = "monitors"
  /\ IF launch = "none"
       THEN at' = "attachments" /\ disappeared' = TRUE
       ELSE at' = "launch" /\ UNCHANGED disappeared
  /\ UNCHANGED <<options, launch, request, force, owned>>

\* The phase that follows the drain: a graceful exit, or force.
Terminate ==
  IF disappeared THEN at' = "attachments" /\ UNCHANGED force
  ELSE IF mode = "stop" /\ options.graceful THEN at' = "exit" /\ UNCHANGED force
  ELSE at' = "force" /\ ForceAndReap

LaunchSettled ==
  /\ at = "launch" /\ launch # "pending"
  /\ IF launch = "rejected" THEN at' = "attachments" /\ UNCHANGED force
     ELSE IF mode = "stop" /\ options.drain THEN at' = "drain" /\ UNCHANGED force
     ELSE Terminate
  /\ UNCHANGED <<options, launch, disappeared, request, owned>>

LaunchDeadline ==
  /\ at = "launch" /\ launch = "pending"
  /\ at' = "attachments"
  /\ abandoned' = TRUE
  /\ UNCHANGED <<options, launch, disappeared, request, forceIssued, forcing, owned>>

\* The drain settles, fails, times out, or is cut short by an exit or a force.
DrainEnds ==
  /\ at = "drain"
  /\ Terminate
  /\ UNCHANGED <<options, launch, disappeared, request, owned>>

\* Cut short by an exit, or by a force that is under way already.
ExitEnds ==
  /\ at = "exit" /\ (disappeared \/ mode = "force")
  /\ at' = "force"
  /\ UNCHANGED <<options, launch, disappeared, request, force, owned>>

ExitDeadline ==
  /\ at = "exit"
  /\ at' = "force" /\ ForceAndReap
  /\ UNCHANGED <<options, launch, disappeared, request, owned>>

ReapDeadline ==
  /\ forcing = "waiting"
  /\ forcing' = "over" /\ abandoned' = TRUE
  /\ UNCHANGED <<options, launch, disappeared, request, at, forceIssued, owned>>

\* Without a force nothing is awaited.
Reaped ==
  /\ at = "force" /\ forcing # "waiting"
  /\ at' = "attachments"
  /\ UNCHANGED <<options, launch, disappeared, request, force, owned>>

-----------------------------------------------------------------------------
(* The attachments and the lease: after the unit, without waiting for one  *)
(* that was given up.                                                      *)

\* releaseWhenGone()
ReleaseWhenGone(what, next) ==
  /\ at = what
  /\ at' = next
  /\ IF abandoned THEN late' = late \cup {what} ELSE disappeared /\ UNCHANGED late

\* Made now, as the turn says, or owed since the unit was given up.
Releases(what, next) ==
  \/ ReleaseWhenGone(what, next) /\ ~abandoned
  \/ disappeared /\ what \in late /\ late' = late \ {what} /\ UNCHANGED at

Postpone ==
  /\ abandoned
  /\ \/ ReleaseWhenGone("attachments", "lease")
     \/ ReleaseWhenGone("lease", "settled")
  /\ UNCHANGED <<options, launch, disappeared, request, force, attachments, lease>>

ReleaseAttachments ==
  /\ Releases("attachments", "detaching")
  /\ attachments' = "releasing"
  /\ UNCHANGED <<options, launch, disappeared, request, force, lease>>

AttachmentsReleased ==
  /\ attachments = "releasing"
  /\ attachments' = "released"
  /\ at' = IF at = "detaching" THEN "lease" ELSE at
  /\ UNCHANGED <<options, launch, disappeared, request, force, lease, late>>

\* Owed releases are made in the order of their turns.
ReleaseLease ==
  /\ Releases("lease", "settled")
  /\ "attachments" \notin late
  /\ lease' = "released"
  /\ UNCHANGED <<options, launch, disappeared, request, force, attachments>>

-----------------------------------------------------------------------------
Teardown ==
  \/ MonitorsReleased \/ LaunchSettled \/ ExitEnds \/ Reaped
  \/ Postpone \/ ReleaseAttachments \/ AttachmentsReleased \/ ReleaseLease

Deadline == LaunchDeadline \/ DrainEnds \/ ExitDeadline \/ ReapDeadline

Next ==
  \/ LaunchBegins \/ LaunchResolves \/ LaunchRejects \/ Exits
  \/ Retire("stop") \/ Retire("force")
  \/ Teardown \/ Deadline

\* Turns are taken and deadlines pass; no unit has to appear or to exit.
Spec == Init /\ [][Next]_vars /\ WF_vars(Teardown) /\ WF_vars(Deadline)
-----------------------------------------------------------------------------
Slot == INSTANCE UnitSlot WITH
  unit      <- IF disappeared THEN "gone" ELSE IF Launched THEN "running" ELSE "launching",
  forced    <- forceIssued,
  settled   <- at = "settled",
  leased    <- lease = "held"

\* To the supervisor and the budget the teardown is such a slot.  Its retirement
\* ends although the unit ignores every signal, and not before the unit is gone or
\* given up; a unit is given up only once it was forced, and one that appears after
\* that is forced as well; the lease comes back when the unit has exited.
Implements == Slot!Spec
=============================================================================
