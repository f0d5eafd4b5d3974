----------------------------- MODULE LatestRequest -----------------------------
(***************************************************************************)
(* What a generation controller holds, for which request, and what callers,*)
(* the scheduler and the parent signal may rely on whenever no operation   *)
(* is in progress.  GenerationController says how it gets there.           *)
(***************************************************************************)
EXTENDS Naturals

CONSTANT MaxBegins  \* bound on the number of begin() calls

Request == 1 .. MaxBegins
None    == 0

VARIABLES current,      \* the request of currentToken, or None
          controller,   \* the request of currentController, or None
          timer,        \* the request that currentTimer was scheduled for, or None
          registration, \* the request of currentParentRegistration, or None
          disposed,
          parentAborted,
          timers,       \* requests whose timeout the scheduler still holds
          listeners,    \* requests listening to the parent signal
          status,       \* request -> how far its begin() has come
          aborted,      \* requests whose signal is aborted
          completed,    \* requests released by complete()
          uncancelled,  \* requests whose timer a throwing cancel() left armed
          unremoved,    \* requests whose listener a throwing removal left behind
          stack         \* operations in progress, innermost last

Idle == stack = <<>>

Some(r) == {r} \ {None}

\* "makes the previous request stale by aborting its signal": once an operation
\* is over, a returned request is the current one, or was completed, or its
\* signal is aborted -- no request is left to run believing it is the latest.
\* And the current request is live: it owns the controller, its signal is
\* neither aborted nor given up, the parent has not aborted under it, and the
\* controller is not disposed.
LatestOnly ==
    /\ Idle => \A r \in Request :
           status[r] = "returned" => r = current \/ r \in completed \/ r \in aborted
    /\ current # None =>
           /\ controller = current /\ status[current] = "returned"
           /\ current \notin aborted \cup completed
           /\ Idle => ~parentAborted /\ ~disposed

\* Timers and parent listeners do not outlive the request they were made for,
\* unless the very call that should have removed them threw: between operations
\* the scheduler holds the current request's timer and the parent its listener,
\* and beyond these only what a cancel() or removeEventListener() left behind.
NothingLeaks ==
    Idle => /\ {timer, registration} \subseteq {None, current}
            /\ Some(timer) \subseteq timers
            /\ timers \subseteq Some(timer) \cup uncancelled
            /\ Some(registration) \subseteq listeners
            /\ listeners \subseteq Some(registration) \cup unremoved
===============================================================================
