------------------------------- MODULE Binlog -------------------------------
(***************************************************************************)
(* The subscriptions of the binlog plugin (log-plugin-durable/src:         *)
(* binlog.ts and plugin-runtime.ts): cursors that deliver the retained     *)
(* history of a borrowed store and then follow its append notices.         *)
(*                                                                         *)
(* Two FIFOs meet: the plugin's (subscriptions, appends, truncations) and  *)
(* the store's (every read and write, the owner's too).  A cursor is       *)
(* pumped outside the first one and awaits the second one at every read;   *)
(* between its question and its next line anything may happen.  The store  *)
(* is abstracted to its floor and its head: its records are floor..last.   *)
(***************************************************************************)
EXTENDS Integers, Sequences, Functions

CONSTANTS
  Cursors,       \* the subscriptions that may be made
  Slots,         \* the pump() activations one cursor could have at a time
  Plugin,        \* the task the plugin's FIFO is running
  Owner,         \* the creator of the store, which writes to it directly
  NoTask,        \* the plugin's FIFO is running nothing
  MaxAppends,    \* bound on the records appended
  MaxCuts        \* bound on truncations, revocations, unsubscriptions and throws

ASSUME SlotsAssumption == Slots # {}

VARIABLES
  last, floor,   \* the store: its head and its retained floor
  asks,          \* the store's FIFO: who asked for what
  reply,         \* the answers not yet looked at
  tasks, task,   \* the plugin's FIFO and the task it is running
  accepting,     \* the installation is not revoked
  cursors,       \* #cursors, in the order of registration
  source,        \* #wakeCursors is subscribed to the store
  cur,           \* each cursor object: from, nextSeq, active, running, wake
  pump,          \* where each activation of pump() awaits
  delivered,     \* what each listener was called with
  told,          \* why each cursor was cancelled, if it was
  appends, cuts  \* counters for the bounds

store == <<last, floor, asks, reply>>
fifo == <<tasks, task>>
subs == <<accepting, cursors, source, cur, pump, delivered, told>>
counters == <<appends, cuts>>
vars == <<store, fifo, subs, counters>>

Clients == Cursors \cup {Plugin}

\* kind "read" and "last" answer the asker; n is a sequence, 0 if unused.
Ask(by, kind, n) == [by |-> by, kind |-> kind, n |-> n]

NoReply == -1

\* The row a read(n, 1) returns, 0 for none.
Row(n) == LET first == IF n < floor THEN floor ELSE n
          IN IF first <= last THEN first ELSE 0

Init ==
  /\ last = 0 /\ floor = 1
  /\ asks = <<>>
  /\ reply = [c \in Clients |-> NoReply]
  /\ tasks = <<>> /\ task = NoTask
  /\ accepting = TRUE
  /\ cursors = <<>> /\ source = FALSE
  /\ cur = [k \in Cursors |->
             [from |-> 0, nextSeq |-> 0, active |-> FALSE, running |-> FALSE, wake |-> FALSE]]
  /\ pump = [k \in Cursors |-> [i \in Slots |-> "off"]]
  /\ delivered = [k \in Cursors |-> <<>>]
  /\ told = [k \in Cursors |-> "nothing"]
  /\ appends = 0 /\ cuts = 0

Live(k) == cur[k].active /\ accepting

\* The activations of pump(k) that are in progress, and the one a call starts.
Pumping(k) == {i \in Slots : pump[k][i] # "off"}
Free(k) == CHOOSE i \in Slots : i \notin Pumping(k)

\* Faulty variant: pump() does not look whether another activation runs.
StartsAlways(k) == Live(k) /\ Pumping(k) # Slots

\* pump() returns at once while another activation runs.
Starts(k) == ~cur[k].running /\ Live(k)

\* What a set of cursors looks like once pump() was called on each of them.
Started(k, wake) ==
  IF Starts(k) THEN [cur[k] EXCEPT !.running = TRUE, !.wake = FALSE]
               ELSE [cur[k] EXCEPT !.wake = wake]

\* The reads those calls put on the store's FIFO, in the order given.
Reads(ks) == [i \in 1..Len(ks) |-> Ask(ks[i], "read", cur[ks[i]].nextSeq)]

\* The cursors without ks, and the source without the last of them.
Drop(ks) ==
  /\ cursors' = SelectSeq(cursors, LAMBDA k : k \notin ks)
  /\ source' = (source /\ cursors' # <<>>)

Cut == cuts < MaxCuts /\ cuts' = cuts + 1

-----------------------------------------------------------------------------
(* The store's FIFO.                                                        *)

Issue(by, kind, n) == asks' = Append(asks, Ask(by, kind, n))

\* The owner appends or truncates without the plugin.
OwnerAppends ==
  /\ appends < MaxAppends
  /\ appends' = appends + 1
  /\ Issue(Owner, "append", 0)
  /\ UNCHANGED <<last, floor, reply, fifo, subs, cuts>>

OwnerTruncates ==
  /\ Cut
  /\ \E n \in 2..(last + 1) : Issue(Owner, "truncate", n)
  /\ UNCHANGED <<last, floor, reply, fifo, subs, appends>>

Replies(by, value) ==
  reply' = IF by = Owner THEN reply ELSE [reply EXCEPT ![by] = value]

ServeRead ==
  /\ asks # <<>> /\ Head(asks).kind = "read"
  /\ Replies(Head(asks).by, Row(Head(asks).n))
  /\ asks' = Tail(asks)
  /\ UNCHANGED <<last, floor, fifo, subs, counters>>

ServeLast ==
  /\ asks # <<>> /\ Head(asks).kind = "last"
  /\ Replies(Head(asks).by, last)
  /\ asks' = Tail(asks)
  /\ UNCHANGED <<last, floor, fifo, subs, counters>>

\* The append notice runs #wakeCursors before the append is answered.
ServeAppend ==
  /\ asks # <<>> /\ Head(asks).kind = "append"
  /\ last' = last + 1
  /\ Replies(Head(asks).by, last')
  /\ LET woken == IF source THEN SelectSeq(cursors, Starts) ELSE <<>>
         noticed == IF source THEN Range(cursors) ELSE {}
     IN /\ cur' = [k \in Cursors |-> IF k \in noticed THEN Started(k, TRUE) ELSE cur[k]]
        /\ pump' = [k \in Cursors |->
                     IF k \in noticed /\ Starts(k)
                       THEN [pump[k] EXCEPT ![Free(k)] = "read"]
                       ELSE pump[k]]
        /\ asks' = Tail(asks) \o Reads(woken)
  /\ UNCHANGED <<floor, fifo, accepting, cursors, source, delivered, told, counters>>

ServeTruncate ==
  /\ asks # <<>> /\ Head(asks).kind = "truncate"
  /\ floor' = IF Head(asks).n > floor THEN Head(asks).n ELSE floor
  /\ Replies(Head(asks).by, 0)
  /\ asks' = Tail(asks)
  /\ UNCHANGED <<last, fifo, subs, counters>>

-----------------------------------------------------------------------------
(* The plugin's FIFO.                                                       *)

Submit(kind, k, n) ==
  /\ accepting
  /\ tasks' = Append(tasks, [kind |-> kind, cursor |-> k, n |-> n])

Subscribe(k) ==
  /\ cur[k].from = 0
  /\ \E n \in 1..(last + 1) :
       cur' = [cur EXCEPT ![k] = [from |-> n, nextSeq |-> n,
                                  active |-> TRUE, running |-> FALSE, wake |-> TRUE]]
  /\ Submit("subscribe", k, 0)
  /\ UNCHANGED <<store, task, accepting, cursors, source, pump, delivered, told, counters>>

AppendRecord ==
  /\ appends < MaxAppends
  /\ appends' = appends + 1
  /\ Submit("append", Plugin, 0)
  /\ UNCHANGED <<store, task, subs, cuts>>

Truncate ==
  /\ Cut
  /\ \E n \in 2..(last + 1) : Submit("truncate", Plugin, n)
  /\ UNCHANGED <<store, task, subs, appends>>

Turn(kind) ==
  /\ task = NoTask
  /\ tasks # <<>> /\ Head(tasks).kind = kind
  /\ tasks' = Tail(tasks)

\* A cursor cancelled before its turn, or a revoked installation: nothing to do.
TurnStale ==
  /\ Turn("subscribe")
  /\ ~Live(Head(tasks).cursor)
  /\ UNCHANGED <<store, task, subs, counters>>

\* The source is subscribed before the store is asked anything.
Register ==
  /\ Turn("subscribe")
  /\ Live(Head(tasks).cursor)
  /\ task' = Head(tasks)
  /\ cursors' = Append(cursors, Head(tasks).cursor)
  /\ source' = TRUE
  /\ Issue(Plugin, "last", 0)
  /\ UNCHANGED <<last, floor, reply, accepting, cur, pump, delivered, told, counters>>

TurnWrites ==
  /\ \E kind \in {"append", "truncate"} : Turn(kind)
  /\ task' = Head(tasks)
  /\ Issue(Plugin, Head(tasks).kind, Head(tasks).n)
  /\ UNCHANGED <<last, floor, reply, subs, counters>>

Settles(kind) ==
  /\ task # NoTask /\ task.kind = kind
  /\ reply[Plugin] # NoReply
  /\ task' = NoTask

Appended ==
  /\ Settles("append")
  /\ reply' = [reply EXCEPT ![Plugin] = NoReply]
  /\ UNCHANGED <<last, floor, asks, tasks, subs, counters>>

\* The registration ends by starting the first pump.
Registered ==
  /\ Settles("subscribe")
  /\ reply' = [reply EXCEPT ![Plugin] = NoReply]
  /\ LET k == task.cursor
     IN IF Starts(k)
          THEN /\ cur' = [cur EXCEPT ![k] = Started(k, TRUE)]
               /\ pump' = [pump EXCEPT ![k][Free(k)] = "read"]
               /\ asks' = asks \o Reads(<<k>>)
          ELSE UNCHANGED <<cur, pump, asks>>
  /\ UNCHANGED <<last, floor, tasks, accepting, cursors, source, delivered, told, counters>>

\* The cursors the truncation overtook are stopped and told.
Truncated ==
  /\ Settles("truncate")
  /\ reply' = [reply EXCEPT ![Plugin] = NoReply]
  /\ LET overtaken == {k \in Range(cursors) : cur[k].nextSeq < task.n}
     IN /\ cur' = [k \in Cursors |-> IF k \in overtaken THEN [cur[k] EXCEPT !.active = FALSE]
                                                       ELSE cur[k]]
        /\ told' = [k \in Cursors |-> IF k \in overtaken THEN "truncated" ELSE told[k]]
        /\ Drop(overtaken)
  /\ UNCHANGED <<last, floor, asks, tasks, accepting, pump, delivered, counters>>

\* The host revokes the installation; accepted tasks still run.
Stop ==
  /\ accepting
  /\ Cut
  /\ accepting' = FALSE
  /\ cur' = [k \in Cursors |-> IF k \in Range(cursors) THEN [cur[k] EXCEPT !.active = FALSE]
                                                       ELSE cur[k]]
  /\ cursors' = <<>>
  /\ source' = FALSE
  /\ UNCHANGED <<store, fifo, pump, delivered, told, appends>>

-----------------------------------------------------------------------------
(* The cursors.                                                             *)

Cancel(k) ==
  /\ cur' = [cur EXCEPT ![k].active = FALSE]
  /\ Drop({k})

\* The function subscribe() returned; the registration may still be waiting.
Unsubscribe(k) ==
  /\ cur[k].active
  /\ Cancel(k)
  /\ told' = [told EXCEPT ![k] = "unsubscribed"]
  /\ Cut
  /\ UNCHANGED <<store, fifo, accepting, pump, delivered, appends>>

At(k, i, place) == pump[k][i] = place

Goto(k, i, place) == pump' = [pump EXCEPT ![k][i] = place]

Answered(k) == reply[k] # NoReply

Seen(k) == reply' = [reply EXCEPT ![k] = NoReply]

\* The inner loop goes on with the next read.
ReadsOn(k, i) ==
  /\ Goto(k, i, "read")
  /\ asks' = asks \o Reads(<<k>>)

\* The loops end, and with them the activation.
Leave(k, i) ==
  /\ Goto(k, i, "off")
  /\ cur' = [cur EXCEPT ![k].running = FALSE]
  /\ UNCHANGED asks

\* A throw inside pump() cancels the cursor and reports the error.
LeaveTruncated(k, i) ==
  /\ Goto(k, i, "off")
  /\ cur' = [cur EXCEPT ![k].running = FALSE, ![k].active = FALSE]
  /\ Drop({k})
  /\ told' = [told EXCEPT ![k] = IF cur[k].active THEN "truncated" ELSE @]
  /\ UNCHANGED asks

GotRow(k, i) ==
  /\ At(k, i, "read") /\ Answered(k) /\ Seen(k)
  /\ Live(k)
  /\ reply[k] = cur[k].nextSeq
  /\ Goto(k, i, "listener")
  /\ delivered' = [delivered EXCEPT ![k] = Append(@, reply[k])]
  /\ UNCHANGED <<last, floor, asks, fifo, accepting, cursors, source, cur, told, counters>>

\* The row was truncated before it was read.
GotLater(k, i) ==
  /\ At(k, i, "read") /\ Answered(k) /\ Seen(k)
  /\ Live(k)
  /\ reply[k] \notin {0, cur[k].nextSeq}
  /\ LeaveTruncated(k, i)
  /\ UNCHANGED <<last, floor, fifo, accepting, delivered, counters>>

GotNothing(k, i) ==
  /\ At(k, i, "read") /\ Answered(k) /\ Seen(k)
  /\ Live(k)
  /\ reply[k] = 0
  /\ Goto(k, i, "last")
  /\ Issue(k, "last", 0)
  /\ UNCHANGED <<last, floor, fifo, accepting, cursors, source, cur, delivered, told, counters>>

GotTooLate(k, i) ==
  /\ At(k, i, "read") /\ Answered(k) /\ Seen(k)
  /\ ~Live(k)
  /\ Leave(k, i)
  /\ UNCHANGED <<last, floor, fifo, accepting, cursors, source, delivered, told, counters>>

\* No row although the head has passed the position: taken for a truncation.
HeadPassed(k, i) ==
  /\ At(k, i, "last") /\ Answered(k) /\ Seen(k)
  /\ reply[k] >= cur[k].nextSeq
  /\ LeaveTruncated(k, i)
  /\ UNCHANGED <<last, floor, fifo, accepting, delivered, counters>>

\* Faulty variant: a notice that came during the last question is forgotten.
TailForgetsWake(k, i) ==
  /\ At(k, i, "last") /\ Answered(k) /\ Seen(k)
  /\ reply[k] < cur[k].nextSeq
  /\ Leave(k, i)
  /\ UNCHANGED <<last, floor, fifo, accepting, cursors, source, delivered, told, counters>>

\* The tail is idle: the outer loop goes round again if a notice came meanwhile.
TailReached(k, i) ==
  /\ At(k, i, "last") /\ Answered(k) /\ Seen(k)
  /\ reply[k] < cur[k].nextSeq
  /\ IF cur[k].wake /\ Live(k)
       THEN /\ ReadsOn(k, i)
            /\ cur' = [cur EXCEPT ![k].wake = FALSE]
       ELSE Leave(k, i)
  /\ UNCHANGED <<last, floor, fifo, accepting, cursors, source, delivered, told, counters>>

\* The cursor advances only when its listener has settled.
ListenerReturns(k, i) ==
  /\ At(k, i, "listener")
  /\ LET next == delivered[k][Len(delivered[k])] + 1
     IN IF Live(k)
          THEN /\ cur' = [cur EXCEPT ![k].nextSeq = next]
               /\ Goto(k, i, "read")
               /\ asks' = Append(asks, Ask(k, "read", next))
          ELSE /\ cur' = [cur EXCEPT ![k].nextSeq = next, ![k].running = FALSE]
               /\ Goto(k, i, "off")
               /\ UNCHANGED asks
  /\ UNCHANGED <<last, floor, reply, fifo, accepting, cursors, source, delivered, told, counters>>

ListenerThrows(k, i) ==
  /\ At(k, i, "listener")
  /\ Goto(k, i, "off")
  /\ cur' = [cur EXCEPT ![k].running = FALSE, ![k].active = FALSE]
  /\ Drop({k})
  /\ told' = [told EXCEPT ![k] = IF cur[k].active THEN "failed" ELSE @]
  /\ Cut
  /\ UNCHANGED <<store, fifo, accepting, delivered, appends>>

Pump(k, i) ==
  \/ GotRow(k, i)
  \/ GotLater(k, i)
  \/ GotNothing(k, i)
  \/ GotTooLate(k, i)
  \/ HeadPassed(k, i)
  \/ TailReached(k, i)
  \/ ListenerReturns(k, i)

Serve == ServeRead \/ ServeLast \/ ServeAppend \/ ServeTruncate

Run ==
  \/ TurnStale
  \/ Register
  \/ TurnWrites
  \/ Appended
  \/ Registered
  \/ Truncated

Next ==
  \/ OwnerAppends
  \/ OwnerTruncates
  \/ AppendRecord
  \/ Truncate
  \/ Stop
  \/ Serve
  \/ Run
  \/ \E k \in Cursors :
       \/ Subscribe(k)
       \/ Unsubscribe(k)
       \/ \E i \in Slots : Pump(k, i) \/ ListenerThrows(k, i)

\* The two FIFOs and the continuations run; a listener is assumed to settle.
Fairness ==
  /\ WF_vars(Serve)
  /\ WF_vars(Run)
  /\ \A k \in Cursors, i \in Slots : WF_vars(Pump(k, i))

Spec == Init /\ [][Next]_vars /\ Fairness
-----------------------------------------------------------------------------
\* A listener is called with consecutive records from the position it asked
\* for: none twice and none skipped at the handoff from history to notices,
\* and never while its previous call is still running.
InOrder ==
  \A k \in Cursors :
    /\ delivered[k] = [j \in 1..Len(delivered[k]) |-> cur[k].from + j - 1]
    /\ \A i, j \in Slots : At(k, i, "listener") /\ At(k, j, "listener") => i = j

\* No notice is lost: a registered cursor with records still to read goes on
\* reading until it has caught up with the head, or is stopped.
Behind(k) == k \in Range(cursors) /\ cur[k].nextSeq <= last

KeepsUp == \A k \in Cursors : Behind(k) ~> ~Behind(k)

\* LOG_SUBSCRIPTION_TRUNCATED means that a truncation passed the cursor.
ToldTheTruth ==
  \A k \in Cursors : told[k] = "truncated" => cur[k].nextSeq < floor
=============================================================================
