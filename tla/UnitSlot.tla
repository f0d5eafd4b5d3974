------------------------------ MODULE UnitSlot ------------------------------
(***************************************************************************)
(* What the teardown of one unit promises to the supervisor and the budget:*)
(* a retirement ends when the unit is gone or given up, a unit that is     *)
(* given up has been told to die -- however late it appears -- and the     *)
(* lease comes back once, after the unit, never with it still running.     *)
(***************************************************************************)
VARIABLES unit,       \* "launching", "running" or "gone"
          retired,    \* its retirement was asked for
          forced,     \* it was terminated by force
          abandoned,  \* it was given up
          settled,    \* the retirement is over for those who wait for it
          leased      \* the budget's slot is taken

vars == <<unit, retired, forced, abandoned, settled, leased>>

Init ==
  /\ unit = "launching" /\ leased = TRUE
  /\ retired = FALSE /\ forced = FALSE /\ abandoned = FALSE /\ settled = FALSE

Appears ==
  /\ unit = "launching" /\ unit' = "running"
  /\ forced' = abandoned
  /\ UNCHANGED <<retired, abandoned, settled, leased>>

\* An exit, or a launch that failed.
Disappears ==
  /\ unit # "gone" /\ unit' = "gone"
  /\ UNCHANGED <<retired, forced, abandoned, settled, leased>>

\* Asked to end by force, it may be terminated in the same turn.
Retire ==
  /\ retired' = TRUE
  /\ forced' \in {forced, unit = "running"}
  /\ UNCHANGED <<unit, abandoned, settled, leased>>

Force ==
  /\ retired /\ unit = "running" /\ forced' = TRUE
  /\ UNCHANGED <<unit, retired, abandoned, settled, leased>>

GiveUp ==
  /\ retired /\ unit # "gone" /\ ~abandoned
  /\ abandoned' = TRUE
  /\ forced' = (unit = "running")
  /\ UNCHANGED <<unit, retired, settled, leased>>

Settle ==
  /\ retired /\ (unit = "gone" \/ abandoned)
  /\ settled' = TRUE
  /\ leased' = (leased /\ (abandoned \/ unit # "gone"))
  /\ UNCHANGED <<unit, retired, forced, abandoned>>

Release ==
  /\ retired /\ unit = "gone" /\ leased
  /\ leased' = FALSE
  /\ UNCHANGED <<unit, retired, forced, abandoned, settled>>

Next == Appears \/ Disappears \/ Retire \/ Force \/ GiveUp \/ Settle \/ Release

\* Whoever waits for a retirement is answered although the unit may hang, and a
\* unit that is gone costs the budget nothing.
Prompt ==
  /\ retired ~> settled
  /\ retired /\ unit = "gone" ~> ~leased

Spec == Init /\ [][Next]_vars /\ Prompt
=============================================================================
