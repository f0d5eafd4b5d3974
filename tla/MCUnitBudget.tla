---------------------------- MODULE MCUnitBudget ----------------------------
(* Small instances of UnitBudget. *)
EXTENDS UnitBudget
=============================================================================
