----------------------------- MODULE MCLogStore -----------------------------
(* Instance of LogStore for TLC.                                            *)
EXTENDS LogStore, TLC

Symmetric == Permutations(Calls)
=============================================================================
