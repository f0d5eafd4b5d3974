----------------------------- MODULE MCSeqlock -----------------------------
(* Instance of Seqlock for TLC: the update callback counts up and wraps.    *)
EXTENDS Seqlock

CONSTANT Top  \* the largest value

MCValues == 0..Top
MCFn == [v \in MCValues |-> IF v = Top THEN 0 ELSE v + 1]
=============================================================================
