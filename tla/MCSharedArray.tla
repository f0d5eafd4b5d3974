--------------------------- MODULE MCSharedArray ---------------------------
(* Instance of SharedArray for TLC.                                         *)
EXTENDS SharedArray

MCValues == {0, 1}
=============================================================================
