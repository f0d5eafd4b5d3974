--------------------------- MODULE MCMutationQueue ---------------------------
(* Small instances of MutationQueue: four tasks, two of them of one owner. *)
EXTENDS MutationQueue
CONSTANTS t1, t2, t3, t4, o1, o2
FourTasks == {t1, t2, t3, t4}
OwnerOfFour == [t \in FourTasks |-> CASE t = t1 -> o1 [] t = t2 -> o1
                                      [] t = t3 -> o2 [] OTHER -> NoOwner]
=============================================================================
