--------------------------- MODULE MCLifecycleScope ---------------------------
(* Small instances of LifecycleScope: two resources, up to three            *)
(* registrations, one descriptor for each chain.                             *)
EXTENDS LifecycleScope

D(o, c, b, g) == [order |-> o, chain |-> c, bounded |-> b, gc |-> g]

Descriptors ==
    {D(0, "force", FALSE, TRUE), D(0, "graceful", TRUE, FALSE), D(1, "custom", FALSE, FALSE)}
=============================================================================
