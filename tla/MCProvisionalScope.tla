-------------------------- MODULE MCProvisionalScope --------------------------
(* Small instances of ProvisionalScope. *)
EXTENDS ProvisionalScope
=============================================================================
