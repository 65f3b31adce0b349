----------------------------- MODULE MCBindings -----------------------------
(* Bindings on small sets.                                                 *)
EXTENDS Bindings
=============================================================================
