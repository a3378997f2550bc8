----------------------------- MODULE MCIRBuilder -----------------------------
(* Model values and bounds for checking IRBuilder. *)
EXTENDS IRBuilder

MCFnNames == {"f", "g"}

=============================================================================
