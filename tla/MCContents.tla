----------------------------- MODULE MCContents -----------------------------
(* Model-checking instances of Contents. *)
EXTENDS Contents, TLC

Symmetry == Permutations(Handler)
=============================================================================
