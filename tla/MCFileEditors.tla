---------------------------- MODULE MCFileEditors ----------------------------
(* Model-checking instance of FileEditors. *)
EXTENDS FileEditors, TLC

CONSTANTS f1, f2, n2, c1

MCTypeOf == [p \in File |-> "file"]

Symmetry == Permutations(File)
=============================================================================
