-------------------------- MODULE MCNotebookSession --------------------------
(* Model-checking instances of NotebookSession. *)
EXTENDS NotebookSession, TLC

CONSTANTS python, julia

Symmetry == Permutations({python, julia})
=============================================================================
