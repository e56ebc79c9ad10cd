--------------------------- MODULE MCNotebookCells ---------------------------
(* Model-checking instances of NotebookCells. *)
EXTENDS NotebookCells

CONSTANTS a, b

MCDiskCells == <<[source |-> a, type |-> "code"],
                 [source |-> b, type |-> "markdown"]>>
=============================================================================
