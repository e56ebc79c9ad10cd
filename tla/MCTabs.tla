------------------------------- MODULE MCTabs -------------------------------
(* Model-checking instance of Tabs. *)
EXTENDS Tabs

CONSTANTS f1, n1, n2, c1, c2

MCTypeOf == [p \in File |-> IF p = n1 THEN "notebook" ELSE "file"]
=============================================================================
