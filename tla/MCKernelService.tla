-------------------------- MODULE MCKernelService --------------------------
(* Model-checking instance of KernelService. *)
EXTENDS KernelService, TLC

\* No two ids share their first six characters.
MCFileOf == [k \in Kernel |-> k]

Symmetry == Permutations(Kernel) \cup Permutations(Caller) \cup Permutations(Port)
=============================================================================
