-------------------------- MODULE MCKernelChannels --------------------------
(* Model-checking instance of KernelChannels. *)
EXTENDS KernelChannels

CONSTANTS iopub, shell

\* Two messages on one socket, so that there is an order to keep, and one on
\* another, so that two pollers compete for the writer.
MCMaxMsg == [ch \in Channel |-> IF ch = shell THEN 2 ELSE 1]
=============================================================================
