------------------------- MODULE MCTerminalSession -------------------------
(* Model-checking instance of TerminalSession. *)
EXTENDS TerminalSession
=============================================================================
