------------------------------ MODULE MCTerminal -----------------------------
(* A small terminal: two shells to try, two sizes, a few keys. *)
EXTENDS TerminalSession

CONSTANTS small, large, none
=============================================================================
