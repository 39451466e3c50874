--------------------------- MODULE MCClaudeWorker ---------------------------
(***************************************************************************)
(* TLC instances of ClaudeWorker.                                          *)
(***************************************************************************)
EXTENDS ClaudeWorker

=============================================================================
