--------------------------- MODULE MCContextQueue ---------------------------
(* Model-checking instance of ContextQueue.                               *)
EXTENDS ContextQueue
=============================================================================
