------------------------- MODULE MCCompletionQueue -------------------------
(* Model-checking instances of CompletionQueue. *)
EXTENDS CompletionQueue
=============================================================================
