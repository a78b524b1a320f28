--------------------------- MODULE MCWorkExecutor ---------------------------
(* WorkExecutor with a few items and mode switches, for TLC. *)
EXTENDS WorkExecutor

\* The second item pushes nested work.
NestingItems == {2}
=============================================================================
