----------------------------- MODULE MCFreeList -----------------------------
(* FreeList on a small bank, for TLC. *)
EXTENDS FreeList
=============================================================================
