--------------------------- MODULE MCLockFreeQueue ---------------------------
(* LockFreeQueue on small rings, for TLC. *)
EXTENDS LockFreeQueue
==============================================================================
