----------------------------- MODULE MCFetchQueue -----------------------------
(* FetchQueue with queues of the smallest sizes the code's assertions allow, for TLC. *)
EXTENDS FetchQueue
===============================================================================
