---------------------------- MODULE MCGoSignals ----------------------------
(* GoSignals with two workers a multicast reaches and one that needs a unicast, for TLC. *)
EXTENDS GoSignals
=============================================================================
