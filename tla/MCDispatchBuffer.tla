---------------------------- MODULE MCDispatchBuffer ----------------------------
(* DispatchBuffer with four blocks, as in the code, for TLC. *)
EXTENDS DispatchBuffer

\* Relayed data whose last write ends within a page and at the end of one; inline commands of one unit and
\* of the most pages that may be acquired at once.
MCLengths == {[inline |-> {1}, relay |-> {9}], [inline |-> {9}, relay |-> {8}]}
=================================================================================
