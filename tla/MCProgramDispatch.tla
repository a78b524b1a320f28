-------------------------- MODULE MCProgramDispatch --------------------------
(* Model-checking instances of ProgramDispatch: rings of two sizes, of the same size, or with room for one program. *)
EXTENDS ProgramDispatch

OtherSize == [i \in CoreTypes |-> 3 + i]
SameSize == [i \in CoreTypes |-> 4]
TinySize == [i \in CoreTypes |-> 1]
=============================================================================
