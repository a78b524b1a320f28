----------------------------- MODULE BoundedFifo -----------------------------
(***************************************************************************)
(* What LockFreeQueue promises its users (WorkExecutor and CommandQueue):  *)
(* a first-in first-out queue of work items whose pushes and pops are      *)
(* atomic.  A pop hands over the oldest item that was pushed and not yet   *)
(* popped; nothing is lost, duplicated, reordered or made up.              *)
(***************************************************************************)
EXTENDS Naturals, Sequences

CONSTANTS
    Values,     \* the work items
    Capacity,   \* the most items that can be in the queue
    Nothing     \* what the consumer holds before its first pop

VARIABLES
    queue,      \* the items pushed and not yet popped, oldest first
    popped      \* the item of the last pop

fifoVars == <<queue, popped>>

Init ==
    /\ queue = <<>>
    /\ popped = Nothing

Push(v) ==
    /\ Len(queue) < Capacity
    /\ queue' = Append(queue, v)
    /\ UNCHANGED popped

Pop ==
    /\ queue # <<>>
    /\ popped' = Head(queue)
    /\ queue' = Tail(queue)

\* The consumer has finished with the item it popped.
Forget ==
    /\ popped' = Nothing
    /\ UNCHANGED queue

Next == Pop \/ Forget \/ \E v \in Values : Push(v)

Spec == Init /\ [][Next]_fifoVars
==============================================================================
