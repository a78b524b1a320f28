---------------------------- MODULE LockFreeQueue ----------------------------
(***************************************************************************)
(* LockFreeQueue<T> (tt_metal/impl/dispatch/lock_free_queue.hpp): a ring   *)
(* of statically allocated nodes, each with a data pointer and a link to   *)
(* the next node, and two atomic pointers into it.  Writers push at tail,  *)
(* one reader pops at head.  In lock based mode a writer holds queue_mutex *)
(* for the whole push; in lock free mode there is no mutex and there may   *)
(* be only one writer.                                                     *)
(*                                                                         *)
(* Every load, store and data access that another thread can observe is a  *)
(* step of its own, so that the window between head.store in pop_head and  *)
(* the read of oldHead->data in pop is part of the model.                  *)
(***************************************************************************)
EXTENDS Naturals, FiniteSets

CONSTANTS
    Writers,        \* threads that push
    Values,         \* work items
    RingBufferSize, \* ring_buffer_size (8192 in the code)
    LockBased,      \* set_lock_based() rather than set_lock_free()
    NoThread,       \* queue_mutex is free
    NULL            \* a null shared_ptr

ASSUME RingAssumption == RingBufferSize \in Nat /\ RingBufferSize >= 2

ASSUME WriterAssumption ==
    /\ NoThread \notin Writers
    /\ NULL \notin Values
    /\ LockBased \in BOOLEAN
    \* "Supports single writer, single reader" unless lock based
    /\ LockBased \/ \A v, w \in Writers : v = w

VARIABLES
    head,       \* index of the node the reader pops next
    tail,       \* index of the node the next push fills
    data,       \* ring_buffer[i].data
    mutex,      \* holder of queue_mutex
    wpc,        \* where each writer is in push()
    wval,       \* the value each writer is pushing
    rpc,        \* where the reader is in pop()
    oldHead,    \* pop's oldHead
    result      \* pop's result

vars == <<head, tail, data, mutex, wpc, wval, rpc, oldHead, result>>

Nodes == 0 .. RingBufferSize - 1

\* Faulty: the last node is not linked back to the first.
NextNodeUnlinked(i) == i + 1

\* ring_buffer[i].next: every node links to the one after it, the last to the first.
NextNode(i) == IF i < RingBufferSize - 1 THEN i + 1 ELSE 0

WriterPC == {"idle", "lock", "stall", "write", "advance", "unlock"}
ReaderPC == {"idle", "pop", "read", "reset", "return", "nullptr"}

TypeOK ==
    /\ head \in Nodes
    /\ tail \in Nodes
    /\ data \in [Nodes -> Values \cup {NULL}]
    /\ mutex \in Writers \cup {NoThread}
    /\ wpc \in [Writers -> WriterPC]
    /\ wval \in [Writers -> Values \cup {NULL}]
    /\ rpc \in ReaderPC
    /\ oldHead \in Nodes
    /\ result \in Values \cup {NULL}

Init ==
    /\ head = 0
    /\ tail = 0
    /\ data = [i \in Nodes |-> NULL]
    /\ mutex = NoThread
    /\ wpc = [w \in Writers |-> "idle"]
    /\ wval = [w \in Writers |-> NULL]
    /\ rpc = "idle"
    /\ oldHead = 0
    /\ result = NULL

empty == head = tail

-----------------------------------------------------------------------------
(* push(value), one step per statement *)

CallPush(w, v) ==
    /\ wpc[w] = "idle"
    /\ wpc' = [wpc EXCEPT ![w] = "lock"]
    /\ wval' = [wval EXCEPT ![w] = v]
    /\ UNCHANGED <<head, tail, data, mutex, rpc, oldHead, result>>

\* lock_func(): queue_mutex.lock() in lock based mode, nothing otherwise.
LockFunc(w) ==
    /\ wpc[w] = "lock"
    /\ LockBased => mutex = NoThread
    /\ mutex' = IF LockBased THEN w ELSE mutex
    /\ wpc' = [wpc EXCEPT ![w] = "stall"]
    /\ UNCHANGED <<head, tail, data, wval, rpc, oldHead, result>>

\* Faulty: does not wait for a free node.
StallExitNoWait(w) ==
    /\ wpc[w] = "stall"
    /\ wpc' = [wpc EXCEPT ![w] = "write"]
    /\ UNCHANGED <<head, tail, data, mutex, wval, rpc, oldHead, result>>

\* while(tail.load()->next == head.load()) {}: this is the exit of the loop.
StallExit(w) ==
    /\ wpc[w] = "stall"
    /\ NextNode(tail) # head
    /\ wpc' = [wpc EXCEPT ![w] = "write"]
    /\ UNCHANGED <<head, tail, data, mutex, wval, rpc, oldHead, result>>

WriteData(w) ==
    /\ wpc[w] = "write"
    /\ data' = [data EXCEPT ![tail] = wval[w]]
    /\ wpc' = [wpc EXCEPT ![w] = "advance"]
    /\ UNCHANGED <<head, tail, mutex, wval, rpc, oldHead, result>>

\* tail.store(tail.load()->next): the item becomes visible to the reader.
AdvanceTail(w) ==
    /\ wpc[w] = "advance"
    /\ tail' = NextNode(tail)
    /\ wpc' = [wpc EXCEPT ![w] = "unlock"]
    /\ UNCHANGED <<head, data, mutex, wval, rpc, oldHead, result>>

\* Faulty: push returns without unlock_func().
UnlockFuncLeak(w) ==
    /\ wpc[w] = "unlock"
    /\ wpc' = [wpc EXCEPT ![w] = "idle"]
    /\ wval' = [wval EXCEPT ![w] = NULL]
    /\ UNCHANGED <<head, tail, data, mutex, rpc, oldHead, result>>

UnlockFunc(w) ==
    /\ wpc[w] = "unlock"
    /\ mutex' = IF LockBased THEN NoThread ELSE mutex
    /\ wpc' = [wpc EXCEPT ![w] = "idle"]
    /\ wval' = [wval EXCEPT ![w] = NULL]
    /\ UNCHANGED <<head, tail, data, rpc, oldHead, result>>

-----------------------------------------------------------------------------
(* pop() by the one reader, which calls it after empty() returned false *)

PollNonEmpty ==
    /\ rpc = "idle"
    /\ ~empty
    /\ rpc' = "pop"
    /\ UNCHANGED <<head, tail, data, mutex, wpc, wval, oldHead, result>>

\* pop_head(): null for an empty queue, else head moves on before the data is read.
PopHead ==
    /\ rpc = "pop"
    /\ oldHead' = head
    /\ rpc' = IF head = tail THEN "nullptr" ELSE "read"
    /\ head' = IF head = tail THEN head ELSE NextNode(head)
    /\ UNCHANGED <<tail, data, mutex, wpc, wval, result>>

\* Faulty: reads the node head points at now.
ReadDataAtHead ==
    /\ rpc = "read"
    /\ result' = data[head]
    /\ rpc' = "reset"
    /\ UNCHANGED <<head, tail, data, mutex, wpc, wval, oldHead>>

ReadData ==
    /\ rpc = "read"
    /\ result' = data[oldHead]
    /\ rpc' = "reset"
    /\ UNCHANGED <<head, tail, data, mutex, wpc, wval, oldHead>>

\* (oldHead->data).reset()
ResetData ==
    /\ rpc = "reset"
    /\ data' = [data EXCEPT ![oldHead] = NULL]
    /\ rpc' = "return"
    /\ UNCHANGED <<head, tail, mutex, wpc, wval, oldHead, result>>

\* The caller runs the item and drops it.
ReturnPop ==
    /\ rpc = "return"
    /\ rpc' = "idle"
    /\ result' = NULL
    /\ UNCHANGED <<head, tail, data, mutex, wpc, wval, oldHead>>

-----------------------------------------------------------------------------
PushStep(w) ==
    LockFunc(w) \/ StallExit(w) \/ WriteData(w) \/ AdvanceTail(w) \/ UnlockFunc(w)

PopStep == PollNonEmpty \/ PopHead \/ ReadData \/ ResetData \/ ReturnPop

Next ==
    \/ \E w \in Writers : PushStep(w) \/ \E v \in Values : CallPush(w, v)
    \/ PopStep

\* The threads keep running; a free std::mutex is granted in some fair order.
Fairness ==
    /\ \A w \in Writers : WF_vars(PushStep(w)) /\ SF_vars(LockFunc(w))
    /\ WF_vars(PopStep)

Spec == Init /\ [][Next]_vars

FairSpec == Spec /\ Fairness

-----------------------------------------------------------------------------
(* Correctness *)

\* The nodes from head up to, and without, tail: what has been pushed and not popped.
Window == IF head <= tail
            THEN {i \in Nodes : head <= i /\ i < tail}
            ELSE {i \in Nodes : head <= i \/ i < tail}

Reading == rpc \in {"read", "reset"}

\* The node a push fills is never the one a pop is still reading or resetting, although
\* pop_head has already moved head past it: the stall condition keeps one node free.
NoSlotRace ==
    \A w \in Writers : wpc[w] \in {"write", "advance"} /\ Reading => oldHead # tail

\* pop() never hands out a null work item: what (*func)() in run_worker dereferences exists.
PopsRealItem ==
    /\ rpc # "nullptr"
    /\ rpc \in {"reset", "return"} => result # NULL

\* The node a pop is reading is out of the window of queued nodes, so a pushed item is
\* always found by the reader at the place it was written to, and every other node is empty.
WindowHoldsItems ==
    /\ \A i \in Window : data[i] # NULL
    /\ Reading => oldHead \notin Window /\ data[oldHead] # NULL

\* A push that waits for a free node completes: the reader frees one eventually.
PushCompletes == \A w \in Writers : wpc[w] = "lock" ~> wpc[w] = "idle"

-----------------------------------------------------------------------------
(* The queue as its users see it: an atomic FIFO (BoundedFifo) *)

WindowSize == IF head <= tail THEN tail - head ELSE tail + RingBufferSize - head

\* The node k places after i in the ring.
After(i, k) == IF i + k < RingBufferSize THEN i + k ELSE i + k - RingBufferSize

QueuedItems == [k \in 1 .. WindowSize |-> data[After(head, k - 1)]]

\* An item is popped when its data is read, although its node left the window before.
AbstractQueue ==
    IF rpc = "read"
      THEN [k \in 1 .. WindowSize + 1 |->
              IF k = 1 THEN data[oldHead] ELSE data[After(head, k - 2)]]
      ELSE QueuedItems

Fifo == INSTANCE BoundedFifo WITH
            Capacity <- RingBufferSize,
            Nothing <- NULL,
            queue <- AbstractQueue,
            popped <- result

\* The ring of nodes implements an atomic first-in first-out queue.
ImplementsFifo == Fifo!Spec
==============================================================================
