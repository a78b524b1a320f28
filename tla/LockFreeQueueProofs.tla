------------------------- MODULE LockFreeQueueProofs -------------------------
(***************************************************************************)
(* Proofs that, for every ring size, every set of writers and every set of *)
(* values, the invariants of LockFreeQueue hold in every reachable state,  *)
(* and that the ring implements BoundedFifo.                               *)
(***************************************************************************)
EXTENDS LockFreeQueue, Sequences, TLAPS

\* Writers between lock_func() and unlock_func().
InPush(w) == wpc[w] \in {"stall", "write", "advance", "unlock"}

\* In lock based mode the writer that is pushing holds the mutex.
HoldsMutex == LockBased => \A w \in Writers : InPush(w) => mutex = w

\* A writer that left the stall loop has the node after tail free.
SpareNode == \A w \in Writers : wpc[w] \in {"write", "advance"} => NextNode(tail) # head

\* A reader that is in pop() has something to pop, or is one node behind head.
ReaderBehind ==
    /\ rpc = "pop" => head # tail
    /\ Reading => NextNode(oldHead) = head /\ data[oldHead] # NULL

\* The value a writer carries is a real item, and is in the node at tail once written.
CarriesItem ==
    /\ \A w \in Writers : wpc[w] # "idle" => wval[w] # NULL
    /\ \A w \in Writers : wpc[w] = "advance" => data[tail] # NULL

QueuedNotNull == \A i \in Window : data[i] # NULL

IInv ==
    /\ TypeOK
    /\ HoldsMutex
    /\ SpareNode
    /\ ReaderBehind
    /\ CarriesItem
    /\ QueuedNotNull
    /\ PopsRealItem

-----------------------------------------------------------------------------
\* The links of the ring stay inside the ring, reach a different node, and no two nodes
\* link to the same one.
LEMMA NextNodeFacts ==
    /\ \A i \in Nodes : NextNode(i) \in Nodes /\ NextNode(i) # i
    /\ \A i, j \in Nodes : NextNode(i) = NextNode(j) => i = j
  BY RingAssumption DEF Nodes, NextNode

\* Popping takes exactly the node at head out of the window.
LEMMA WindowAfterPop ==
    ASSUME TypeOK, head # tail, head' = NextNode(head), tail' = tail
    PROVE  Window' \subseteq Window /\ head \in Window
  BY RingAssumption DEF TypeOK, Window, Nodes, NextNode

\* A push whose next node is free adds exactly the node at tail to the window.
LEMMA WindowAfterPush ==
    ASSUME TypeOK, NextNode(tail) # head, tail' = NextNode(tail), head' = head
    PROVE  Window' \subseteq Window \cup {tail}
  BY RingAssumption DEF TypeOK, Window, Nodes, NextNode

\* The node just behind head is never in the window, nor is the node at tail.
LEMMA OutsideWindow ==
    ASSUME TypeOK
    PROVE  /\ tail \notin Window
           /\ NextNode(oldHead) = head => oldHead \notin Window
           /\ Window \subseteq Nodes
  BY RingAssumption DEF TypeOK, Window, Nodes, NextNode

\* Two writers are never both inside push(): the mutex, or there being one writer, excludes it.
LEMMA OneWriter ==
    ASSUME HoldsMutex, NEW v \in Writers, NEW w \in Writers, InPush(v), InPush(w)
    PROVE  v = w
  BY WriterAssumption DEF HoldsMutex

-----------------------------------------------------------------------------
\* An empty queue satisfies the invariant.
LEMMA InitIInv == Init => IInv
  BY RingAssumption, WriterAssumption
     DEF Init, IInv, TypeOK, Nodes, WriterPC, ReaderPC, HoldsMutex, InPush, SpareNode,
         ReaderBehind, Reading, CarriesItem, QueuedNotNull, Window, PopsRealItem

\* Every step of push(), pop() and their callers preserves the inductive invariant.
LEMMA NextIInv == IInv /\ [Next]_vars => IInv'
  <1> SUFFICES ASSUME IInv, [Next]_vars PROVE IInv'
    OBVIOUS
  <1> USE RingAssumption, WriterAssumption DEF IInv
  <1>1. ASSUME NEW w \in Writers, NEW v \in Values, CallPush(w, v)
        PROVE  IInv'
    BY <1>1 DEF CallPush, TypeOK, WriterPC, HoldsMutex, InPush, SpareNode, ReaderBehind,
                Reading, CarriesItem, QueuedNotNull, Window, PopsRealItem, Nodes
  <1>2. ASSUME NEW w \in Writers, LockFunc(w)
        PROVE  IInv'
    BY <1>2 DEF LockFunc, TypeOK, WriterPC, HoldsMutex, InPush, SpareNode, ReaderBehind,
                Reading, CarriesItem, QueuedNotNull, Window, PopsRealItem, Nodes
  <1>3. ASSUME NEW w \in Writers, StallExit(w)
        PROVE  IInv'
    BY <1>3 DEF StallExit, TypeOK, WriterPC, HoldsMutex, InPush, SpareNode, ReaderBehind,
                Reading, CarriesItem, QueuedNotNull, Window, PopsRealItem, Nodes
  <1>4. ASSUME NEW w \in Writers, WriteData(w)
        PROVE  IInv'
    BY <1>4 DEF WriteData, TypeOK, WriterPC, HoldsMutex, InPush, SpareNode, ReaderBehind,
                Reading, CarriesItem, QueuedNotNull, Window, PopsRealItem, Nodes
  <1>5. ASSUME NEW w \in Writers, AdvanceTail(w)
        PROVE  IInv'
    <2> USE <1>5 DEF AdvanceTail
    <2>1. TypeOK'
      BY NextNodeFacts DEF TypeOK, WriterPC
    <2>2. HoldsMutex'
      BY DEF TypeOK, HoldsMutex, InPush
    <2>3. \A u \in Writers : InPush(u) => u = w
      BY OneWriter DEF InPush
    <2>4. SpareNode' /\ CarriesItem'
      BY <2>3 DEF TypeOK, SpareNode, CarriesItem, InPush
    <2>5. ReaderBehind'
      BY DEF ReaderBehind, Reading, SpareNode
    <2>6. QueuedNotNull'
      BY WindowAfterPush DEF QueuedNotNull, SpareNode, CarriesItem
    <2>7. PopsRealItem'
      BY DEF PopsRealItem
    <2> QED BY <2>1, <2>2, <2>4, <2>5, <2>6, <2>7
  <1>6. ASSUME NEW w \in Writers, UnlockFunc(w)
        PROVE  IInv'
    <2> USE <1>6 DEF UnlockFunc
    <2>1. \A u \in Writers : InPush(u) => u = w
      BY OneWriter DEF InPush
    <2> QED
      BY <2>1 DEF TypeOK, WriterPC, HoldsMutex, InPush, SpareNode, ReaderBehind,
                  Reading, CarriesItem, QueuedNotNull, Window, PopsRealItem, Nodes
  <1>7. ASSUME PollNonEmpty
        PROVE  IInv'
    BY <1>7 DEF PollNonEmpty, empty, TypeOK, ReaderPC, HoldsMutex, InPush, SpareNode,
                ReaderBehind, Reading, CarriesItem, QueuedNotNull, Window, PopsRealItem, Nodes
  <1>8. ASSUME PopHead
        PROVE  IInv'
    <2> USE <1>8 DEF PopHead
    <2>1. head # tail /\ head' = NextNode(head) /\ rpc' = "read"
      BY DEF ReaderBehind
    <2>2. TypeOK'
      BY <2>1, NextNodeFacts DEF TypeOK, ReaderPC
    <2>3. SpareNode'
      BY <2>1, NextNodeFacts DEF TypeOK, SpareNode
    <2>4. ReaderBehind'
      BY <2>1, WindowAfterPop DEF ReaderBehind, Reading, QueuedNotNull
    <2>5. QueuedNotNull'
      BY <2>1, WindowAfterPop DEF QueuedNotNull
    <2>6. HoldsMutex' /\ CarriesItem' /\ PopsRealItem'
      BY <2>1 DEF HoldsMutex, InPush, CarriesItem, PopsRealItem
    <2> QED BY <2>2, <2>3, <2>4, <2>5, <2>6
  <1>9. ASSUME ReadData
        PROVE  IInv'
    BY <1>9 DEF ReadData, TypeOK, ReaderPC, HoldsMutex, InPush, SpareNode, ReaderBehind,
                Reading, CarriesItem, QueuedNotNull, Window, PopsRealItem, Nodes
  <1>10. ASSUME ResetData
         PROVE  IInv'
    <2> USE <1>10 DEF ResetData
    <2>1. oldHead \notin Window
      BY OutsideWindow DEF ReaderBehind, Reading
    <2>2. \A w \in Writers : wpc[w] = "advance" => tail # oldHead
      BY DEF SpareNode, ReaderBehind, Reading
    <2>3. Window' = Window
      BY DEF Window
    <2>4. TypeOK'
      BY DEF TypeOK, ReaderPC
    <2>5. QueuedNotNull'
      BY <2>1, <2>3, OutsideWindow DEF QueuedNotNull, TypeOK
    <2>6. CarriesItem'
      BY <2>2 DEF CarriesItem, TypeOK
    <2>7. HoldsMutex' /\ SpareNode' /\ ReaderBehind' /\ PopsRealItem'
      BY DEF HoldsMutex, InPush, SpareNode, ReaderBehind, Reading, PopsRealItem
    <2> QED BY <2>4, <2>5, <2>6, <2>7
  <1>11. ASSUME ReturnPop
         PROVE  IInv'
    BY <1>11 DEF ReturnPop, TypeOK, ReaderPC, HoldsMutex, InPush, SpareNode, ReaderBehind,
                 Reading, CarriesItem, QueuedNotNull, Window, PopsRealItem, Nodes
  <1>12. ASSUME UNCHANGED vars
         PROVE  IInv'
    BY <1>12 DEF vars, TypeOK, HoldsMutex, InPush, SpareNode, ReaderBehind,
                 Reading, CarriesItem, QueuedNotNull, Window, PopsRealItem, Nodes
  <1> QED
    BY <1>1, <1>2, <1>3, <1>4, <1>5, <1>6, <1>7, <1>8, <1>9, <1>10, <1>11, <1>12
       DEF Next, PushStep, PopStep

-----------------------------------------------------------------------------
\* The inductive invariant holds in every reachable state of the queue.
THEOREM QueueInvariant == Spec => []IInv
  BY InitIInv, NextIInv, PTL DEF Spec

\* TypeOK: every variable keeps its type, for every ring size and set of writers.
THEOREM TypeCorrect == Spec => []TypeOK
  <1>1. IInv => TypeOK
    BY DEF IInv
  <1> QED BY <1>1, QueueInvariant, PTL

\* NoSlotRace: push never fills the node that pop is still reading.
THEOREM NoSlotRaceHolds == Spec => []NoSlotRace
  <1>1. IInv => NoSlotRace
    BY DEF IInv, NoSlotRace, SpareNode, ReaderBehind
  <1> QED BY <1>1, QueueInvariant, PTL

\* PopsRealItem: pop never returns a null item.
THEOREM PopsRealItemHolds == Spec => []PopsRealItem
  <1>1. IInv => PopsRealItem
    BY DEF IInv
  <1> QED BY <1>1, QueueInvariant, PTL

\* WindowHoldsItems: what was pushed and not popped is found between head and tail.
THEOREM WindowHoldsItemsHolds == Spec => []WindowHoldsItems
  <1>1. IInv => WindowHoldsItems
    BY OutsideWindow DEF IInv, WindowHoldsItems, QueuedNotNull, ReaderBehind
  <1> QED BY <1>1, QueueInvariant, PTL

-----------------------------------------------------------------------------
(* The refinement: AbstractQueue goes through the steps of BoundedFifo *)

\* The k-th node after head is in the window exactly for the k below its size.
LEMMA AfterHead ==
    ASSUME TypeOK
    PROVE  /\ WindowSize \in Nat
           /\ WindowSize < RingBufferSize
           /\ \A k \in Nat : k < WindowSize => After(head, k) \in Window
           /\ After(head, WindowSize) = tail
  BY RingAssumption DEF TypeOK, Window, WindowSize, After, Nodes

\* A pop shortens the window by its first node.
LEMMA SizeAfterPop ==
    ASSUME TypeOK, head # tail, head' = NextNode(head), tail' = tail
    PROVE  /\ WindowSize > 0
           /\ WindowSize' = WindowSize - 1
           /\ After(head, 0) = head
           /\ \A k \in Nat : k < WindowSize' => After(head', k) = After(head, k + 1)
  BY RingAssumption DEF TypeOK, WindowSize, After, Nodes, NextNode

\* A push lengthens the window by one, and stays below the number of nodes.
LEMMA SizeAfterPush ==
    ASSUME TypeOK, NextNode(tail) # head, tail' = NextNode(tail), head' = head
    PROVE  /\ WindowSize' = WindowSize + 1
           /\ WindowSize + 1 < RingBufferSize
  BY RingAssumption DEF TypeOK, WindowSize, Nodes, NextNode

\* The abstract queue is a sequence of items.
LEMMA QueueIsSequence ==
    ASSUME IInv
    PROVE  /\ QueuedItems \in Seq(Values \cup {NULL})
           /\ Len(QueuedItems) = WindowSize
           /\ AbstractQueue \in Seq(Values \cup {NULL})
           /\ Len(AbstractQueue) = IF rpc = "read" THEN WindowSize + 1 ELSE WindowSize
  <1>1. TypeOK
    BY DEF IInv
  <1>2. WindowSize \in Nat /\ \A k \in Nat : k < WindowSize => After(head, k) \in Nodes
    BY <1>1, AfterHead, OutsideWindow
  <1>3. \A k \in 1 .. WindowSize : data[After(head, k - 1)] \in Values \cup {NULL}
    BY <1>1, <1>2 DEF TypeOK
  <1>4. QueuedItems \in Seq(Values \cup {NULL}) /\ Len(QueuedItems) = WindowSize
    BY <1>2, <1>3 DEF QueuedItems
  <1>5. CASE rpc = "read"
    <2>1. \A k \in 1 .. WindowSize + 1 :
             (IF k = 1 THEN data[oldHead] ELSE data[After(head, k - 2)]) \in Values \cup {NULL}
      BY <1>1, <1>2 DEF TypeOK
    <2> QED BY <1>2, <1>4, <1>5, <2>1 DEF AbstractQueue
  <1> QED BY <1>4, <1>5 DEF AbstractQueue


\* A step that leaves the nodes of the window, head, tail and the reader's place alone
\* is invisible to the users of the queue.
LEMMA QueueUnchanged ==
    ASSUME TypeOK, head' = head, tail' = tail, oldHead' = oldHead,
           (rpc = "read") = (rpc' = "read"),
           \A i \in Window : data'[i] = data[i],
           rpc = "read" => data'[oldHead] = data[oldHead]
    PROVE  AbstractQueue' = AbstractQueue
  <1>1. WindowSize' = WindowSize /\ WindowSize \in Nat
    BY AfterHead DEF WindowSize
  <1>2. \A k \in 1 .. WindowSize : data'[After(head, k - 1)] = data[After(head, k - 1)]
    BY AfterHead
  <1>3. \A k \in 2 .. WindowSize + 1 : data'[After(head, k - 2)] = data[After(head, k - 2)]
    BY AfterHead
  <1>4. QueuedItems' = QueuedItems
    BY <1>1, <1>2 DEF QueuedItems, After
  <1>5. CASE rpc = "read"
    BY <1>1, <1>3, <1>5 DEF AbstractQueue, After
  <1> QED BY <1>4, <1>5 DEF AbstractQueue

\* The store to tail is the abstract push.
LEMMA AdvanceTailPushes ==
    ASSUME IInv, NEW w \in Writers, AdvanceTail(w)
    PROVE  \E v \in Values : Fifo!Push(v)
  <1> DEFINE v == data[tail]
  <1>1. TypeOK /\ NextNode(tail) # head /\ tail' = NextNode(tail) /\ head' = head
    BY DEF IInv, SpareNode, AdvanceTail
  <1>2. v \in Values
    BY DEF IInv, CarriesItem, AdvanceTail, TypeOK
  <1>3. /\ WindowSize' = WindowSize + 1
        /\ WindowSize + 1 < RingBufferSize
        /\ WindowSize \in Nat
        /\ After(head, WindowSize) = tail
    BY <1>1, SizeAfterPush, AfterHead
  <1>4. rpc' = rpc /\ data' = data /\ oldHead' = oldHead /\ result' = result
    BY DEF AdvanceTail
  <1>5. \A k : After(head, k)' = After(head, k)
    BY <1>1 DEF After
  <1>6. Len(AbstractQueue) < RingBufferSize
    BY <1>3, QueueIsSequence, RingAssumption
  <1>7. AbstractQueue' = Append(AbstractQueue, v)
    <2>1. CASE rpc = "read"
      BY <1>1, <1>3, <1>4, <2>1, QueueIsSequence DEF AbstractQueue, After
    <2>2. CASE rpc # "read"
      BY <1>1, <1>3, <1>4, <2>2, QueueIsSequence DEF AbstractQueue, QueuedItems, After
    <2> QED BY <2>1, <2>2
  <1> QED BY <1>2, <1>4, <1>6, <1>7 DEF Fifo!Push

\* pop_head() moves head and is invisible: the item it took leaves when its data is read.
LEMMA PopHeadInvisible ==
    ASSUME IInv, PopHead
    PROVE  AbstractQueue' = AbstractQueue
  <1>1. /\ TypeOK /\ head # tail /\ head' = NextNode(head) /\ tail' = tail
        /\ rpc = "pop" /\ rpc' = "read" /\ oldHead' = head /\ data' = data
    BY DEF IInv, ReaderBehind, PopHead
  <1>2. /\ WindowSize > 0 /\ WindowSize' = WindowSize - 1 /\ WindowSize \in Nat
        /\ After(head, 0) = head
        /\ \A k \in Nat : k < WindowSize' => After(head', k) = After(head, k + 1)
    BY <1>1, SizeAfterPop, AfterHead
  <1>3. AbstractQueue = [k \in 1 .. WindowSize |-> data[After(head, k - 1)]]
    BY <1>1 DEF AbstractQueue, QueuedItems
  <1>4. AbstractQueue' = [k \in 1 .. WindowSize' + 1 |->
              IF k = 1 THEN data[head] ELSE data[After(head', k - 2)]]
    BY <1>1 DEF AbstractQueue, After
  <1>5. \A k \in 1 .. WindowSize :
          (IF k = 1 THEN data[head] ELSE data[After(head', k - 2)]) = data[After(head, k - 1)]
    BY <1>2
  <1> QED BY <1>2, <1>3, <1>4, <1>5

\* The read of oldHead->data is the abstract pop.
LEMMA ReadDataPops ==
    ASSUME IInv, ReadData
    PROVE  Fifo!Pop
  <1>1. WindowSize \in Nat
    BY AfterHead DEF IInv
  <1>2. /\ rpc = "read" /\ rpc' = "reset" /\ result' = data[oldHead]
        /\ head' = head /\ tail' = tail /\ data' = data
    BY DEF ReadData
  <1>3. AbstractQueue' = QueuedItems
    BY <1>2 DEF AbstractQueue, QueuedItems, WindowSize, After
  <1>4. Tail(AbstractQueue) = QueuedItems
    BY <1>1, <1>2, QueueIsSequence DEF AbstractQueue, QueuedItems
  <1>5. AbstractQueue # <<>> /\ Head(AbstractQueue) = data[oldHead]
    BY <1>1, <1>2, QueueIsSequence DEF AbstractQueue
  <1> QED BY <1>2, <1>3, <1>4, <1>5 DEF Fifo!Pop

\* Every step of the queue is a push, a pop, the consumer's dropping of its item, or
\* invisible, to the users of the queue.
LEMMA NextImplementsFifo == IInv /\ [Next]_vars => [Fifo!Next]_(Fifo!fifoVars)
  <1> SUFFICES ASSUME IInv, [Next]_vars
               PROVE  Fifo!Next \/ (AbstractQueue' = AbstractQueue /\ result' = result)
    BY DEF Fifo!fifoVars
  <1>1. TypeOK /\ tail \notin Window /\ (Reading => oldHead \notin Window)
    BY OutsideWindow DEF IInv, ReaderBehind
  <1>2. ASSUME NEW w \in Writers, NEW v \in Values, CallPush(w, v)
        PROVE  AbstractQueue' = AbstractQueue /\ result' = result
    BY <1>1, <1>2, QueueUnchanged DEF CallPush
  <1>3. ASSUME NEW w \in Writers, LockFunc(w) \/ StallExit(w) \/ UnlockFunc(w)
        PROVE  AbstractQueue' = AbstractQueue /\ result' = result
    BY <1>1, <1>3, QueueUnchanged DEF LockFunc, StallExit, UnlockFunc
  <1>4. ASSUME NEW w \in Writers, WriteData(w)
        PROVE  AbstractQueue' = AbstractQueue /\ result' = result
    <2>1. rpc = "read" => oldHead # tail
      BY <1>4 DEF WriteData, IInv, SpareNode, ReaderBehind, Reading
    <2>2. \A i \in Nodes : i # tail => data'[i] = data[i]
      BY <1>1, <1>4 DEF WriteData, TypeOK
    <2>3. Window \subseteq Nodes /\ oldHead \in Nodes
      BY <1>1, OutsideWindow DEF TypeOK
    <2> QED BY <1>1, <1>4, <2>1, <2>2, <2>3, QueueUnchanged DEF WriteData
  <1>5. ASSUME NEW w \in Writers, AdvanceTail(w)
        PROVE  Fifo!Next
    BY <1>5, AdvanceTailPushes DEF Fifo!Next
  <1>6. ASSUME PollNonEmpty
        PROVE  AbstractQueue' = AbstractQueue /\ result' = result
    BY <1>1, <1>6, QueueUnchanged DEF PollNonEmpty
  <1>7. ASSUME PopHead
        PROVE  AbstractQueue' = AbstractQueue /\ result' = result
    BY <1>7, PopHeadInvisible DEF PopHead
  <1>8. ASSUME ReadData
        PROVE  Fifo!Next
    BY <1>8, ReadDataPops DEF Fifo!Next
  <1>9. ASSUME ResetData
        PROVE  AbstractQueue' = AbstractQueue /\ result' = result
    <2>1. \A i \in Nodes : i # oldHead => data'[i] = data[i]
      BY <1>1, <1>9 DEF ResetData, TypeOK
    <2>2. Window \subseteq Nodes /\ oldHead \notin Window
      BY <1>1, <1>9, OutsideWindow DEF ResetData, Reading
    <2> QED BY <1>1, <1>9, <2>1, <2>2, QueueUnchanged DEF ResetData
  <1>10. ASSUME ReturnPop
         PROVE  Fifo!Next
    <2>1. AbstractQueue' = AbstractQueue
      BY <1>1, <1>10, QueueUnchanged DEF ReturnPop
    <2> QED BY <1>10, <2>1 DEF ReturnPop, Fifo!Next, Fifo!Forget
  <1>11. ASSUME UNCHANGED vars
         PROVE  AbstractQueue' = AbstractQueue /\ result' = result
    BY <1>1, <1>11, QueueUnchanged DEF vars
  <1> QED
    BY <1>2, <1>3, <1>4, <1>5, <1>6, <1>7, <1>8, <1>9, <1>10, <1>11
       DEF Next, PushStep, PopStep

\* The empty ring is the empty abstract queue.
LEMMA InitImplementsFifo == Init => Fifo!Init
  <1> SUFFICES ASSUME Init PROVE Fifo!Init
    OBVIOUS
  <1>1. IInv /\ WindowSize = 0 /\ rpc # "read"
    BY InitIInv DEF Init, WindowSize
  <1>2. AbstractQueue = <<>>
    BY <1>1, QueueIsSequence DEF AbstractQueue, QueuedItems
  <1> QED BY <1>2 DEF Init, Fifo!Init

\* ImplementsFifo: with every load and store of push() and pop() a step of its own, the ring
\* of nodes implements the atomic first-in first-out queue its users rely on.
THEOREM RingImplementsFifo == Spec => ImplementsFifo
  BY InitImplementsFifo, NextImplementsFifo, QueueInvariant, PTL
     DEF Spec, ImplementsFifo, Fifo!Spec
==============================================================================
