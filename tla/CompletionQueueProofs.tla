------------------------ MODULE CompletionQueueProofs ------------------------
(***************************************************************************)
(* Proofs about CompletionQueue, for a ring of any size, reads of any      *)
(* length and any number of entries.                                       *)
(*                                                                         *)
(* IInv is about the ring: types are kept, the four pointers stay in order *)
(* and no page is overwritten before it is read.  None of this is          *)
(* inductive alone.  The order of the pointers needs the reader to have    *)
(* decided on no more pages than were published (XferPublished), which     *)
(* survives what the device publishes meanwhile; types need the batch and  *)
(* the transfer not to run below zero.                                     *)
(*                                                                         *)
(* EInv is about the entries, on top of IInv: what each of them is         *)
(* answered by, and that the two counters which finish compares differ by  *)
(* the entries under way.  From it follow what the client relies on:       *)
(* finish and a blocking read return only with the data, and a completed   *)
(* event means that everything up to it was read.  QuietInv adds what      *)
(* holds when the client closes the device after Finish.                   *)
(***************************************************************************)
EXTENDS CompletionQueue, SequenceTheorems, TLAPS

-----------------------------------------------------------------------------
(* The inductive invariant *)

\* The reader is within a batch.
InBatch == rpc \in {"pop", "waitFront", "waitData", "copy", "popFront", "setLast"}

\* What the reader has decided to copy was published, and ends before the ring does.
XferPublished ==
    rpc \in {"copy", "popFront"} =>
        xfer <= Distance(rd, wrWord) /\ rd.ptr + xfer <= Pages

\* The loop of the reader and the transfer of the dispatcher end at zero.
LoopsEnd == (InBatch => toRead >= 1) /\ want <= left

IInv == TypeOK /\ RingInOrder /\ RingContent /\ XferPublished /\ LoopsEnd

ringVars == <<rd, rdCount, wr, landed, landedCount, wrWord, rdWord, ring>>

-----------------------------------------------------------------------------
(* Lemmas on the arithmetic of the ring *)

\* The dispatcher's wrap keeps a pointer in the ring and moves it n pages on.
LEMMA PushBack ==
    ASSUME NEW p \in Pointer, NEW q \in Pointer, NEW n \in Nat,
           Distance(q, p) >= 0, Distance(q, p) + n <= Pages
    PROVE  /\ push_back(p, n) \in Pointer
           /\ Distance(q, push_back(p, n)) = Distance(q, p) + n
  BY SizeAssumption DEF Pointer, Distance, push_back

\* The same from the pointer itself, which may be passed once.
LEMMA PushBackSelf ==
    ASSUME NEW p \in Pointer, NEW n \in 0 .. Pages
    PROVE  /\ push_back(p, n) \in Pointer
           /\ Distance(p, push_back(p, n)) = n
  BY SizeAssumption DEF Pointer, Distance, push_back
\* Distances add up as long as they make at most one round.
LEMMA Chain ==
    ASSUME NEW p \in Pointer, NEW q \in Pointer, NEW r \in Pointer,
           Distance(p, q) >= 0, Distance(q, r) >= 0, Distance(p, q) + Distance(q, r) <= Pages
    PROVE  Distance(p, r) = Distance(p, q) + Distance(q, r)
  BY SizeAssumption DEF Pointer, Distance

\* Distances are integers, and zero only between equal pointers.
LEMMA DistanceInt ==
    ASSUME NEW p \in Pointer, NEW q \in Pointer
    PROVE  Distance(p, q) \in Int /\ (p # q => Distance(p, q) # 0) /\ Distance(p, p) = 0
  BY SizeAssumption DEF Pointer, Distance

\* The host's wrap agrees with the dispatcher's for a copy that ends before the ring does.
LEMMA PopFront ==
    ASSUME NEW p \in Pointer, NEW n \in Nat, p.ptr + n <= Pages
    PROVE  pop_front(p, n) = push_back(p, n)
  BY SizeAssumption DEF Pointer, pop_front, push_back

\* A pointer that moves on behind another one comes that much closer to it.
LEMMA Catch ==
    ASSUME NEW p \in Pointer, NEW q \in Pointer, NEW n \in Nat,
           n <= Distance(p, q), Distance(p, q) <= Pages
    PROVE  /\ push_back(p, n) \in Pointer
           /\ Distance(push_back(p, n), q) = Distance(p, q) - n
           /\ Distance(p, push_back(p, n)) = n
  BY SizeAssumption DEF Pointer, Distance, push_back

\* Counting positions from a pointer that moved on.
LEMMA PositionShift ==
    ASSUME NEW p \in Pointer, NEW n \in Nat, NEW k \in Nat, n + k < Pages
    PROVE  Position(push_back(p, n), k) = Position(p, n + k)
  BY SizeAssumption DEF Pointer, Position, push_back

\* The positions of less than a round are distinct pages of the ring, and q lies Distance(p, q) pages after p.
LEMMA PositionOf ==
    ASSUME NEW p \in Pointer, NEW q \in Pointer, Distance(p, q) >= 0, Distance(p, q) < Pages
    PROVE  /\ Position(p, Distance(p, q)) = q.ptr
           /\ \A k \in 0 .. Distance(p, q) - 1 : Position(p, k) # q.ptr /\ Position(p, k) \in 0 .. Pages - 1
  BY SizeAssumption DEF Pointer, Distance, Position

-----------------------------------------------------------------------------
(* The ring *)

\* Every step keeps the pointers of the ring in order and the pages between them as they were written.
LEMMA RingStep == IInv /\ Next => (RingInOrder /\ RingContent)'
<1> SUFFICES ASSUME IInv, Next PROVE (RingInOrder /\ RingContent)'
  OBVIOUS
<1> DEFINE a == Distance(rdWord, rd)
           b == Distance(rd, wrWord)
           c == Distance(wrWord, landed)
           d == Distance(landed, wr)
<1>1. /\ rdWord \in Pointer /\ rd \in Pointer /\ wrWord \in Pointer /\ landed \in Pointer /\ wr \in Pointer
      /\ rdCount \in Nat /\ landedCount \in Nat /\ want \in Nat /\ xfer \in Nat
      /\ ring \in [0 .. Pages - 1 -> Nat]
  BY SizeAssumption DEF IInv, TypeOK
<1>2. a \in Nat /\ b \in Nat /\ c \in Nat /\ d \in Nat /\ a + b + c + d <= Pages /\ Distance(rdWord, wr) = a + b + c + d
  BY <1>1, DistanceInt DEF IInv, RingInOrder
<1>3. Pages \in Nat \ {0}
  BY SizeAssumption
<1>4. Distance(rd, landed) = b + c /\ Distance(rd, wr) = b + c + d /\ Distance(wrWord, wr) = c + d
  <2>1. Distance(rd, wrWord) >= 0 /\ Distance(wrWord, landed) >= 0 /\ Distance(landed, wr) >= 0
        /\ Distance(rd, wrWord) + Distance(wrWord, landed) <= Pages
        /\ Distance(wrWord, landed) + Distance(landed, wr) <= Pages
    BY <1>2, <1>3
  <2>2. Distance(rd, landed) = b + c
    BY <1>1, <2>1, Chain
  <2>3. Distance(wrWord, wr) = c + d
    BY <1>1, <2>1, Chain
  <2>4. Distance(wrWord, wr) >= 0 /\ Distance(rd, wrWord) + Distance(wrWord, wr) <= Pages
    BY <1>2, <1>3, <2>3
  <2>5. Distance(rd, wr) = b + c + d
    <3>1. Distance(rd, wr) = Distance(rd, wrWord) + Distance(wrWord, wr)
      BY <1>1, <2>1, <2>4, Chain
    <3> QED
      BY <3>1, <2>3, <1>2
  <2> QED
    BY <2>2, <2>3, <2>5
<1>5. CASE UNCHANGED ringVars
  BY <1>5 DEF IInv, RingInOrder, RingContent, ringVars, Distance, Position
<1>6. CASE DeviceXfer
  <2>1. want <= Pages - Distance(rdWord, wr) /\ wr' = push_back(wr, want)
    <3>1. Distance(rdWord, wr) \in 0 .. Pages
      BY <1>2, <1>3
    <3>2. available_space = Pages - Distance(rdWord, wr)
      BY <3>1, <1>1, <1>3 DEF available_space, Distance, Pointer
    <3> QED
      BY <3>2, <1>6 DEF DeviceXfer
  <2>2. UNCHANGED <<rd, rdCount, landed, landedCount, wrWord, rdWord, ring>>
    BY <1>6 DEF DeviceXfer, readerVars
  <2>3. Distance(rdWord, wr') = Distance(rdWord, wr) + want /\ Distance(landed, wr') = d + want
    <3>1. Distance(rdWord, wr) >= 0 /\ Distance(rdWord, wr) + want <= Pages
      BY <2>1, <1>1, <1>2, <1>3
    <3>2. Distance(landed, wr) >= 0 /\ Distance(landed, wr) + want <= Pages
      BY <2>1, <1>1, <1>2, <1>3
    <3>3. Distance(rdWord, push_back(wr, want)) = Distance(rdWord, wr) + want
      BY <3>1, <1>1, PushBack
    <3>4. Distance(landed, push_back(wr, want)) = Distance(landed, wr) + want
      BY <3>2, <1>1, PushBack
    <3> QED
      BY <3>3, <3>4, <2>1
  <2> QED
    BY <2>1, <2>2, <2>3, <1>1, <1>2, <1>3, SMTT(30) DEF IInv, RingInOrder, RingContent
<1>7. CASE PageLands
  <2>1. /\ landed' = push_back(landed, 1) /\ landedCount' = landedCount + 1
        /\ ring' = [ring EXCEPT ![landed.ptr] = landedCount + 1]
        /\ UNCHANGED <<rd, rdCount, wr, wrWord, rdWord>>
    BY <1>7 DEF PageLands, readerVars
  <2>2. d >= 1
    BY <1>7, <1>1, <1>2, DistanceInt DEF PageLands
  <2>3. landed' \in Pointer /\ Distance(landed', wr) = d - 1
    <3>1. 1 <= Distance(landed, wr) /\ Distance(landed, wr) <= Pages /\ 1 \in Nat
      BY <2>2, <1>2, <1>3
    <3> QED
      BY <3>1, <2>1, <1>1, Catch
  <2>4. Distance(wrWord, landed') = c + 1 /\ Distance(rd, landed') = b + c + 1
    <3>1. Distance(wrWord, landed) >= 0 /\ Distance(wrWord, landed) + 1 <= Pages /\ 1 \in Nat
      BY <2>2, <1>2, <1>3
    <3>2. Distance(rd, landed) >= 0 /\ Distance(rd, landed) + 1 <= Pages
      BY <2>2, <1>2, <1>3, <1>4
    <3>3. Distance(wrWord, push_back(landed, 1)) = Distance(wrWord, landed) + 1
      BY <3>1, <1>1, PushBack
    <3>4. Distance(rd, push_back(landed, 1)) = Distance(rd, landed) + 1
      BY <3>1, <3>2, <1>1, PushBack
    <3> QED
      BY <3>3, <3>4, <2>1, <1>4
  <2>5. RingInOrder'
    BY <2>1, <2>2, <2>3, <2>4, <1>2 DEF RingInOrder
  <2>6. /\ Position(rd, b + c) = landed.ptr
        /\ \A k \in 0 .. b + c - 1 : Position(rd, k) # landed.ptr /\ Position(rd, k) \in 0 .. Pages - 1
    <3>1. Distance(rd, landed) >= 0 /\ Distance(rd, landed) < Pages
      BY <2>2, <1>2, <1>3, <1>4
    <3>2. /\ Position(rd, Distance(rd, landed)) = landed.ptr
          /\ \A k \in 0 .. Distance(rd, landed) - 1 :
                Position(rd, k) # landed.ptr /\ Position(rd, k) \in 0 .. Pages - 1
      BY <3>1, <1>1, PositionOf
    <3> QED
      BY <3>2, <1>4, <1>1, <1>2, <1>3, SMTT(30)
  <2>7. landedCount' = rdCount + Distance(rd, landed')
    BY <2>1, <2>4, <1>1, <1>2, <1>4 DEF IInv, RingContent
  <2>8. ASSUME NEW k \in 0 .. b + c PROVE ring'[Position(rd, k)] = rdCount + k + 1
    <3> HIDE DEF a, b, c, d
    <3>1. landedCount = rdCount + b + c
      BY <1>1, <1>2, <1>4 DEF IInv, RingContent
    <3>2. CASE k = b + c
      <4>1. landed.ptr \in 0 .. Pages - 1
        BY <1>1 DEF Pointer
      <4> QED
        BY <3>1, <3>2, <4>1, <2>1, <2>6, <1>1, <1>2
    <3>3. CASE k # b + c
      <4>1. k \in 0 .. b + c - 1
        BY <3>3, <1>2
      <4>2. ring[Position(rd, k)] = rdCount + k + 1
        <5>1. \A j \in 0 .. b + c - 1 : ring[Position(rd, j)] = rdCount + j + 1
          BY <1>4, <1>1, <1>2 DEF IInv, RingContent
        <5> QED
          BY <4>1, <5>1
      <4> QED
        BY <4>1, <4>2, <2>1, <2>6, <1>1
    <3> QED
      BY <3>2, <3>3
  <2>9. RingContent'
    <3> HIDE DEF a, b, c, d
    <3>1. Distance(rd, landed')  - 1 = b + c
      BY <2>4, <1>2
    <3>2. \A k \in 0 .. Distance(rd, landed') - 1 : ring'[Position(rd, k)] = rdCount + k + 1
      BY <3>1, <2>8
    <3> QED
      BY <3>2, <2>7, <2>1 DEF RingContent, Distance, Position
  <2> QED
    BY <2>5, <2>9
<1>8. CASE WritePtrLands
  <2>1. wrWord' = landed /\ UNCHANGED <<rd, rdCount, wr, landed, landedCount, rdWord, ring>>
    BY <1>8 DEF WritePtrLands, readerVars
  <2>2. Distance(landed, landed) = 0
    BY <1>1, DistanceInt
  <2> QED
    BY <2>1, <2>2, <1>2, <1>4 DEF IInv, RingInOrder, RingContent
<1>9. CASE ReadPtrLands
  <2>1. rdWord' = rd /\ UNCHANGED <<rd, rdCount, wr, landed, landedCount, wrWord, ring>>
    BY <1>9 DEF ReadPtrLands, readerVars
  <2>2. Distance(rd, rd) = 0
    BY <1>1, DistanceInt
  <2>3. RingInOrder'
    BY <2>1, <2>2, <1>2, <1>3, <1>4 DEF RingInOrder
  <2>4. RingContent'
    BY <2>1 DEF IInv, RingContent
  <2> QED
    BY <2>3, <2>4
<1>10. CASE ReaderPopFront
  <2>1. /\ rd' = push_back(rd, xfer) /\ rdCount' = rdCount + xfer
        /\ UNCHANGED <<wr, landed, landedCount, wrWord, rdWord, ring>>
        /\ xfer <= b
    BY <1>10, <1>1, PopFront DEF ReaderPopFront, deviceVars, IInv, XferPublished
  <2>2. rd' \in Pointer /\ Distance(rd', wrWord) = b - xfer /\ Distance(rd', landed) = b + c - xfer
    <3>1. xfer <= Distance(rd, wrWord) /\ Distance(rd, wrWord) <= Pages
      BY <2>1, <1>1, <1>2, <1>3
    <3>2. xfer <= Distance(rd, landed) /\ Distance(rd, landed) <= Pages
      BY <2>1, <1>1, <1>2, <1>3, <1>4, SMTT(30)
    <3>3. push_back(rd, xfer) \in Pointer /\ Distance(push_back(rd, xfer), wrWord) = Distance(rd, wrWord) - xfer
      BY <3>1, <1>1, Catch
    <3>4. Distance(push_back(rd, xfer), landed) = Distance(rd, landed) - xfer
      BY <3>2, <1>1, Catch
    <3> QED
      BY <3>3, <3>4, <2>1, <1>4, <1>1, <1>2
  <2>3. Distance(rdWord, rd') = a + xfer
    <3>1. Distance(rdWord, rd) >= 0 /\ Distance(rdWord, rd) + xfer <= Pages
      BY <2>1, <1>1, <1>2, <1>3
    <3>2. Distance(rdWord, push_back(rd, xfer)) = Distance(rdWord, rd) + xfer
      BY <3>1, <1>1, PushBack
    <3> QED
      BY <3>2, <2>1
  <2>4. RingInOrder'
    BY <2>1, <2>2, <2>3, <1>1, <1>2 DEF RingInOrder
  <2>5. ASSUME NEW k \in 0 .. b + c - xfer - 1 PROVE ring[Position(rd', k)] = rdCount' + k + 1
    <3> HIDE DEF a, b, c, d
    <3>1. k \in Nat /\ xfer + k \in 0 .. b + c - 1 /\ xfer + k < Pages
      BY <1>1, <1>2, <1>3, <2>1
    <3>2. ring[Position(rd, xfer + k)] = rdCount + (xfer + k) + 1
      <4>1. \A j \in 0 .. b + c - 1 : ring[Position(rd, j)] = rdCount + j + 1
        BY <1>4, <1>1, <1>2 DEF IInv, RingContent
      <4> QED
        BY <3>1, <4>1
    <3>3. Position(rd', k) = Position(rd, xfer + k)
      BY <3>1, <2>1, <1>1, PositionShift
    <3> QED
      BY <3>1, <3>2, <3>3, <2>1, <1>1
  <2>6. landedCount' = rdCount' + Distance(rd', landed)
    BY <2>1, <2>2, <1>1, <1>2, <1>4 DEF IInv, RingContent
  <2>7. RingContent'
    <3> HIDE DEF a, b, c, d
    <3>1. \A k \in 0 .. Distance(rd', landed) - 1 : ring[Position(rd', k)] = rdCount' + k + 1
      BY <2>5, <2>2, <1>1, <1>2
    <3> QED
      BY <3>1, <2>6, <2>1 DEF RingContent, Distance, Position
  <2> QED
    BY <2>4, <2>7
<1> QED
  BY <1>5, <1>6, <1>7, <1>8, <1>9, <1>10
     DEF Next, Step, ClientCall, ClientStep, ReaderStep, DeviceStep, ringVars, vars, clientVars, countVars, readerVars,
         deviceVars, EnqueueRead, EnqueueBlockingRead, EnqueueRecordEvent, finish, Destroy, PushDescriptor,
         EventCommand, ReadCommand, increment_num_entries, NotifyReader, FinishDone, FinishSleeps, HangDetected,
         HangNotify, ExitNotify, Join, ReaderCheck, ReaderCount, ReaderPop, ReaderWaitFront, ReaderWaitData,
         ReaderCopy, set_last_completed_event, ReaderComplete, NotifyFinish, DeviceTake, DeviceXferSize,
         SpuriousWake, DeviceHangs, Terminated

-----------------------------------------------------------------------------
(* The reader and the loops *)

\* The pages that the reader copies have been published.
LEMMA ReaderXferStep == IInv /\ Next => XferPublished'
<1> SUFFICES ASSUME IInv, Next PROVE XferPublished'
  OBVIOUS
<1>1. /\ rd \in Pointer /\ wrWord \in Pointer /\ landed \in Pointer /\ Pages \in Nat \ {0}
      /\ xfer \in Nat /\ remaining \in Nat
      /\ Distance(rd, wrWord) >= 0 /\ Distance(wrWord, landed) >= 0
      /\ Distance(rd, wrWord) \in Int /\ Distance(wrWord, landed) \in Int
  BY SizeAssumption, DistanceInt DEF IInv, TypeOK, RingInOrder
<1>2. CASE UNCHANGED <<rpc, rd, xfer, wrWord>>
  BY <1>2 DEF IInv, XferPublished, Distance
<1>3. CASE WritePtrLands
  <2>1. wrWord' = landed /\ UNCHANGED <<rpc, rd, xfer>>
    BY <1>3 DEF WritePtrLands, readerVars
  <2>2. Distance(rd, wrWord) + Distance(wrWord, landed) <= Pages
    <3>1. Distance(rdWord, rd) \in Int /\ Distance(landed, wr) \in Int
      BY DistanceInt DEF IInv, TypeOK
    <3> QED
      BY <3>1, <1>1 DEF IInv, RingInOrder
  <2>3. Distance(rd, landed) = Distance(rd, wrWord) + Distance(wrWord, landed)
    BY <2>2, <1>1, Chain
  <2>4. Distance(rd, wrWord') >= Distance(rd, wrWord)
    BY <2>1, <2>3, <1>1
  <2>5. Distance(rd, wrWord') \in Int
    BY <2>1, <1>1, DistanceInt
  <2>6. rpc' \in {"copy", "popFront"} => xfer <= Distance(rd, wrWord) /\ rd.ptr + xfer <= Pages
    BY <2>1 DEF IInv, XferPublished
  <2>7. rpc' \in {"copy", "popFront"} => xfer <= Distance(rd, wrWord') /\ rd.ptr + xfer <= Pages
    BY <2>4, <2>5, <2>6, <1>1
  <2> QED
    BY <2>1, <2>7 DEF XferPublished, Distance
<1>4. CASE ReaderWaitFront
  <2>1. UNCHANGED <<rd, wrWord>> /\ (rpc' \in {"copy", "popFront"} => xfer' = 1 /\ rd # wrWord)
    BY <1>4 DEF ReaderWaitFront, wait_front, deviceVars
  <2>2. rd # wrWord => Distance(rd, wrWord) >= 1
    BY <1>1, DistanceInt
  <2>3. rd.ptr + 1 <= Pages
    BY <1>1 DEF Pointer
  <2> QED
    BY <2>1, <2>2, <2>3 DEF XferPublished, Distance
<1>5. CASE ReaderWaitData
  <2>1. /\ UNCHANGED <<rd, wrWord>>
        /\ rpc' \in {"copy", "popFront"} =>
             rd # wrWord /\ xfer' = IF remaining < pages_avail THEN remaining ELSE pages_avail
    BY <1>5 DEF ReaderWaitData, NextOfBatch, wait_front, deviceVars
  <2>2. rd # wrWord => pages_avail <= Distance(rd, wrWord) /\ rd.ptr + pages_avail <= Pages /\ pages_avail \in Nat
    BY <1>1 DEF Pointer, pages_avail, Distance
  <2>3. rpc' \in {"copy", "popFront"} => xfer' <= Distance(rd, wrWord) /\ rd.ptr + xfer' <= Pages
    <3>1. rd.ptr \in Int
      BY <1>1 DEF Pointer
    <3> QED
      BY <2>1, <2>2, <3>1, <1>1
  <2> QED
    BY <2>1, <2>3 DEF XferPublished, Distance
<1>6. CASE ReaderCopy
  BY <1>6 DEF ReaderCopy, IInv, XferPublished, Distance, deviceVars
<1>7. CASE ReaderPopFront
  BY <1>7 DEF ReaderPopFront, NextOfBatch, XferPublished
<1>8. CASE /\ UNCHANGED <<rd, xfer, wrWord>>
           /\ rpc' \in {"check", "asleep", "count", "pop", "waitFront", "complete", "notifyFinish", "returned"} \cup {rpc}
  BY <1>8 DEF IInv, XferPublished, Distance
<1> QED
  BY <1>2, <1>3, <1>4, <1>5, <1>6, <1>7, <1>8
     DEF Next, Step, ClientCall, ClientStep, ReaderStep, DeviceStep, vars, clientVars, countVars, readerVars,
         deviceVars, EnqueueRead, EnqueueBlockingRead, EnqueueRecordEvent, finish, Destroy, PushDescriptor,
         EventCommand, ReadCommand, increment_num_entries, NotifyReader, WakeReader, FinishDone, FinishSleeps,
         HangDetected, HangNotify, ExitNotify, Join, ReaderCheck, ReaderCount, ReaderPop, NextOfBatch,
         set_last_completed_event, ReaderComplete, NotifyFinish, DeviceTake, DeviceXferSize, DeviceXfer, PageLands,
         ReadPtrLands, SpuriousWake, DeviceHangs, Terminated

\* The loop of the reader and the transfer of the dispatcher never run below zero.
LEMMA LoopStep == IInv /\ Next => LoopsEnd'
<1> SUFFICES ASSUME IInv, Next PROVE LoopsEnd'
  OBVIOUS
<1>1. toRead \in Nat /\ want \in Nat /\ left \in Nat /\ entries \in Nat /\ completed \in Nat
  BY SizeAssumption DEF IInv, TypeOK
<1>2. want' <= left'
  <2>1. CASE UNCHANGED <<want, left>>
    BY <2>1 DEF IInv, LoopsEnd
  <2>2. CASE DeviceTake
    <3>1. left' \in Nat
      <4>1. devQ \in Seq(Nat) /\ devQ # <<>>
        BY <2>2 DEF DeviceTake, IInv, TypeOK
      <4> QED
        BY <4>1, <2>2 DEF DeviceTake
    <3> QED
      BY <3>1, <2>2, <1>1 DEF DeviceTake, IInv, LoopsEnd
  <2>3. CASE DeviceXferSize
    BY <2>3 DEF DeviceXferSize
  <2>4. CASE DeviceXfer
    BY <2>4, <1>1 DEF DeviceXfer, IInv, LoopsEnd
  <2> QED
    BY <2>1, <2>2, <2>3, <2>4
       DEF Next, Step, ClientCall, ClientStep, ReaderStep, DeviceStep, vars, clientVars, countVars, readerVars,
           deviceVars, EnqueueRead, EnqueueBlockingRead, EnqueueRecordEvent, finish, Destroy, PushDescriptor,
           EventCommand, ReadCommand, increment_num_entries, NotifyReader, FinishDone, FinishSleeps,
           HangDetected, HangNotify, ExitNotify, Join, ReaderCheck, ReaderCount, ReaderPop, ReaderWaitFront,
           ReaderWaitData, ReaderCopy, ReaderPopFront, set_last_completed_event, ReaderComplete, NotifyFinish,
           PageLands, WritePtrLands, ReadPtrLands, SpuriousWake, DeviceHangs, Terminated
<1>3. (InBatch => toRead >= 1)'
  <2>1. CASE UNCHANGED <<rpc, toRead>>
    BY <2>1 DEF IInv, LoopsEnd, InBatch
  <2>2. CASE ReaderCount
    BY <2>2, <1>1 DEF ReaderCount, InBatch
  <2>3. CASE toRead' = toRead /\ InBatch
    BY <2>3 DEF IInv, LoopsEnd
  <2>4. CASE NextOfBatch
    BY <2>4, <1>1 DEF NextOfBatch, InBatch
  <2>5. CASE rpc' \in {"check", "asleep", "count", "complete", "notifyFinish", "returned"}
    BY <2>5 DEF InBatch
  <2> QED
    BY <2>1, <2>2, <2>3, <2>4, <2>5
       DEF InBatch, Next, Step, ClientCall, ClientStep, ReaderStep, DeviceStep, vars, clientVars, countVars, readerVars,
         deviceVars, EnqueueRead, EnqueueBlockingRead, EnqueueRecordEvent, finish, Destroy, PushDescriptor,
         EventCommand, ReadCommand, increment_num_entries, NotifyReader, WakeReader, FinishDone, FinishSleeps,
         HangDetected, HangNotify, ExitNotify, Join, ReaderCheck, ReaderPop, ReaderWaitFront,
         ReaderWaitData, ReaderCopy, ReaderPopFront,
         set_last_completed_event, ReaderComplete, NotifyFinish, DeviceTake, DeviceXferSize, DeviceXfer, PageLands,
         WritePtrLands, ReadPtrLands, SpuriousWake, DeviceHangs, Terminated
<1> QED
  BY <1>2, <1>3 DEF LoopsEnd

-----------------------------------------------------------------------------
(* Types *)

\* Every step keeps the types.
LEMMA TypeStep == IInv /\ Next => TypeOK'
<1> SUFFICES ASSUME IInv, Next PROVE TypeOK'
  OBVIOUS
<1> USE SizeAssumption
<1>t. TypeOK /\ testMode' \in BOOLEAN
  BY DEF IInv, TypeOK, Next
<1>1. CASE EnqueueRead
  <2>1. cur' \in Descriptor /\ askedPages' \in Nat
    BY <1>1, <1>t DEF EnqueueRead, NewEntry, Descriptor, TypeOK
  <2> QED
    BY <2>1, <1>1, <1>t DEF EnqueueRead, TypeOK, countVars, readerVars, deviceVars
<1>2. CASE EnqueueBlockingRead
  <2>1. cur' \in Descriptor /\ askedPages' \in Nat
    BY <1>2, <1>t DEF EnqueueBlockingRead, NewEntry, Descriptor, TypeOK
  <2> QED
    BY <2>1, <1>2, <1>t DEF EnqueueBlockingRead, TypeOK, countVars, readerVars, deviceVars
<1>3. ASSUME record_event
      PROVE cur' \in Descriptor /\ askedPages' \in Nat /\ eventPage' \in Seq(Nat) /\ cpc' = "eventCommand"
  BY <1>3, <1>t DEF record_event, NewEntry, Descriptor, TypeOK
<1>4. CASE EnqueueRecordEvent
  BY <1>3, <1>4, <1>t DEF EnqueueRecordEvent, TypeOK, countVars, readerVars, deviceVars
<1>5. CASE finish
  BY <1>3, <1>5, <1>t DEF finish, TypeOK, countVars, readerVars, deviceVars
<1>6. CASE PushDescriptor
  BY <1>6, <1>t DEF PushDescriptor, TypeOK, countVars, readerVars, deviceVars
<1>7. CASE EventCommand
  <2>1. devQ' \in Seq(Nat)
    BY <1>7, <1>t DEF EventCommand, TypeOK, Descriptor
  <2> QED
    BY <2>1, <1>7, <1>t DEF EventCommand, TypeOK, countVars, readerVars
<1>8. CASE ReadCommand
  <2>1. devQ' \in Seq(Nat)
    BY <1>8, <1>t DEF ReadCommand, TypeOK, Descriptor
  <2>2. cur' \in Descriptor /\ askedPages' \in Nat /\ eventPage' \in Seq(Nat) /\ cpc' \in {"eventCommand", "increment"}
    BY <1>3, <1>8, <1>t DEF ReadCommand, TypeOK
  <2> QED
    BY <2>1, <2>2, <1>8, <1>t DEF ReadCommand, TypeOK, countVars, readerVars
<1>9. CASE increment_num_entries
  BY <1>9, <1>t DEF increment_num_entries, TypeOK, readerVars, deviceVars
<1>10. CASE NotifyReader
  BY <1>10, <1>t DEF NotifyReader, WakeReader, TypeOK, countVars, deviceVars
<1>11. CASE FinishDone
  BY <1>11, <1>t DEF FinishDone, FinishReturns, TypeOK, countVars, readerVars, deviceVars
<1>12. CASE FinishSleeps
  BY <1>12, <1>t DEF FinishSleeps, TypeOK, countVars, readerVars, deviceVars
<1>13. CASE HangDetected
  BY <1>13, <1>t DEF HangDetected, TypeOK, readerVars, deviceVars
<1>14. CASE HangNotify
  BY <1>14, <1>t DEF HangNotify, FinishReturns, WakeReader, TypeOK, countVars, deviceVars
<1>15. CASE Destroy
  BY <1>15, <1>t DEF Destroy, TypeOK, readerVars, deviceVars
<1>16. CASE ExitNotify
  BY <1>16, <1>t DEF ExitNotify, WakeReader, TypeOK, countVars, deviceVars
<1>17. CASE Join
  BY <1>17, <1>t DEF Join, TypeOK, countVars, readerVars, deviceVars
<1>18. CASE ReaderCheck
  BY <1>18, <1>t DEF ReaderCheck, TypeOK, clientVars, countVars, deviceVars
<1>19. CASE SpuriousWake
  BY <1>19, <1>t DEF SpuriousWake, TypeOK, clientVars, countVars, deviceVars
<1>20. CASE ReaderCount
  BY <1>20, <1>t DEF ReaderCount, TypeOK, clientVars, countVars, deviceVars
<1>21. CASE ReaderPop
  <2>1. desc' \in Descriptor /\ issued' \in Seq(Descriptor)
    BY <1>21, <1>t DEF ReaderPop, TypeOK
  <2> QED
    BY <2>1, <1>21, <1>t DEF ReaderPop, TypeOK, clientVars, countVars, deviceVars
<1>22. CASE ReaderWaitFront
  <2>a. desc.pages \in Nat /\ remaining \in Nat /\ xfer \in 0 .. Pages /\ 1 \in 0 .. Pages
    BY <1>t, SizeAssumption DEF TypeOK, Descriptor
  <2>b. \/ remaining' = remaining /\ xfer' = xfer
        \/ remaining' = 0 /\ xfer' = 1
        \/ remaining' = desc.pages /\ xfer' = xfer
    BY <1>22 DEF ReaderWaitFront
  <2>1. remaining' \in Nat /\ xfer' \in 0 .. Pages
    BY <2>a, <2>b
  <2> QED
    BY <2>1, <1>22, <1>t DEF ReaderWaitFront, TypeOK, clientVars, countVars, deviceVars
<1>23. ASSUME NextOfBatch, InBatch PROVE toRead' \in Nat /\ rpc' \in {"pop", "complete"}
  BY <1>23, <1>t DEF NextOfBatch, TypeOK, IInv, LoopsEnd
<1>24. CASE ReaderWaitData
  <2>1. pages_avail \in 0 .. Pages
    <3>1. rd \in Pointer /\ wrWord \in Pointer
      BY <1>t DEF TypeOK
    <3> QED
      BY <3>1 DEF pages_avail, Pointer
  <2>2. remaining' \in Nat /\ xfer' \in 0 .. Pages
    BY <2>1, <1>24, <1>t, SMTT(30) DEF ReaderWaitData, TypeOK
  <2>3. toRead' \in Nat /\ rpc' \in {"pop", "complete", "copy"}
    <3>1. InBatch /\ toRead \in Nat
      BY <1>24, <1>t DEF ReaderWaitData, TypeOK, InBatch
    <3>2. CASE NextOfBatch
      BY <3>1, <3>2, <1>23
    <3>3. CASE rpc' = "copy" /\ toRead' = toRead
      BY <3>1, <3>3
    <3> QED
      BY <3>2, <3>3, <1>24 DEF ReaderWaitData
  <2> QED
    BY <2>2, <2>3, <1>24, <1>t DEF ReaderWaitData, TypeOK, clientVars, countVars, deviceVars
<1>25. CASE ReaderCopy
  BY <1>25, <1>t DEF ReaderCopy, TypeOK, clientVars, countVars, deviceVars
<1>26. CASE ReaderPopFront
  <2>1. rd' \in Pointer /\ rdCount' \in Nat
    <3>1. rd \in Pointer /\ xfer \in 0 .. Pages /\ rdCount \in Nat
      BY <1>t DEF TypeOK
    <3>2. pop_front(rd, xfer) \in Pointer
      BY <3>1 DEF pop_front, Pointer
    <3> QED
      BY <3>1, <3>2, <1>26 DEF ReaderPopFront
  <2>2. toRead' \in Nat /\ rpc' \in {"setLast", "waitData", "pop", "complete"}
    <3>1. InBatch /\ toRead \in Nat
      BY <1>26, <1>t DEF ReaderPopFront, TypeOK, InBatch
    <3>2. CASE NextOfBatch
      BY <3>1, <3>2, <1>23
    <3>3. CASE rpc' \in {"setLast", "waitData"} /\ toRead' = toRead
      BY <3>1, <3>3
    <3> QED
      BY <3>2, <3>3, <1>26 DEF ReaderPopFront
  <2> QED
    BY <2>1, <2>2, <1>26, <1>t DEF ReaderPopFront, TypeOK, clientVars, countVars, deviceVars
<1>27. CASE set_last_completed_event
  <2>1. lastDone' \in Nat
    BY <1>27, <1>t DEF set_last_completed_event, TypeOK, Descriptor
  <2>2. toRead' \in Nat /\ rpc' \in {"pop", "complete"}
    BY <1>23, <1>27 DEF set_last_completed_event, InBatch
  <2> QED
    BY <2>1, <2>2, <1>27, <1>t DEF set_last_completed_event, TypeOK, clientVars, deviceVars
<1>28. CASE ReaderComplete
  BY <1>28, <1>t DEF ReaderComplete, TypeOK, clientVars, deviceVars
<1>29. CASE NotifyFinish
  BY <1>29, <1>t DEF NotifyFinish, TypeOK, countVars, deviceVars
<1>30. CASE DeviceTake
  <2>1. left' \in Nat /\ devQ' \in Seq(Nat)
    BY <1>30, <1>t DEF DeviceTake, TypeOK
  <2> QED
    BY <2>1, <1>30, <1>t DEF DeviceTake, TypeOK, clientVars, countVars, readerVars
<1>31. CASE DeviceXferSize
  BY <1>31, <1>t DEF DeviceXferSize, TypeOK, clientVars, countVars, readerVars
<1>32. CASE DeviceXfer
  <2>1. wr' \in Pointer
    BY <1>32, <1>t, PushBackSelf DEF DeviceXfer, TypeOK
  <2>2. left' \in Nat /\ want' \in 0 .. Pages
    BY <1>32, <1>t DEF DeviceXfer, TypeOK, IInv, LoopsEnd
  <2> QED
    BY <2>1, <2>2, <1>32, <1>t DEF DeviceXfer, TypeOK, clientVars, countVars, readerVars
<1>33. CASE PageLands
  <2>1. landed' \in Pointer
    <3>1. 1 \in 0 .. Pages
      OBVIOUS
    <3> QED
      BY <3>1, <1>33, <1>t, PushBackSelf DEF PageLands, TypeOK
  <2>2. landedCount' \in Nat /\ ring' \in [0 .. Pages - 1 -> Nat]
    <3>1. landed \in Pointer /\ landedCount \in Nat /\ ring \in [0 .. Pages - 1 -> Nat]
      BY <1>t DEF TypeOK
    <3>2. landedCount' = landedCount + 1 /\ ring' = [ring EXCEPT ![landed.ptr] = landedCount + 1]
      BY <1>33 DEF PageLands
    <3>3. landedCount + 1 \in Nat
      BY <3>1
    <3>4. ring' \in [0 .. Pages - 1 -> Nat]
      BY <3>1, <3>2, <3>3
    <3> QED
      BY <3>2, <3>3, <3>4
  <2> QED
    BY <2>1, <2>2, <1>33, <1>t DEF PageLands, TypeOK, clientVars, countVars, readerVars
<1>34. CASE WritePtrLands
  BY <1>34, <1>t DEF WritePtrLands, TypeOK, clientVars, countVars, readerVars
<1>35. CASE ReadPtrLands
  BY <1>35, <1>t DEF ReadPtrLands, TypeOK, clientVars, countVars, readerVars
<1>36. CASE DeviceHangs
  BY <1>36, <1>t DEF DeviceHangs, TypeOK, clientVars, countVars, readerVars
<1>37. CASE Terminated
  BY <1>37, <1>t DEF Terminated, TypeOK, vars, clientVars, countVars, readerVars, deviceVars
<1> QED
  BY <1>1, <1>2, <1>4, <1>5, <1>6, <1>7, <1>8, <1>9, <1>10, <1>11, <1>12, <1>13, <1>14, <1>15, <1>16, <1>17, <1>18,
     <1>19, <1>20, <1>21, <1>22, <1>24, <1>25, <1>26, <1>27, <1>28, <1>29, <1>30, <1>31, <1>32, <1>33, <1>34,
     <1>35, <1>36, <1>37
     DEF Next, Step, ClientCall, ClientStep, ReaderStep, DeviceStep

-----------------------------------------------------------------------------
(* Theorems *)

\* Types, the order of the pointers, the content of the ring and what makes them inductive hold in every state.
THEOREM CompletionInvariant == Spec => []IInv
<1>1. Init => IInv
  <2> SUFFICES ASSUME Init PROVE IInv
    OBVIOUS
  <2>1. TypeOK
    BY SizeAssumption DEF Init, TypeOK, Pointer, Start, Descriptor, NoDescriptor
  <2>2. Start \in Pointer /\ Distance(Start, Start) = 0
    BY SizeAssumption DEF Start, Pointer, Distance
  <2>3. RingInOrder
    BY <2>2, SizeAssumption DEF Init, RingInOrder
  <2>4. RingContent
    BY <2>2, SizeAssumption DEF Init, RingContent
  <2>5. XferPublished /\ LoopsEnd
    BY DEF Init, XferPublished, LoopsEnd, InBatch
  <2> QED
    BY <2>1, <2>3, <2>4, <2>5 DEF IInv
<1>2. IInv /\ [Next]_vars => IInv'
  <2> SUFFICES ASSUME IInv, [Next]_vars PROVE IInv'
    OBVIOUS
  <2>1. CASE Next
    BY <2>1, TypeStep, RingStep, ReaderXferStep, LoopStep DEF IInv
  <2>2. CASE UNCHANGED vars
    <3>1. UNCHANGED <<clientVars, issued, countVars, readerVars, deviceVars, testMode>>
      BY <2>2 DEF vars
    <3>2. TypeOK'
      BY <3>1 DEF IInv, TypeOK, clientVars, countVars, readerVars, deviceVars
    <3>3. RingInOrder' /\ RingContent'
      BY <3>1 DEF IInv, RingInOrder, RingContent, Distance, Position, readerVars, deviceVars
    <3>4. XferPublished' /\ LoopsEnd'
      BY <3>1 DEF IInv, XferPublished, LoopsEnd, InBatch, Distance, readerVars, deviceVars
    <3> QED
      BY <3>2, <3>3, <3>4 DEF IInv
  <2> QED
    BY <2>1, <2>2
<1> QED
  BY <1>1, <1>2, PTL DEF Spec

\* Every variable keeps its type; in particular the reader's and the dispatcher's loops never run below zero and
\* no pointer leaves the ring.
THEOREM TypeCorrect == Spec => []TypeOK
<1>1. IInv => TypeOK
  BY DEF IInv
<1> QED
  BY <1>1, CompletionInvariant, PTL

\* The four pointers of the ring never overtake each other, for every size of the ring and all delays of the words
\* in which host and dispatcher publish them.
THEOREM RingInOrderHolds == Spec => []RingInOrder
<1>1. IInv => RingInOrder
  BY DEF IInv
<1> QED
  BY <1>1, CompletionInvariant, PTL

\* No page is overwritten before the reader has taken it out.
THEOREM RingContentHolds == Spec => []RingContent
<1>1. IInv => RingContent
  BY DEF IInv
<1> QED
  BY <1>1, CompletionInvariant, PTL

-----------------------------------------------------------------------------
(***************************************************************************)
(* From entries to pages.  What follows connects the entries the client    *)
(* enqueues with the pages the device answers them with.  The entries in   *)
(* issued_completion_q_reads cover, without gaps, the pages from the next  *)
(* one the reader is due to the last one the device was asked for, and the *)
(* counters differ by the entries that are in the queue or with one of the *)
(* two threads.  Both hold until the reader is told to exit.               *)
(***************************************************************************)

\* The entries of q follow each other from page a up to page b.
Linked(q, a, b) ==
    IF q = <<>> THEN a = b
    ELSE /\ q[1].first = a
         /\ \A k \in 1 .. Len(q) : q[k].first + q[k].pages = IF k < Len(q) THEN q[k + 1].first ELSE b

\* The reader has an entry in hand, the client has one that it has not pushed yet.
HasEntry == rpc \in {"waitFront", "waitData", "copy", "popFront", "setLast"}
Pending == cpc \in {"readDescriptor", "eventCommand", "eventDescriptor"}

\* The first page of the entry that is popped next and of the one that is pushed next.
NextToPop == IF HasEntry THEN desc.first + desc.pages ELSE rdCount + 1
NextToPush == IF Pending THEN cur.first ELSE askedPages + 1

IssuedLinked == ~exit => Linked(issued, NextToPop, NextToPush)

\* An event is answered by the one page that was noted for it.
EntryOK(d) == d.event # 0 => d.event \in 1 .. Len(eventPage) /\ eventPage[d.event] = d.first /\ d.pages = 1
EntriesOK == EntryOK(cur) /\ EntryOK(desc) /\ \A k \in 1 .. Len(issued) : EntryOK(issued[k])

\* Later events are answered by later pages.
EventsInOrder ==
    /\ \A e, f \in 1 .. Len(eventPage) : e <= f => eventPage[e] <= eventPage[f]
    /\ \A e \in 1 .. Len(eventPage) : eventPage[e] <= askedPages
    /\ lastDone <= Len(eventPage)

\* How far the reader is with the entry in hand. An exit can make it skip pages, but not copy after that.
DescInStep ==
    /\ rpc = "waitFront" /\ ~exit => desc.first = rdCount + 1
    /\ rpc = "waitData" => desc.first + desc.pages = rdCount + 1 + remaining /\ desc.event = 0
    /\ rpc \in {"copy", "popFront"} => /\ desc.first + desc.pages = rdCount + 1 + remaining + xfer
                                       /\ desc.event # 0 => remaining = 0
    /\ rpc = "setLast" => desc.first + desc.pages = rdCount + 1 /\ desc.event # 0

\* How far the client is with its entry; what it waits for in finish is an event.
CurInStep ==
    /\ Pending => cur.first + cur.pages = askedPages + 1
    /\ issued # <<>> /\ ~Pending => issued[Len(issued)] = cur
    /\ cpc \in {"eventCommand", "eventDescriptor", "finishWait", "finishAsleep", "hangNotify"} => cur.event # 0
    /\ cpc \in {"increment", "notify"} /\ returnTo = "finishWait" => cur.event # 0
    /\ cpc \in {"readDescriptor", "readCommand"} /\ returnTo = "finishWait" => lagging
    /\ lagging => /\ returnTo = "finishWait"
                  /\ cpc \notin {"idle", "exitNotify", "joining", "destroyed", "aborted"}

\* Entries that were pushed and not counted in num_entries_in_completion_q: a blocking read until finish has
\* returned, any other between the push and the increment.
Lagging == IF lagging /\ cpc # "readDescriptor" THEN 1 ELSE 0
Uncounted == IF cpc = "increment" \/ (cpc = "readCommand" /\ ~lagging) THEN 1 ELSE 0

\* Entries that were popped and not counted in num_completed_completion_q_reads.
Taken == IF rpc = "pop" THEN batch - toRead
         ELSE IF HasEntry THEN batch - toRead + 1 ELSE IF rpc = "complete" THEN batch ELSE 0

CountInStep == rpc # "returned" \/ ~exit => entries + Lagging + Uncounted = completed + Taken + Len(issued)

BatchInStep ==
    /\ InBatch => toRead <= batch
    /\ InBatch \/ rpc = "complete" => 1 <= batch /\ completed + batch <= entries

EInv ==
    /\ IssuedLinked /\ EntriesOK /\ EventsInOrder /\ EventMeansRead /\ DescInStep /\ CurInStep
    /\ CountInStep /\ BatchInStep

\* One more entry at the end.
LEMMA LinkedAppend ==
    ASSUME NEW q \in Seq(Descriptor), NEW d \in Descriptor, NEW a, Linked(q, a, d.first)
    PROVE  Linked(Append(q, d), a, d.first + d.pages)
<1> DEFINE p == Append(q, d)
           n == Len(q)
<1>1. n \in Nat /\ Len(p) = n + 1 /\ p # <<>> /\ p[n + 1] = d /\ \A k \in 1 .. n : p[k] = q[k]
  <2>1. n \in Nat /\ Len(p) = n + 1 /\ p[n + 1] = d /\ \A k \in 1 .. n : p[k] = q[k]
    BY AppendProperties, LenProperties
  <2> HIDE DEF p
  <2> QED
    BY <2>1
<1>2. q = <<>> <=> n = 0
  BY EmptySeq
<1> HIDE DEF p, n
<1>3. p[1].first = a
  <2>1. CASE n = 0
    BY <2>1, <1>1, <1>2 DEF Linked
  <2>2. CASE n # 0
    <3>1. 1 \in 1 .. n /\ q[1].first = a
      BY <2>2, <1>1, <1>2 DEF Linked
    <3> QED
      BY <3>1, <1>1
  <2> QED
    BY <2>1, <2>2
<1>4. ASSUME NEW k \in 1 .. n + 1
      PROVE  p[k].first + p[k].pages = IF k < n + 1 THEN p[k + 1].first ELSE d.first + d.pages
  <2>1. CASE k = n + 1
    BY <2>1, <1>1
  <2>2. CASE k < n
    <3>1. k \in 1 .. n /\ k + 1 \in 1 .. n /\ q[k].first + q[k].pages = q[k + 1].first
      BY <2>2, <1>1, <1>2 DEF Linked, n
    <3> QED
      BY <3>1, <2>2, <1>1
  <2>3. CASE k = n
    <3>1. k \in 1 .. n /\ q[k].first + q[k].pages = d.first
      BY <2>3, <1>1, <1>2 DEF Linked, n
    <3> QED
      BY <3>1, <2>3, <1>1
  <2> QED
    BY <2>1, <2>2, <2>3, <1>1
<1>5. Linked(p, a, d.first + d.pages)
  BY <1>1, <1>3, <1>4 DEF Linked
<1> QED
  BY <1>5 DEF p

\* One entry less at the front.
LEMMA LinkedTail ==
    ASSUME NEW q \in Seq(Descriptor), NEW a, NEW b, q # <<>>, Linked(q, a, b)
    PROVE  Head(q).first = a /\ Linked(Tail(q), Head(q).first + Head(q).pages, b)
<1> DEFINE p == Tail(q)
           n == Len(q)
<1>1. n \in Nat /\ n >= 1 /\ Len(p) = n - 1 /\ Head(q) = q[1] /\ (p = <<>> <=> n = 1)
  <2>1. n \in Nat /\ n >= 1 /\ Len(p) = n - 1 /\ Head(q) = q[1] /\ p \in Seq(Descriptor)
    BY EmptySeq, LenProperties, HeadTailProperties
  <2>2. p = <<>> <=> Len(p) = 0
    BY <2>1, EmptySeq
  <2> QED
    BY <2>1, <2>2
<1>2. \A k \in 1 .. n - 1 : p[k] = q[k + 1]
  BY <1>1, HeadTailProperties
<1>3. q[1].first = a /\ \A k \in 1 .. n : q[k].first + q[k].pages = IF k < n THEN q[k + 1].first ELSE b
  BY DEF Linked
<1> HIDE DEF p, n
<1>4. CASE n = 1
  <2>1. q[1].first + q[1].pages = b
    BY <1>3, <1>4
  <2>2. Linked(p, Head(q).first + Head(q).pages, b)
    BY <2>1, <1>1, <1>4 DEF Linked
  <2> QED
    BY <2>2, <1>1, <1>3 DEF p
<1>5. CASE n > 1
  <2>1. p[1].first = q[1].first + q[1].pages
    <3>1. 1 \in 1 .. n - 1 /\ 1 \in 1 .. n /\ 1 < n
      BY <1>1, <1>5
    <3> QED
      BY <3>1, <1>2, <1>3
  <2>2. ASSUME NEW k \in 1 .. n - 1
        PROVE  p[k].first + p[k].pages = IF k < n - 1 THEN p[k + 1].first ELSE b
    <3>1. k + 1 \in 1 .. n /\ p[k] = q[k + 1]
      BY <1>1, <1>2
    <3>2. CASE k < n - 1
      <4>1. k + 1 \in 1 .. n - 1 /\ k + 1 < n
        BY <1>1, <3>2
      <4>2. p[k + 1] = q[(k + 1) + 1]
        BY <4>1, <1>2
      <4> QED
        BY <4>1, <4>2, <3>1, <3>2, <1>3
    <3>3. CASE k = n - 1
      <4>1. ~(k + 1 < n)
        BY <1>1, <3>3
      <4> QED
        BY <4>1, <3>1, <3>3, <1>3
    <3> QED
      BY <3>2, <3>3, <1>1
  <2>3. Linked(p, Head(q).first + Head(q).pages, b)
    BY <2>1, <2>2, <1>1, <1>5 DEF Linked
  <2> QED
    BY <2>3, <1>1, <1>3 DEF p
<1> QED
  BY <1>1, <1>4, <1>5

\* The reader is never told to go on again.
LEMMA ExitStays == Next /\ ~exit' => ~exit
  BY DEF Next, Step, ClientCall, ClientStep, ReaderStep, DeviceStep, vars, clientVars, countVars, readerVars,
         deviceVars, EnqueueRead, EnqueueBlockingRead, EnqueueRecordEvent, finish, record_event, Destroy,
         PushDescriptor, EventCommand, ReadCommand, increment_num_entries, NotifyReader, WakeReader, FinishDone,
         FinishSleeps, FinishReturns, HangDetected, HangNotify, ExitNotify, Join, ReaderCheck, ReaderCount,
         ReaderPop, ReaderWaitFront, ReaderWaitData, ReaderCopy, ReaderPopFront, NextOfBatch,
         set_last_completed_event, ReaderComplete, NotifyFinish, DeviceTake, DeviceXferSize, DeviceXfer,
         PageLands, WritePtrLands, ReadPtrLands, SpuriousWake, DeviceHangs, Terminated

\* Only a pop changes what is popped next ...
LEMMA PopKept == IInv /\ EInv /\ Next /\ ~exit' /\ ~ReaderPop => NextToPop' = NextToPop
<1> SUFFICES ASSUME IInv, EInv, Next, ~exit', ~ReaderPop PROVE NextToPop' = NextToPop
  OBVIOUS
<1>1. ~exit /\ DescInStep /\ rdCount \in Nat /\ xfer \in Nat /\ remaining \in Nat
  BY ExitStays, SizeAssumption DEF EInv, IInv, TypeOK
<1>2. desc.first \in Nat /\ desc.pages \in Nat
  BY DEF IInv, TypeOK, Descriptor
<1>3. CASE UNCHANGED <<rpc, desc, rdCount>>
  BY <1>3 DEF NextToPop, HasEntry
<1>4. CASE ReaderPopFront
  BY <1>1, <1>2, <1>4 DEF ReaderPopFront, NextOfBatch, NextToPop, HasEntry, DescInStep
<1>5. CASE set_last_completed_event
  BY <1>1, <1>2, <1>5 DEF set_last_completed_event, NextOfBatch, NextToPop, HasEntry, DescInStep
<1>6. CASE /\ UNCHANGED <<desc, rdCount>>
           /\ HasEntry' <=> HasEntry
  BY <1>6 DEF NextToPop
<1> QED
  BY <1>1, <1>3, <1>4, <1>5, <1>6 DEF HasEntry, Next, Step, ClientCall, ClientStep, ReaderStep, DeviceStep, vars,
         clientVars, countVars, readerVars,
         deviceVars, EnqueueRead, EnqueueBlockingRead, EnqueueRecordEvent, finish, Destroy,
         PushDescriptor, EventCommand, ReadCommand, increment_num_entries, NotifyReader, WakeReader, FinishDone,
         FinishSleeps, HangDetected, HangNotify, ExitNotify, Join, ReaderCheck, ReaderCount,
         ReaderPop, ReaderWaitFront, ReaderWaitData, ReaderCopy,
         ReaderComplete, NotifyFinish, DeviceTake, DeviceXferSize, DeviceXfer,
         PageLands, WritePtrLands, ReadPtrLands, SpuriousWake, DeviceHangs, Terminated

\* ... and only a push what is pushed next: a new entry begins behind all pages that were asked for.
LEMMA PushKept == IInv /\ Next /\ ~PushDescriptor => NextToPush' = NextToPush
<1> SUFFICES ASSUME IInv, Next, ~PushDescriptor PROVE NextToPush' = NextToPush
  OBVIOUS
<1>1. CASE UNCHANGED <<cur, askedPages>> /\ (Pending' <=> Pending)
  BY <1>1 DEF NextToPush
<1>2. ASSUME NEW n, NEW e, cur' = NewEntry(n, e), Pending', ~Pending
      PROVE  NextToPush' = NextToPush
  BY <1>2 DEF NextToPush, NewEntry
<1>3. CASE EnqueueRead \/ EnqueueBlockingRead \/ EnqueueRecordEvent \/ finish \/ (ReadCommand /\ lagging)
  <2>1. Pending' /\ ~Pending /\ \E n, e : cur' = NewEntry(n, e)
    BY <1>3 DEF EnqueueRead, EnqueueBlockingRead, EnqueueRecordEvent, finish, ReadCommand, record_event, CanEnqueue,
                Pending
  <2> QED
    BY <2>1, <1>2
<1>4. returnTo \in {"idle", "finishWait"}
  BY DEF IInv, TypeOK
<1> QED
  BY <1>1, <1>3, <1>4 DEF Pending, Next, Step, ClientCall, ClientStep, ReaderStep, DeviceStep, vars,
         clientVars, countVars, readerVars, deviceVars, Destroy,
         EventCommand, ReadCommand, increment_num_entries, NotifyReader, FinishDone,
         FinishSleeps, FinishReturns, HangDetected, HangNotify, ExitNotify, Join, ReaderCheck, ReaderCount,
         ReaderPop, ReaderWaitFront, ReaderWaitData, ReaderCopy, ReaderPopFront,
         set_last_completed_event, ReaderComplete, NotifyFinish, DeviceTake, DeviceXferSize, DeviceXfer,
         PageLands, WritePtrLands, ReadPtrLands, SpuriousWake, DeviceHangs, Terminated

\* The client pushes and the reader pops; nobody else touches issued_completion_q_reads.
LEMMA IssuedKept == Next /\ ~PushDescriptor /\ ~ReaderPop => issued' = issued
  BY DEF Next, Step, ClientCall, ClientStep, ReaderStep, DeviceStep, vars, clientVars, countVars, readerVars,
         deviceVars, EnqueueRead, EnqueueBlockingRead, EnqueueRecordEvent, finish, record_event, Destroy,
         PushDescriptor, EventCommand, ReadCommand, increment_num_entries, NotifyReader, WakeReader, FinishDone,
         FinishSleeps, FinishReturns, HangDetected, HangNotify, ExitNotify, Join, ReaderCheck, ReaderCount,
         ReaderPop, ReaderWaitFront, ReaderWaitData, ReaderCopy, ReaderPopFront, NextOfBatch,
         set_last_completed_event, ReaderComplete, NotifyFinish, DeviceTake, DeviceXferSize, DeviceXfer,
         PageLands, WritePtrLands, ReadPtrLands, SpuriousWake, DeviceHangs, Terminated

\* The descriptors that were issued stay linked, each to the pages behind those of the one before.
LEMMA LinkedStep == IInv /\ EInv /\ Next => IssuedLinked'
<1> SUFFICES ASSUME IInv, EInv, Next, ~exit' PROVE Linked(issued, NextToPop, NextToPush)'
  BY DEF IssuedLinked
<1>1. ~exit /\ Linked(issued, NextToPop, NextToPush)
  BY ExitStays DEF EInv, IssuedLinked
<1>2. issued \in Seq(Descriptor) /\ cur \in Descriptor
  BY DEF IInv, TypeOK
<1>3. CASE PushDescriptor
  <2>1. NextToPush = cur.first /\ NextToPush' = askedPages + 1 /\ issued' = Append(issued, cur)
    BY <1>3 DEF PushDescriptor, NextToPush, Pending
  <2>2. cur.first + cur.pages = askedPages + 1
    BY <1>3 DEF EInv, CurInStep, PushDescriptor, Pending
  <2>3. ~ReaderPop
    BY <1>3 DEF PushDescriptor, ReaderPop, readerVars
  <2>4. NextToPop' = NextToPop
    BY <2>3, PopKept
  <2>5. Linked(Append(issued, cur), NextToPop, cur.first + cur.pages)
    BY <2>1, <1>1, <1>2, LinkedAppend
  <2> QED
    BY <2>1, <2>2, <2>4, <2>5
<1>4. CASE ReaderPop
  <2>1. issued # <<>> /\ desc' = Head(issued) /\ issued' = Tail(issued) /\ ~HasEntry /\ HasEntry'
    BY <1>4 DEF ReaderPop, HasEntry
  <2>2. ~PushDescriptor
    BY <1>4 DEF PushDescriptor, ReaderPop, readerVars
  <2>3. NextToPush' = NextToPush
    BY <2>2, PushKept
  <2>4. NextToPop' = Head(issued).first + Head(issued).pages
    BY <2>1 DEF NextToPop
  <2> QED
    BY <2>1, <2>3, <2>4, <1>1, <1>2, LinkedTail
<1>5. CASE ~PushDescriptor /\ ~ReaderPop
  BY <1>5, <1>1, PopKept, PushKept, IssuedKept
<1> QED
  BY <1>3, <1>4, <1>5

\* The events that are handed out keep the page that was noted for them, and a new one gets the last page.
LEMMA EventPageStep ==
    ASSUME IInv, EInv, Next
    PROVE  /\ Len(eventPage) \in Nat /\ Len(eventPage') \in Nat /\ Len(eventPage') >= Len(eventPage)
           /\ \A e \in 1 .. Len(eventPage) : eventPage'[e] = eventPage[e]
           /\ \A e \in 1 .. Len(eventPage') : e > Len(eventPage) => eventPage'[e] = askedPages + 1
           /\ askedPages \in Nat /\ askedPages' >= askedPages
           /\ eventPage' # eventPage => askedPages' = askedPages + 1
<1>1. eventPage \in Seq(Nat) /\ askedPages \in Nat
  BY DEF IInv, TypeOK
<1>2. CASE record_event
  <2>1. eventPage' = Append(eventPage, askedPages + 1) /\ askedPages' = askedPages + 1
    BY <1>2 DEF record_event
  <2>2. askedPages + 1 \in Nat
    BY <1>1
  <2>3. /\ Len(eventPage') = Len(eventPage) + 1 /\ Len(eventPage) \in Nat
        /\ \A e \in 1 .. Len(eventPage) : eventPage'[e] = eventPage[e]
        /\ eventPage'[Len(eventPage) + 1] = askedPages + 1
    BY <2>1, <2>2, <1>1, AppendProperties, LenProperties
  <2> QED
    BY <2>1, <2>3, <1>1
<1>3. CASE eventPage' = eventPage /\ (askedPages' = askedPages \/ \E n \in 1 .. MaxRead : askedPages' = askedPages + n)
  <2>1. Len(eventPage) \in Nat
    BY <1>1, LenProperties
  <2> QED
    BY <2>1, <1>1, <1>3, SizeAssumption
<1> QED
  BY <1>2, <1>3 DEF Next, Step, ClientCall, ClientStep, ReaderStep, DeviceStep, vars, clientVars, countVars,
         readerVars, deviceVars, EnqueueRead, EnqueueBlockingRead, EnqueueRecordEvent, finish, Destroy,
         PushDescriptor, EventCommand, ReadCommand, increment_num_entries, NotifyReader, FinishDone,
         FinishSleeps, FinishReturns, HangDetected, HangNotify, ExitNotify, Join, ReaderCheck, ReaderCount,
         ReaderPop, ReaderWaitFront, ReaderWaitData, ReaderCopy, ReaderPopFront,
         set_last_completed_event, ReaderComplete, NotifyFinish, DeviceTake, DeviceXferSize, DeviceXfer,
         PageLands, WritePtrLands, ReadPtrLands, SpuriousWake, DeviceHangs, Terminated

\* Later events are answered by later pages, and an event that is done had its page read.
LEMMA EventsStep == IInv /\ EInv /\ Next => (EventsInOrder /\ EventMeansRead)'
<1> SUFFICES ASSUME IInv, EInv, Next PROVE (EventsInOrder /\ EventMeansRead)'
  OBVIOUS
<1> DEFINE n == Len(eventPage)
           m == Len(eventPage')
<1>1. /\ n \in Nat /\ m \in Nat /\ m >= n
      /\ \A e \in 1 .. n : eventPage'[e] = eventPage[e]
      /\ \A e \in 1 .. m : e > n => eventPage'[e] = askedPages + 1
      /\ askedPages \in Nat /\ askedPages' >= askedPages
      /\ eventPage' # eventPage => askedPages' = askedPages + 1
  BY EventPageStep
<1>2. /\ \A e, f \in 1 .. n : e <= f => eventPage[e] <= eventPage[f]
      /\ \A e \in 1 .. n : eventPage[e] <= askedPages
      /\ lastDone <= n /\ lastDone \in Nat /\ rdCount \in Nat
      /\ \A e \in 1 .. n : lastDone >= e => rdCount >= eventPage[e]
  BY DEF EInv, EventsInOrder, EventMeansRead, EventCompleted, IInv, TypeOK
<1>3. \A e \in 1 .. n : eventPage[e] \in Nat
  BY DEF IInv, TypeOK
<1>a. askedPages' \in Nat
  BY TypeStep DEF TypeOK
<1> HIDE DEF n, m
<1>4. ASSUME NEW e \in 1 .. m
      PROVE  /\ eventPage'[e] <= askedPages'
             /\ \A f \in 1 .. m : e <= f => eventPage'[e] <= eventPage'[f]
  <2>1. CASE e \in 1 .. n
    <3>1. eventPage'[e] \in Nat /\ eventPage'[e] <= askedPages
      BY <2>1, <1>1, <1>2, <1>3
    <3>2. ASSUME NEW f \in 1 .. m, e <= f
          PROVE  eventPage'[e] <= eventPage'[f]
      <4>1. CASE f \in 1 .. n
        BY <2>1, <3>2, <4>1, <1>1, <1>2
      <4>2. CASE f > n
        <5>1. eventPage'[f] = askedPages + 1
          BY <4>2, <1>1
        <5> QED
          BY <5>1, <3>1, <1>1
      <4> QED
        BY <4>1, <4>2, <1>1
    <3> QED
      BY <3>1, <3>2, <1>1, <1>a
  <2>2. CASE e > n
    <3>1. eventPage'[e] = askedPages + 1
      BY <2>2, <1>1
    <3>2. eventPage' # eventPage
      BY <2>2, <1>1 DEF n, m
    <3>3. \A f \in 1 .. m : e <= f => f > n
      BY <2>2, <1>1
    <3>4. \A f \in 1 .. m : e <= f => eventPage'[f] = askedPages + 1
      BY <3>3, <1>1
    <3> QED
      BY <3>1, <3>2, <3>4, <1>1
  <2> QED
    BY <2>1, <2>2, <1>1
<1>5. lastDone' <= m /\ \A e \in 1 .. m : lastDone' >= e => rdCount' >= eventPage'[e]
  <2>1. ASSUME lastDone' = lastDone, rdCount' >= rdCount, rdCount' \in Nat
        PROVE  lastDone' <= m /\ \A e \in 1 .. m : lastDone' >= e => rdCount' >= eventPage'[e]
    <3> SUFFICES ASSUME NEW e \in 1 .. m, lastDone >= e PROVE rdCount' >= eventPage'[e]
      BY <2>1, <1>1, <1>2
    <3>1. e \in 1 .. n
      BY <1>1, <1>2
    <3>2. eventPage'[e] = eventPage[e] /\ rdCount >= eventPage[e] /\ eventPage[e] \in Nat
      BY <3>1, <1>1, <1>2, <1>3
    <3> QED
      BY <2>1, <3>2, <1>2
  <2>2. CASE set_last_completed_event
    <3>1. /\ lastDone' = desc.event /\ rdCount' = rdCount /\ eventPage' = eventPage
          /\ desc.first + desc.pages = rdCount + 1 /\ desc.event # 0
      BY <2>2 DEF set_last_completed_event, clientVars, EInv, DescInStep
    <3>2. desc.event \in 1 .. n /\ eventPage[desc.event] = desc.first /\ desc.pages = 1
      BY <3>1 DEF EInv, EntriesOK, EntryOK, n
    <3>3. rdCount = eventPage[desc.event]
      <4>1. desc.first \in Nat
        BY DEF IInv, TypeOK, Descriptor
      <4> QED
        BY <4>1, <3>1, <3>2, <1>2
    <3>4. m = n
      BY <3>1 DEF n, m
    <3>5. ASSUME NEW e \in 1 .. m, desc.event >= e
          PROVE  rdCount >= eventPage[e]
      <4>1. eventPage[e] <= eventPage[desc.event] /\ eventPage[e] \in Nat
        BY <3>2, <3>4, <3>5, <1>1, <1>2, <1>3
      <4> QED
        BY <4>1, <3>3, <1>2
    <3> QED
      BY <3>1, <3>2, <3>4, <3>5, <1>1
  <2>3. rdCount' \in Nat /\ xfer \in Nat
    BY TypeStep, SizeAssumption DEF IInv, TypeOK
  <2>4. CASE lastDone' = lastDone /\ (rdCount' = rdCount \/ rdCount' = rdCount + xfer)
    BY <2>1, <2>3, <2>4, <1>2
  <2> QED
    BY <2>2, <2>4
       DEF Next, Step, ClientCall, ClientStep, ReaderStep, DeviceStep, vars, clientVars, countVars, readerVars,
         deviceVars, EnqueueRead, EnqueueBlockingRead, EnqueueRecordEvent, finish, record_event, Destroy,
         PushDescriptor, EventCommand, ReadCommand, increment_num_entries, NotifyReader, WakeReader, FinishDone,
         FinishSleeps, FinishReturns, HangDetected, HangNotify, ExitNotify, Join, ReaderCheck, ReaderCount,
         ReaderPop, ReaderWaitFront, ReaderWaitData, ReaderCopy, ReaderPopFront, NextOfBatch,
         set_last_completed_event, ReaderComplete, NotifyFinish, DeviceTake, DeviceXferSize, DeviceXfer,
         PageLands, WritePtrLands, ReadPtrLands, SpuriousWake, DeviceHangs, Terminated
<1> QED
  BY <1>4, <1>5 DEF EventsInOrder, EventMeansRead, EventCompleted, m

\* What was noted of an entry stays noted.
LEMMA EntryKept ==
    ASSUME IInv, EInv, Next, NEW d, EntryOK(d)
    PROVE  EntryOK(d)'
  BY EventPageStep DEF EntryOK

\* An entry for an event keeps the one page that was noted for it.
LEMMA EntriesStep == IInv /\ EInv /\ Next => EntriesOK'
<1> SUFFICES ASSUME IInv, EInv, Next PROVE EntriesOK'
  OBVIOUS
<1>1. /\ EntryOK(cur) /\ EntryOK(desc) /\ issued \in Seq(Descriptor) /\ cur \in Descriptor
      /\ \A k \in 1 .. Len(issued) : EntryOK(issued[k])
  BY DEF EInv, EntriesOK, IInv, TypeOK
<1>2. EntryOK(cur)'
  <2>1. CASE cur' = cur
    BY <2>1, <1>1, EntryKept DEF EntryOK
  <2>2. CASE EnqueueRead \/ EnqueueBlockingRead
    BY <2>2 DEF EnqueueRead, EnqueueBlockingRead, NewEntry, EntryOK
  <2>3. CASE record_event
    <3>1. eventPage \in Seq(Nat) /\ askedPages + 1 \in Nat
      BY DEF IInv, TypeOK
    <3>2. eventPage' = Append(eventPage, askedPages + 1) /\ cur' = NewEntry(1, Len(eventPage) + 1)
      BY <2>3 DEF record_event
    <3>3. /\ Len(eventPage') = Len(eventPage) + 1 /\ Len(eventPage) \in Nat
          /\ eventPage'[Len(eventPage) + 1] = askedPages + 1
      BY <3>1, <3>2, AppendProperties, LenProperties
    <3>4. cur'.event = Len(eventPage) + 1 /\ cur'.first = askedPages + 1 /\ cur'.pages = 1
      BY <3>2 DEF NewEntry
    <3> QED
      BY <3>3, <3>4 DEF EntryOK
  <2> QED
    BY <2>1, <2>2, <2>3 DEF Next, Step, ClientCall, ClientStep, ReaderStep, DeviceStep, vars, clientVars, countVars,
         readerVars, deviceVars, EnqueueRecordEvent, finish, Destroy,
         PushDescriptor, EventCommand, ReadCommand, increment_num_entries, NotifyReader, FinishDone,
         FinishSleeps, FinishReturns, HangDetected, HangNotify, ExitNotify, Join, ReaderCheck, ReaderCount,
         ReaderPop, ReaderWaitFront, ReaderWaitData, ReaderCopy, ReaderPopFront,
         set_last_completed_event, ReaderComplete, NotifyFinish, DeviceTake, DeviceXferSize, DeviceXfer,
         PageLands, WritePtrLands, ReadPtrLands, SpuriousWake, DeviceHangs, Terminated
<1>3. EntryOK(desc)'
  <2>1. CASE desc' = desc
    BY <2>1, <1>1, EntryKept DEF EntryOK
  <2>2. CASE ReaderPop
    <3>1. issued # <<>> /\ desc' = Head(issued) /\ eventPage' = eventPage
      BY <2>2 DEF ReaderPop, clientVars
    <3>2. Head(issued) = issued[1] /\ 1 \in 1 .. Len(issued)
      BY <3>1, <1>1, HeadTailProperties, LenProperties, EmptySeq
    <3>3. EntryOK(issued[1])
      BY <3>2, <1>1
    <3> QED
      BY <3>1, <3>2, <3>3 DEF EntryOK
  <2> QED
    BY <2>1, <2>2
       DEF Next, Step, ClientCall, ClientStep, ReaderStep, DeviceStep, vars, clientVars, countVars, readerVars,
         deviceVars, EnqueueRead, EnqueueBlockingRead, EnqueueRecordEvent, finish, record_event, Destroy,
         PushDescriptor, EventCommand, ReadCommand, increment_num_entries, NotifyReader, WakeReader, FinishDone,
         FinishSleeps, FinishReturns, HangDetected, HangNotify, ExitNotify, Join, ReaderCheck, ReaderCount,
         ReaderPop, ReaderWaitFront, ReaderWaitData, ReaderCopy, ReaderPopFront, NextOfBatch,
         set_last_completed_event, ReaderComplete, NotifyFinish, DeviceTake, DeviceXferSize, DeviceXfer,
         PageLands, WritePtrLands, ReadPtrLands, SpuriousWake, DeviceHangs, Terminated
<1>4. ASSUME NEW k \in 1 .. Len(issued')
      PROVE  (EntryOK(issued[k]))'
  <2>1. CASE issued' = issued
    BY <2>1, <1>1, EntryKept DEF EntryOK
  <2>2. CASE PushDescriptor
    <3>1. issued' = Append(issued, cur) /\ eventPage' = eventPage
      BY <2>2 DEF PushDescriptor
    <3>2. /\ Len(issued') = Len(issued) + 1 /\ Len(issued) \in Nat /\ issued'[Len(issued) + 1] = cur
          /\ \A j \in 1 .. Len(issued) : issued'[j] = issued[j]
      BY <3>1, <1>1, AppendProperties, LenProperties
    <3>3. EntryOK(issued'[k])
      BY <3>2, <1>1
    <3> QED
      BY <3>1, <3>3 DEF EntryOK
  <2>3. CASE ReaderPop
    <3>1. issued # <<>> /\ issued' = Tail(issued) /\ eventPage' = eventPage
      BY <2>3 DEF ReaderPop, clientVars
    <3>2. /\ Len(issued) \in Nat /\ Len(issued') = Len(issued) - 1
          /\ \A j \in 1 .. Len(issued) - 1 : issued'[j] = issued[j + 1]
      BY <3>1, <1>1, HeadTailProperties, LenProperties
    <3>3. k + 1 \in 1 .. Len(issued) /\ issued'[k] = issued[k + 1]
      BY <3>2
    <3>4. EntryOK(issued'[k])
      BY <3>3, <1>1
    <3> QED
      BY <3>1, <3>4 DEF EntryOK
  <2> QED
    BY <2>1, <2>2, <2>3, IssuedKept
<1> QED
  BY <1>2, <1>3, <1>4 DEF EntriesOK

\* The reader is as far as the descriptor it processes says.
LEMMA DescStep == IInv /\ EInv /\ Next => DescInStep'
<1> SUFFICES ASSUME IInv, EInv, Next PROVE DescInStep'
  OBVIOUS
<1>1. /\ DescInStep /\ rdCount \in Nat /\ xfer \in Nat /\ remaining \in Nat
      /\ desc.first \in Nat /\ desc.pages \in Nat
  BY SizeAssumption DEF EInv, IInv, TypeOK, Descriptor
<1>2. EntryOK(desc)
  BY DEF EInv, EntriesOK
<1>3. CASE UNCHANGED <<rpc, desc, rdCount, remaining, xfer>> /\ (exit => exit')
  BY <1>1, <1>3 DEF DescInStep
<1>4. CASE ReaderPop
  <2>1. rpc = "pop" /\ rpc' = "waitFront" /\ desc' = Head(issued) /\ rdCount' = rdCount /\ exit' = exit /\ issued # <<>>
    BY <1>4 DEF ReaderPop, countVars
  <2>2. ~exit => Head(issued).first = rdCount + 1
    <3>1. ~exit => Linked(issued, rdCount + 1, NextToPush)
      BY <2>1 DEF EInv, IssuedLinked, NextToPop, HasEntry
    <3>2. issued \in Seq(Descriptor)
      BY DEF IInv, TypeOK
    <3> QED
      BY <2>1, <3>1, <3>2, LinkedTail
  <2> QED
    BY <2>1, <2>2 DEF DescInStep
<1>5. CASE ReaderWaitFront
  BY <1>1, <1>2, <1>5 DEF ReaderWaitFront, countVars, DescInStep, EntryOK
<1>6. CASE ReaderWaitData
  <2>1. pages_avail \in Nat
    <3>1. rd \in Pointer /\ wrWord \in Pointer
      BY DEF IInv, TypeOK
    <3> QED
      BY <3>1, SizeAssumption DEF pages_avail, Pointer
  <2>2. desc.event = 0
    BY <1>6 DEF ReaderWaitData, EInv, DescInStep
  <2> QED
    BY <2>1, <2>2, <1>1, <1>6 DEF ReaderWaitData, NextOfBatch, countVars, DescInStep
<1>7. CASE ReaderCopy \/ ReaderPopFront \/ set_last_completed_event
  BY <1>1, <1>7 DEF ReaderCopy, ReaderPopFront, set_last_completed_event, NextOfBatch, countVars, DescInStep
<1>8. CASE rpc' \in {"check", "asleep", "count", "pop", "complete", "notifyFinish", "returned"}
  BY <1>8 DEF DescInStep
<1> QED
  BY <1>3, <1>4, <1>5, <1>6, <1>7, <1>8
     DEF Next, Step, ClientCall, ClientStep, ReaderStep, DeviceStep, vars, clientVars, countVars, readerVars,
         deviceVars, EnqueueRead, EnqueueBlockingRead, EnqueueRecordEvent, finish, Destroy,
         PushDescriptor, EventCommand, ReadCommand, increment_num_entries, NotifyReader, WakeReader, FinishDone,
         FinishSleeps, HangDetected, HangNotify, ExitNotify, Join, ReaderCheck, ReaderCount,
         ReaderComplete, NotifyFinish, DeviceTake, DeviceXferSize, DeviceXfer,
         PageLands, WritePtrLands, ReadPtrLands, SpuriousWake, DeviceHangs, Terminated

\* The client is as far with its entry as its step says.
LEMMA CurStep == IInv /\ EInv /\ Next => CurInStep'
<1> SUFFICES ASSUME IInv, EInv, Next PROVE CurInStep'
  OBVIOUS
<1>1. /\ CurInStep /\ askedPages \in Nat /\ issued \in Seq(Descriptor) /\ cur \in Descriptor
      /\ returnTo \in {"idle", "finishWait"}
  BY DEF EInv, IInv, TypeOK
<1>2. (Pending => cur.first + cur.pages = askedPages + 1)'
  <2>1. ASSUME NEW n \in Nat, NEW e, cur' = NewEntry(n, e), askedPages' = askedPages + n
        PROVE  cur'.first + cur'.pages = askedPages' + 1
    BY <1>1, <2>1 DEF NewEntry
  <2>2. CASE EnqueueRead \/ EnqueueBlockingRead
    BY <2>1, <2>2, SizeAssumption DEF EnqueueRead, EnqueueBlockingRead
  <2>3. CASE record_event
    BY <2>1, <2>3 DEF record_event
  <2>4. CASE UNCHANGED <<cur, askedPages>> /\ (Pending' => Pending)
    BY <1>1, <2>4 DEF CurInStep
  <2> QED
    BY <1>1, <2>2, <2>3, <2>4 DEF Pending, Next, Step, ClientCall, ClientStep, ReaderStep, DeviceStep, vars,
         clientVars, countVars, readerVars, deviceVars, EnqueueRecordEvent, finish, Destroy,
         PushDescriptor, EventCommand, ReadCommand, increment_num_entries, NotifyReader, FinishDone,
         FinishSleeps, FinishReturns, HangDetected, HangNotify, ExitNotify, Join, ReaderCheck, ReaderCount,
         ReaderPop, ReaderWaitFront, ReaderWaitData, ReaderCopy, ReaderPopFront,
         set_last_completed_event, ReaderComplete, NotifyFinish, DeviceTake, DeviceXferSize, DeviceXfer,
         PageLands, WritePtrLands, ReadPtrLands, SpuriousWake, DeviceHangs, Terminated
<1>3. (issued # <<>> /\ ~Pending => issued[Len(issued)] = cur)'
  <2>1. CASE PushDescriptor
    <3>1. issued' = Append(issued, cur) /\ cur' = cur
      BY <2>1 DEF PushDescriptor
    <3>2. issued'[Len(issued')] = cur
      BY <3>1, <1>1, AppendProperties, LenProperties
    <3> QED
      BY <3>1, <3>2
  <2>2. CASE ReaderPop
    <3>1. issued # <<>> /\ issued' = Tail(issued) /\ cur' = cur /\ cpc' = cpc
      BY <2>2 DEF ReaderPop, clientVars
    <3> SUFFICES ASSUME issued' # <<>>, ~Pending PROVE issued'[Len(issued')] = cur
      BY <3>1 DEF Pending
    <3>2. /\ Len(issued) \in Nat /\ Len(issued') = Len(issued) - 1 /\ issued' \in Seq(Descriptor)
          /\ \A j \in 1 .. Len(issued) - 1 : issued'[j] = issued[j + 1]
      BY <3>1, <1>1, HeadTailProperties, LenProperties
    <3>3. Len(issued') # 0
      BY <3>2, EmptySeq
    <3>4. Len(issued') \in 1 .. Len(issued) - 1 /\ Len(issued') + 1 = Len(issued)
      BY <3>1, <3>2, <3>3, <1>1, EmptySeq
    <3>5. issued'[Len(issued')] = issued[Len(issued)]
      BY <3>2, <3>4
    <3> QED
      BY <3>1, <3>5, <1>1 DEF CurInStep
  <2>3. CASE ~PushDescriptor /\ ~ReaderPop
    <3>1. issued' = issued
      BY <2>3, IssuedKept
    <3>2. Pending' \/ (cur' = cur /\ ~Pending)
      BY <2>3, <1>1 DEF Pending, Next, Step, ClientCall, ClientStep, ReaderStep, DeviceStep, vars,
         clientVars, countVars, readerVars, deviceVars, EnqueueRead, EnqueueBlockingRead, EnqueueRecordEvent, finish,
         record_event, Destroy, CanEnqueue,
         EventCommand, ReadCommand, increment_num_entries, NotifyReader, FinishDone,
         FinishSleeps, FinishReturns, HangDetected, HangNotify, ExitNotify, Join, ReaderCheck, ReaderCount,
         ReaderPop, ReaderWaitFront, ReaderWaitData, ReaderCopy, ReaderPopFront,
         set_last_completed_event, ReaderComplete, NotifyFinish, DeviceTake, DeviceXferSize, DeviceXfer,
         PageLands, WritePtrLands, ReadPtrLands, SpuriousWake, DeviceHangs, Terminated
    <3> QED
      BY <3>1, <3>2, <1>1 DEF CurInStep
  <2> QED
    BY <2>1, <2>2, <2>3
<1>4. /\ cpc' \in {"eventCommand", "eventDescriptor", "finishWait", "finishAsleep", "hangNotify"} => cur'.event # 0
      /\ cpc' \in {"increment", "notify"} /\ returnTo' = "finishWait" => cur'.event # 0
  <2>1. CASE record_event
    <3>1. cur'.event = Len(eventPage) + 1 /\ Len(eventPage) \in Nat
      <4>1. cur' = NewEntry(1, Len(eventPage) + 1)
        BY <2>1 DEF record_event
      <4>2. cur'.event = Len(eventPage) + 1
        BY <4>1 DEF NewEntry
      <4> QED
        BY <4>2, LenProperties DEF IInv, TypeOK
    <3> QED
      BY <3>1
  <2>2. CASE EnqueueRead \/ EnqueueBlockingRead
    BY <2>2 DEF EnqueueRead, EnqueueBlockingRead
  <2>3. CASE cur' = cur /\ UNCHANGED <<cpc, returnTo>>
    BY <1>1, <2>3 DEF CurInStep
  <2>4. CASE cur' = cur /\ ClientStep /\ ~record_event
    <3>1. CASE PushDescriptor \/ EventCommand \/ increment_num_entries
      BY <1>1, <2>4, <3>1 DEF CurInStep, PushDescriptor, EventCommand, increment_num_entries
    <3>2. CASE ReadCommand
      BY <1>1, <2>4, <3>2 DEF CurInStep, ReadCommand
    <3>3. CASE NotifyReader \/ FinishSleeps \/ HangDetected
      BY <1>1, <2>4, <3>3 DEF CurInStep, NotifyReader, FinishSleeps, HangDetected
    <3>4. CASE FinishDone \/ HangNotify \/ ExitNotify \/ Join
      BY <1>1, <2>4, <3>4 DEF CurInStep, FinishDone, FinishReturns, HangNotify, ExitNotify, Join
    <3> QED
      BY <2>4, <3>1, <3>2, <3>3, <3>4 DEF ClientStep
  <2>5. CASE Destroy \/ NotifyFinish
    BY <1>1, <2>5 DEF CurInStep, Destroy, NotifyFinish
  <2> QED
    BY <1>1, <2>1, <2>2, <2>3, <2>4, <2>5 DEF Next, Step, ClientCall, ClientStep, ReaderStep, DeviceStep, vars,
         clientVars, countVars, readerVars, deviceVars, EnqueueRecordEvent, finish,
         PushDescriptor, EventCommand, ReadCommand, increment_num_entries, NotifyReader, FinishDone,
         FinishSleeps, FinishReturns, HangDetected, HangNotify, ExitNotify, Join, ReaderCheck, ReaderCount,
         ReaderPop, ReaderWaitFront, ReaderWaitData, ReaderCopy, ReaderPopFront,
         set_last_completed_event, ReaderComplete, DeviceTake, DeviceXferSize, DeviceXfer,
         PageLands, WritePtrLands, ReadPtrLands, SpuriousWake, DeviceHangs, Terminated
<1>5. (lagging => /\ returnTo = "finishWait"
                  /\ cpc \notin {"idle", "exitNotify", "joining", "destroyed", "aborted"})'
  BY <1>1 DEF CurInStep, CanEnqueue, Next, Step, ClientCall, ClientStep, ReaderStep, DeviceStep, vars,
         clientVars, countVars, readerVars, deviceVars, EnqueueRead, EnqueueBlockingRead, EnqueueRecordEvent, finish,
         record_event, Destroy,
         PushDescriptor, EventCommand, ReadCommand, increment_num_entries, NotifyReader, FinishDone,
         FinishSleeps, FinishReturns, HangDetected, HangNotify, ExitNotify, Join, ReaderCheck, ReaderCount,
         ReaderPop, ReaderWaitFront, ReaderWaitData, ReaderCopy, ReaderPopFront,
         set_last_completed_event, ReaderComplete, NotifyFinish, DeviceTake, DeviceXferSize, DeviceXfer,
         PageLands, WritePtrLands, ReadPtrLands, SpuriousWake, DeviceHangs, Terminated
<1>6. (cpc \in {"readDescriptor", "readCommand"} /\ returnTo = "finishWait" => lagging)'
  BY <1>1 DEF CurInStep, CanEnqueue, Next, Step, ClientCall, ClientStep, ReaderStep, DeviceStep, vars,
         clientVars, countVars, readerVars, deviceVars, EnqueueRead, EnqueueBlockingRead, EnqueueRecordEvent, finish,
         record_event, Destroy,
         PushDescriptor, EventCommand, ReadCommand, increment_num_entries, NotifyReader, FinishDone,
         FinishSleeps, FinishReturns, HangDetected, HangNotify, ExitNotify, Join, ReaderCheck, ReaderCount,
         ReaderPop, ReaderWaitFront, ReaderWaitData, ReaderCopy, ReaderPopFront,
         set_last_completed_event, ReaderComplete, NotifyFinish, DeviceTake, DeviceXferSize, DeviceXfer,
         PageLands, WritePtrLands, ReadPtrLands, SpuriousWake, DeviceHangs, Terminated
<1> QED
  BY <1>2, <1>3, <1>4, <1>5, <1>6 DEF CurInStep

\* The batch of the reader is among the entries that were counted and not completed.
LEMMA BatchStep == IInv /\ EInv /\ Next => BatchInStep'
<1> SUFFICES ASSUME IInv, EInv, Next PROVE BatchInStep'
  OBVIOUS
<1>1. /\ BatchInStep /\ LoopsEnd /\ entries \in Nat /\ completed \in Nat /\ batch \in Nat /\ toRead \in Nat
  BY DEF EInv, IInv, TypeOK
<1>2. entries' \in Nat /\ entries' >= entries
  BY <1>1 DEF Next, Step, ClientCall, ClientStep, ReaderStep, DeviceStep, vars, clientVars, countVars, readerVars,
         deviceVars, EnqueueRead, EnqueueBlockingRead, EnqueueRecordEvent, finish, record_event, Destroy,
         PushDescriptor, EventCommand, ReadCommand, increment_num_entries, NotifyReader, WakeReader, FinishDone,
         FinishSleeps, FinishReturns, HangDetected, HangNotify, ExitNotify, Join, ReaderCheck, ReaderCount,
         ReaderPop, ReaderWaitFront, ReaderWaitData, ReaderCopy, ReaderPopFront, NextOfBatch,
         set_last_completed_event, ReaderComplete, NotifyFinish, DeviceTake, DeviceXferSize, DeviceXfer,
         PageLands, WritePtrLands, ReadPtrLands, SpuriousWake, DeviceHangs, Terminated
<1>3. CASE UNCHANGED <<rpc, toRead, batch, completed>>
  BY <1>1, <1>2, <1>3 DEF BatchInStep, InBatch
<1>4. CASE ReaderCount
  BY <1>1, <1>4 DEF ReaderCount, countVars, BatchInStep, InBatch
<1>5. CASE InBatch /\ UNCHANGED <<toRead, batch, completed>>
  BY <1>1, <1>2, <1>5 DEF BatchInStep, InBatch
<1>6. CASE InBatch /\ NextOfBatch /\ UNCHANGED <<batch, completed>>
  BY <1>1, <1>2, <1>6 DEF BatchInStep, InBatch, NextOfBatch, LoopsEnd
<1>7. CASE rpc' \in {"check", "asleep", "count", "notifyFinish", "returned"}
  BY <1>7 DEF BatchInStep, InBatch
<1> QED
  BY <1>3, <1>4, <1>5, <1>6, <1>7
     DEF InBatch, Next, Step, ClientCall, ClientStep, ReaderStep, DeviceStep, vars, clientVars, countVars, readerVars,
         deviceVars, EnqueueRead, EnqueueBlockingRead, EnqueueRecordEvent, finish, Destroy,
         PushDescriptor, EventCommand, ReadCommand, increment_num_entries, NotifyReader, WakeReader, FinishDone,
         FinishSleeps, HangDetected, HangNotify, ExitNotify, Join, ReaderCheck,
         ReaderPop, ReaderWaitFront, ReaderWaitData, ReaderCopy, ReaderPopFront,
         set_last_completed_event, ReaderComplete, NotifyFinish, DeviceTake, DeviceXferSize, DeviceXfer,
         PageLands, WritePtrLands, ReadPtrLands, SpuriousWake, DeviceHangs, Terminated

\* The client's side of the counts changes with a push only.
LEMMA EntriesKept ==
    ASSUME IInv, EInv, Next
    PROVE  entries' + Lagging' + Uncounted' = entries + Lagging + Uncounted + (IF PushDescriptor THEN 1 ELSE 0)
<1>1. CurInStep /\ entries \in Nat /\ returnTo \in {"idle", "finishWait"} /\ lagging \in BOOLEAN
  BY DEF EInv, IInv, TypeOK
<1>2. CASE PushDescriptor
  BY <1>1, <1>2 DEF PushDescriptor, countVars, Lagging, Uncounted
<1>3. CASE ClientCall
  <2>1. ~PushDescriptor
    BY <1>3 DEF ClientCall, EnqueueRead, EnqueueBlockingRead, EnqueueRecordEvent, finish, Destroy, PushDescriptor,
                CanEnqueue
  <2> QED
    BY <2>1, <1>1, <1>3 DEF ClientCall, EnqueueRead, EnqueueBlockingRead, EnqueueRecordEvent, finish, record_event,
                Destroy, CanEnqueue, countVars, Lagging, Uncounted, CurInStep
<1>4. CASE ClientStep /\ ~PushDescriptor
  BY <1>1, <1>4 DEF ClientStep, EventCommand, ReadCommand, record_event, increment_num_entries, NotifyReader,
         FinishDone, FinishSleeps, FinishReturns, HangDetected, HangNotify, ExitNotify, Join, countVars, Lagging,
         Uncounted, CurInStep
<1>5. CASE NotifyFinish
  BY <1>1, <1>5 DEF NotifyFinish, PushDescriptor, readerVars, countVars, Lagging, Uncounted
<1>6. CASE UNCHANGED <<cpc, lagging, entries>>
  <2>1. ~PushDescriptor
    BY <1>6 DEF PushDescriptor
  <2> QED
    BY <2>1, <1>1, <1>6 DEF Lagging, Uncounted
<1> QED
  BY <1>2, <1>3, <1>4, <1>5, <1>6 DEF Next, Step, ReaderStep, DeviceStep, vars, clientVars, countVars, readerVars,
         deviceVars, ReaderCheck, ReaderCount,
         ReaderPop, ReaderWaitFront, ReaderWaitData, ReaderCopy, ReaderPopFront, NextOfBatch,
         set_last_completed_event, ReaderComplete, DeviceTake, DeviceXferSize, DeviceXfer,
         PageLands, WritePtrLands, ReadPtrLands, SpuriousWake, DeviceHangs, Terminated

\* A reader that has returned does not come back.
LEMMA ReturnedStays == Next /\ rpc = "returned" => rpc' = "returned"
  BY DEF Next, Step, ClientCall, ClientStep, ReaderStep, DeviceStep, vars, clientVars, countVars, readerVars,
         deviceVars, EnqueueRead, EnqueueBlockingRead, EnqueueRecordEvent, finish, Destroy,
         PushDescriptor, EventCommand, ReadCommand, increment_num_entries, NotifyReader, WakeReader, FinishDone,
         FinishSleeps, HangDetected, HangNotify, ExitNotify, Join, ReaderCheck, ReaderCount, ReaderPop,
         ReaderWaitFront, ReaderWaitData, ReaderCopy, ReaderPopFront,
         set_last_completed_event, ReaderComplete, NotifyFinish, DeviceTake, DeviceXferSize, DeviceXfer,
         PageLands, WritePtrLands, ReadPtrLands, SpuriousWake, DeviceHangs, Terminated

\* The reader's side changes with a pop only, as long as it does not return early.
LEMMA CompletedKept ==
    ASSUME IInv, EInv, Next, rpc' # "returned" \/ ~exit'
    PROVE  completed' + Taken' = completed + Taken + (IF ReaderPop THEN 1 ELSE 0)
<1>1. /\ ~exit' => ~exit
      /\ LoopsEnd /\ BatchInStep
      /\ completed \in Nat /\ batch \in Nat /\ toRead \in Nat /\ entries \in Nat
  BY ExitStays DEF EInv, IInv, TypeOK
<1>2. CASE ReaderPop
  BY <1>1, <1>2 DEF ReaderPop, countVars, Taken, HasEntry
<1>3. CASE UNCHANGED <<rpc, batch, toRead, completed>>
  <2>1. ~ReaderPop
    BY <1>3 DEF ReaderPop
  <2> QED
    BY <2>1, <1>1, <1>3 DEF Taken, HasEntry
<1>4. CASE ReaderCount \/ ReaderComplete
  BY <1>1, <1>4, SMTT(30) DEF ReaderCount, ReaderComplete, ReaderPop, countVars, Taken, HasEntry
<1>5. CASE HasEntry /\ HasEntry' /\ UNCHANGED <<batch, toRead, completed>>
  BY <1>1, <1>5 DEF ReaderPop, Taken, HasEntry
<1>6. CASE HasEntry /\ NextOfBatch /\ UNCHANGED <<batch, completed>>
  BY <1>1, <1>6 DEF ReaderPop, NextOfBatch, Taken, HasEntry, InBatch, LoopsEnd
<1>7. CASE /\ rpc \in {"check", "asleep", "notifyFinish"} /\ rpc' \in {"check", "asleep", "count"}
           /\ UNCHANGED <<batch, toRead, completed>>
  BY <1>1, <1>7 DEF ReaderPop, Taken, HasEntry
<1> QED
  BY <1>1, <1>2, <1>3, <1>4, <1>5, <1>6, <1>7
     DEF HasEntry, Next, Step, ClientCall, ClientStep, ReaderStep, DeviceStep, vars, clientVars, countVars, readerVars,
         deviceVars, EnqueueRead, EnqueueBlockingRead, EnqueueRecordEvent, finish, Destroy,
         PushDescriptor, EventCommand, ReadCommand, increment_num_entries, NotifyReader, WakeReader, FinishDone,
         FinishSleeps, HangDetected, HangNotify, ExitNotify, Join, ReaderCheck,
         ReaderWaitFront, ReaderWaitData, ReaderCopy, ReaderPopFront,
         set_last_completed_event, NotifyFinish, DeviceTake, DeviceXferSize, DeviceXfer,
         PageLands, WritePtrLands, ReadPtrLands, SpuriousWake, DeviceHangs, Terminated

\* What was issued is what was completed, taken or is still queued.
LEMMA CountStep == IInv /\ EInv /\ Next => CountInStep'
<1> SUFFICES ASSUME IInv, EInv, Next, rpc' # "returned" \/ ~exit'
             PROVE  entries' + Lagging' + Uncounted' = completed' + Taken' + Len(issued')
  BY DEF CountInStep
<1>1. entries + Lagging + Uncounted = completed + Taken + Len(issued)
  <2>1. rpc # "returned" \/ ~exit
    BY ExitStays, ReturnedStays
  <2> QED
    BY <2>1 DEF EInv, CountInStep
<1>2. entries' + Lagging' + Uncounted' = entries + Lagging + Uncounted + (IF PushDescriptor THEN 1 ELSE 0)
  BY EntriesKept
<1>3. completed' + Taken' = completed + Taken + (IF ReaderPop THEN 1 ELSE 0)
  BY CompletedKept
<1>4. Len(issued') = Len(issued) + (IF PushDescriptor THEN 1 ELSE 0) - (IF ReaderPop THEN 1 ELSE 0)
  <2>1. issued \in Seq(Descriptor) /\ cur \in Descriptor /\ Len(issued) \in Nat
    BY LenProperties DEF IInv, TypeOK
  <2>2. CASE PushDescriptor
    <3>1. issued' = Append(issued, cur) /\ ~ReaderPop
      BY <2>2 DEF PushDescriptor, ReaderPop, readerVars
    <3> QED
      BY <2>1, <2>2, <3>1, AppendProperties
  <2>3. CASE ReaderPop
    <3>1. issued # <<>> /\ issued' = Tail(issued) /\ ~PushDescriptor
      BY <2>3 DEF PushDescriptor, ReaderPop, readerVars
    <3> QED
      BY <2>1, <2>3, <3>1, HeadTailProperties
  <2>4. CASE ~PushDescriptor /\ ~ReaderPop
    BY <2>1, <2>4, IssuedKept
  <2> QED
    BY <2>2, <2>3, <2>4
<1>5. /\ Len(issued) \in Nat /\ entries \in Nat /\ completed \in Nat /\ batch \in Nat /\ toRead \in Nat
      /\ Lagging \in Nat /\ Uncounted \in Nat
  BY LenProperties DEF IInv, TypeOK, Lagging, Uncounted
<1>6. Taken \in Int
  BY <1>5 DEF Taken
<1> DEFINE p == IF PushDescriptor THEN 1 ELSE 0
           r == IF ReaderPop THEN 1 ELSE 0
<1>7. p \in Int /\ r \in Int
  OBVIOUS
<1> HIDE DEF p, r
<1>8. /\ entries' + Lagging' + Uncounted' = (completed + Taken + Len(issued)) + p
      /\ completed' + Taken' = (completed + Taken) + r
      /\ Len(issued') = Len(issued) + p - r
  BY <1>1, <1>2, <1>3, <1>4 DEF p, r
<1>9. completed' + Taken' + Len(issued') = ((completed + Taken) + r) + (Len(issued) + p - r)
  BY <1>8
<1> QED
  BY <1>5, <1>6, <1>7, <1>8, <1>9

-----------------------------------------------------------------------------
(* Every entry gets its pages *)

\* The invariant behind what the client may rely on: entries and counters are in step with the pages.
THEOREM EntryInvariant == Spec => [](IInv /\ EInv)
<1>1. Init => EInv
  <2> SUFFICES ASSUME Init PROVE EInv
    OBVIOUS
  <2>1. IssuedLinked /\ DescInStep /\ CurInStep /\ BatchInStep
    BY DEF Init, IssuedLinked, Linked, NextToPop, NextToPush, HasEntry, Pending, DescInStep, CurInStep, BatchInStep,
           InBatch
  <2>2. Len(eventPage) = 0 /\ Len(issued) = 0
    BY EmptySeq DEF Init
  <2>3. EventsInOrder /\ EventMeansRead
    BY <2>2 DEF Init, EventsInOrder, EventMeansRead
  <2>4. EntriesOK
    BY <2>2 DEF Init, EntriesOK, EntryOK, NoDescriptor
  <2>5. CountInStep
    BY <2>2 DEF Init, CountInStep, Lagging, Uncounted, Taken, HasEntry
  <2> QED
    BY <2>1, <2>3, <2>4, <2>5 DEF EInv
<1>2. IInv /\ EInv /\ [Next]_vars => EInv'
  <2>1. CASE Next
    BY <2>1, LinkedStep, EventsStep, EntriesStep, DescStep, CurStep, CountStep, BatchStep DEF EInv
  <2>2. ASSUME EInv, UNCHANGED vars PROVE EInv'
    <3>1. /\ UNCHANGED <<clientVars, issued, countVars>>
          /\ UNCHANGED <<rpc, toRead, batch, desc, remaining, xfer, rdCount>>
      BY <2>2 DEF vars, readerVars
    <3>2. (IssuedLinked /\ EntriesOK /\ EventsInOrder /\ EventMeansRead)'
      BY <2>2, <3>1 DEF EInv, clientVars, countVars, IssuedLinked, Linked, NextToPop, NextToPush, HasEntry, Pending,
             EntriesOK, EntryOK, EventsInOrder, EventMeansRead, EventCompleted
    <3>3. (DescInStep /\ CurInStep /\ CountInStep /\ BatchInStep)'
      BY <2>2, <3>1 DEF EInv, clientVars, countVars, DescInStep, CurInStep, CountInStep, BatchInStep, Lagging,
             Uncounted, Taken, HasEntry, Pending, InBatch
    <3> QED
      BY <3>2, <3>3 DEF EInv
  <2> QED
    BY <2>1, <2>2
<1> QED
  BY <1>1, <1>2, CompletionInvariant, PTL DEF Spec

\* When EventQuery says that an event completed, everything enqueued up to it has been read back, whatever the exit
\* of the reader after a hang has left behind.
THEOREM EventMeansReadHolds == Spec => []EventMeansRead
<1>1. EInv => EventMeansRead
  BY DEF EInv
<1> QED
  BY <1>1, EntryInvariant, PTL

\* What the reader copies for an entry are the pages the device was asked for by that entry.
THEOREM PagesIntactHolds == Spec => []PagesIntact
<1>1. IInv /\ EInv => PagesIntact
  <2> SUFFICES ASSUME IInv, EInv, rpc = "copy", NEW k \in 0 .. xfer - 1
               PROVE  ring[Position(rd, k)] = desc.first + (desc.pages - remaining - xfer) + k
    BY DEF PagesIntact
  <2>1. /\ rd \in Pointer /\ wrWord \in Pointer /\ landed \in Pointer /\ wr \in Pointer /\ rdWord \in Pointer
        /\ xfer \in Nat /\ remaining \in Nat /\ rdCount \in Nat /\ Pages \in Nat
    BY SizeAssumption DEF IInv, TypeOK
  <2>2. desc.first \in Nat /\ desc.pages \in Nat
    BY DEF IInv, TypeOK, Descriptor
  <2>3. desc.first + desc.pages = rdCount + 1 + remaining + xfer
    BY DEF EInv, DescInStep
  <2>4. xfer <= Distance(rd, landed)
    <3>1. /\ Distance(rdWord, rd) \in Int /\ Distance(rd, wrWord) \in Int /\ Distance(wrWord, landed) \in Int
          /\ Distance(landed, wr) \in Int
      BY <2>1, DistanceInt
    <3>2. /\ Distance(rd, wrWord) >= 0 /\ Distance(wrWord, landed) >= 0
          /\ Distance(rd, wrWord) + Distance(wrWord, landed) <= Pages
      BY <2>1, <3>1 DEF IInv, RingInOrder
    <3>3. Distance(rd, landed) = Distance(rd, wrWord) + Distance(wrWord, landed)
      BY <2>1, <3>2, Chain
    <3>4. xfer <= Distance(rd, wrWord)
      BY DEF IInv, XferPublished
    <3> QED
      BY <2>1, <3>1, <3>2, <3>3, <3>4
  <2>5. Distance(rd, landed) \in Int
    BY <2>1, DistanceInt
  <2>6. ring[Position(rd, k)] = rdCount + k + 1
    <3>1. k \in 0 .. Distance(rd, landed) - 1
      BY <2>1, <2>4, <2>5
    <3> QED
      BY <3>1 DEF IInv, RingContent
  <2> QED
    BY <2>1, <2>2, <2>3, <2>6
<1> QED
  BY <1>1, EntryInvariant, PTL

\* While the client waits in finish, its counter is reached only when at most the descriptor that a blocking read
\* lags behind with is still to be taken, and that is the one of its event.
LEMMA FinishCounts ==
    ASSUME IInv, EInv, ~exit, FinishDone
    PROVE  /\ issued = <<>> \/ lagging
           /\ issued = <<>> => rdCount = askedPages
           /\ rdCount + 1 >= askedPages
<1>1. /\ entries \in Nat /\ completed \in Nat /\ Len(issued) \in Nat
      /\ issued \in Seq(Descriptor) /\ BatchInStep /\ rdCount \in Nat /\ askedPages \in Nat /\ cpc = "finishWait"
  BY LenProperties DEF IInv, TypeOK, EInv, FinishDone
<1>2. entries <= completed
  BY <1>1 DEF FinishDone
<1>3. ~InBatch /\ rpc # "complete"
  <2>1. batch \in Nat
    BY DEF IInv, TypeOK
  <2> QED
    BY <1>1, <1>2, <2>1 DEF BatchInStep
<1>4. Taken = 0 /\ ~HasEntry
  BY <1>3 DEF Taken, InBatch, HasEntry
<1>5. Len(issued) <= IF lagging THEN 1 ELSE 0
  <2>1. entries + Lagging + Uncounted = completed + Taken + Len(issued)
    BY DEF EInv, CountInStep
  <2>2. Uncounted = 0 /\ Lagging = IF lagging THEN 1 ELSE 0
    BY <1>1 DEF Uncounted, Lagging
  <2> QED
    BY <1>1, <1>2, <1>4, <2>1, <2>2
<1>6. issued = <<>> \/ lagging
  BY <1>1, <1>5, EmptySeq
<1>7. Linked(issued, rdCount + 1, askedPages + 1)
  BY <1>1, <1>4 DEF EInv, IssuedLinked, NextToPop, NextToPush, Pending
<1>8. issued = <<>> => rdCount = askedPages
  BY <1>1, <1>7 DEF Linked
<1>9. ASSUME issued # <<>> PROVE rdCount + 1 = askedPages
  <2>1. Len(issued) = 1
    <3>1. Len(issued) # 0
      BY <1>1, <1>9, EmptySeq
    <3>2. Len(issued) <= 1
      BY <1>1, <1>5
    <3>3. Len(issued) \in Nat
      BY <1>1
    <3>4. \A n \in Nat : n # 0 /\ n <= 1 => n = 1
      OBVIOUS
    <3> QED
      BY <3>1, <3>2, <3>3, <3>4, Zenon
  <2>2. issued[1] = cur /\ cur.event # 0
    BY <1>1, <1>9, <2>1 DEF EInv, CurInStep, Pending
  <2>3. cur.pages = 1 /\ cur.first \in Nat
    BY <2>2 DEF EInv, EntriesOK, EntryOK, IInv, TypeOK, Descriptor
  <2>4. issued[1].first = rdCount + 1 /\ issued[1].first + issued[1].pages = askedPages + 1
    BY <1>7, <1>9, <2>1 DEF Linked
  <2> QED
    BY <1>1, <2>2, <2>3, <2>4
<1> QED
  BY <1>1, <1>6, <1>8, <1>9

\* What is left of a batch was counted, and what was counted was pushed: the reader finds a descriptor.
LEMMA PopFinds ==
    ASSUME IInv, EInv, rpc = "pop"
    PROVE  issued # <<>>
<1>1. /\ entries \in Nat /\ completed \in Nat /\ batch \in Nat /\ toRead \in Nat /\ issued \in Seq(Descriptor)
      /\ Lagging \in Nat /\ Uncounted \in Nat /\ Len(issued) \in Nat
  BY LenProperties DEF IInv, TypeOK, Lagging, Uncounted
<1>2. toRead >= 1 /\ completed + batch <= entries
  BY DEF IInv, EInv, LoopsEnd, BatchInStep, InBatch
<1>3. entries + Lagging + Uncounted = completed + (batch - toRead) + Len(issued)
  BY DEF EInv, CountInStep, Taken
<1>4. Len(issued) # 0
  BY <1>1, <1>2, <1>3
<1> QED
  BY <1>1, <1>4, EmptySeq

\* Finish is left for the idle client or for the rest of a blocking read in one way only.
LEMMA FinishLeaves ==
    ASSUME IInv, Next, cpc = "finishWait", cpc' \in {"idle", "increment"}
    PROVE  FinishDone /\ (cpc' = "idle" => ~lagging)
  BY DEF IInv, TypeOK, CanEnqueue, Next, Step, ClientCall, ClientStep, ReaderStep, DeviceStep, vars,
         clientVars, countVars, readerVars, deviceVars, EnqueueRead, EnqueueBlockingRead, EnqueueRecordEvent, finish,
         record_event, Destroy,
         PushDescriptor, EventCommand, ReadCommand, increment_num_entries, NotifyReader, FinishDone,
         FinishSleeps, FinishReturns, HangDetected, HangNotify, ExitNotify, Join, ReaderCheck, ReaderCount,
         ReaderPop, ReaderWaitFront, ReaderWaitData, ReaderCopy, ReaderPopFront,
         set_last_completed_event, ReaderComplete, NotifyFinish, DeviceTake, DeviceXferSize, DeviceXfer,
         PageLands, WritePtrLands, ReadPtrLands, SpuriousWake, DeviceHangs, Terminated

\* Finish returns only when everything enqueued before was read back, unless the reader was told to exit, and the
\* reader, which pops without a check, always finds a descriptor.
THEOREM FinishDrainsHolds == Spec => FinishDrains
<1> DEFINE Drained == cpc = "finishWait" /\ cpc' = "idle" /\ ~exit => issued = <<>> /\ rdCount = askedPages
           Descriptors == rpc = "pop" => issued # <<>>
<1>1. ASSUME IInv, EInv, Next PROVE Drained
  <2> SUFFICES ASSUME cpc = "finishWait", cpc' = "idle", ~exit
               PROVE  issued = <<>> /\ rdCount = askedPages
    OBVIOUS
  <2>1. FinishDone /\ ~lagging
    BY <1>1, FinishLeaves
  <2> QED
    BY <1>1, <2>1, FinishCounts
<1>2. ASSUME IInv, EInv PROVE Descriptors
  BY <1>2, PopFinds
<1>3. IInv /\ EInv /\ [Next]_vars => [Drained /\ Descriptors]_vars
  BY <1>1, <1>2
<1> QED
  BY <1>3, EntryInvariant, PTL DEF Spec, FinishDrains

\* A blocking read goes on from finish only when its data was copied: all that may be missing is the page of the
\* event that finish recorded.
THEOREM BlockingReadHasDataHolds == Spec => BlockingReadHasData
<1>1. IInv /\ EInv /\ [Next]_vars =>
        [cpc = "finishWait" /\ cpc' = "increment" /\ ~exit => rdCount + 1 >= askedPages]_vars
  <2> SUFFICES ASSUME IInv, EInv, Next, cpc = "finishWait", cpc' = "increment", ~exit
               PROVE  rdCount + 1 >= askedPages
    OBVIOUS
  <2>1. FinishDone
    BY FinishLeaves
  <2> QED
    BY <2>1, FinishCounts
<1> QED
  BY <1>1, EntryInvariant, PTL DEF Spec, BlockingReadHasData

-----------------------------------------------------------------------------
(* Closing the device *)

\* The client is not within a call.
Resting == cpc \in {"idle", "exitNotify", "joining", "destroyed", "aborted"}

\* After Finish, and until the next call, no entry is under way; the destructor then finds its assertions true.
QuietInv ==
    /\ completed <= entries
    /\ quiet => Resting
    /\ quiet /\ ~exit => issued = <<>> /\ entries = completed
    /\ cpc = "hangNotify" => exit
    /\ cpc # "aborted"

\* After a finish nothing is outstanding.
LEMMA QuietStep ==
    ASSUME CloseAfterFinish, IInv, EInv, QuietInv, Next
    PROVE  QuietInv'
<1>1. /\ entries \in Nat /\ completed \in Nat /\ batch \in Nat /\ BatchInStep /\ issued \in Seq(Descriptor)
      /\ returnTo \in {"idle", "finishWait"} /\ CurInStep
      /\ lagging \in BOOLEAN
  BY DEF IInv, TypeOK, EInv
<1>2. (completed <= entries)'
  <2>1. CASE ReaderComplete
    BY <1>1, <2>1 DEF ReaderComplete, BatchInStep
  <2>2. CASE completed' = completed /\ (entries' = entries \/ entries' = entries + 1)
    BY <1>1, <2>2 DEF QuietInv
  <2> QED
    BY <2>1, <2>2 DEF Next, Step, ClientCall, ClientStep, ReaderStep, DeviceStep, vars,
         clientVars, countVars, readerVars, deviceVars, EnqueueRead, EnqueueBlockingRead, EnqueueRecordEvent, finish,
         record_event, Destroy,
         PushDescriptor, EventCommand, ReadCommand, increment_num_entries, NotifyReader, FinishDone,
         FinishSleeps, FinishReturns, HangDetected, HangNotify, ExitNotify, Join, ReaderCheck, ReaderCount,
         ReaderPop, ReaderWaitFront, ReaderWaitData, ReaderCopy, ReaderPopFront,
         set_last_completed_event, ReaderComplete, NotifyFinish, DeviceTake, DeviceXferSize, DeviceXfer,
         PageLands, WritePtrLands, ReadPtrLands, SpuriousWake, DeviceHangs, Terminated
<1>3. cpc' # "aborted"
  <2>1. CASE Destroy
    BY <2>1 DEF Destroy, QuietInv
  <2>2. CASE ~Destroy
    BY <1>1, <2>2 DEF QuietInv, CanEnqueue, Next, Step, ClientCall, ClientStep, ReaderStep, DeviceStep, vars,
         clientVars, countVars, readerVars, deviceVars, EnqueueRead, EnqueueBlockingRead, EnqueueRecordEvent, finish,
         record_event,
         PushDescriptor, EventCommand, ReadCommand, increment_num_entries, NotifyReader, FinishDone,
         FinishSleeps, FinishReturns, HangDetected, HangNotify, ExitNotify, Join, ReaderCheck, ReaderCount,
         ReaderPop, ReaderWaitFront, ReaderWaitData, ReaderCopy, ReaderPopFront,
         set_last_completed_event, ReaderComplete, NotifyFinish, DeviceTake, DeviceXferSize, DeviceXfer,
         PageLands, WritePtrLands, ReadPtrLands, SpuriousWake, DeviceHangs, Terminated
  <2> QED
    BY <2>1, <2>2
<1>4. (cpc = "hangNotify" => exit)'
  BY <1>1 DEF QuietInv, CanEnqueue, Next, Step, ClientCall, ClientStep, ReaderStep, DeviceStep, vars,
         clientVars, countVars, readerVars, deviceVars, EnqueueRead, EnqueueBlockingRead, EnqueueRecordEvent, finish,
         record_event, Destroy,
         PushDescriptor, EventCommand, ReadCommand, increment_num_entries, NotifyReader, FinishDone,
         FinishSleeps, FinishReturns, HangDetected, HangNotify, ExitNotify, Join, ReaderCheck, ReaderCount,
         ReaderPop, ReaderWaitFront, ReaderWaitData, ReaderCopy, ReaderPopFront,
         set_last_completed_event, ReaderComplete, NotifyFinish, DeviceTake, DeviceXferSize, DeviceXfer,
         PageLands, WritePtrLands, ReadPtrLands, SpuriousWake, DeviceHangs, Terminated
<1>5. CASE FinishDone
  <2>1. ASSUME quiet', ~exit PROVE Resting' /\ issued' = <<>> /\ entries' = completed'
    <3>1. ~lagging /\ cpc' = "idle" /\ entries <= completed /\ issued' = issued /\ UNCHANGED <<entries, completed>>
      <4>1. ~lagging
        BY <1>5, <2>1, Zenon DEF FinishDone, FinishReturns
      <4>2. entries <= completed
        BY <1>1, <1>5 DEF FinishDone
      <4> QED
        BY <1>5, <4>1, <4>2 DEF FinishDone, FinishReturns, countVars
    <3>2. issued = <<>>
      BY <3>1, <2>1, <1>5, FinishCounts
    <3>3. entries = completed
      BY <1>1, <3>1 DEF QuietInv
    <3> QED
      BY <3>1, <3>2, <3>3 DEF Resting
  <2>2. quiet' => Resting'
    BY <1>1, <1>5 DEF FinishDone, FinishReturns, Resting
  <2>3. exit' = exit
    BY <1>5 DEF FinishDone, countVars
  <2> QED
    BY <1>2, <1>3, <1>4, <2>1, <2>2, <2>3 DEF QuietInv
<1>6. CASE HangNotify
  <2>1. exit /\ exit' = exit /\ (quiet' => Resting')
    <3>1. exit
      BY <1>6 DEF HangNotify, QuietInv
    <3> QED
      BY <1>1, <1>6, <3>1 DEF HangNotify, FinishReturns, countVars, Resting
  <2> QED
    BY <1>2, <1>3, <1>4, <2>1 DEF QuietInv
<1>7. CASE ~FinishDone /\ ~HangNotify /\ quiet' = quiet
  <2>1. CASE ~quiet
    BY <1>2, <1>3, <1>4, <1>7, <2>1 DEF QuietInv
  <2>2. CASE quiet
    <3>1. Resting
      BY <2>2 DEF QuietInv
    <3>2. Resting'
      BY <3>1, <1>7, <2>2 DEF Resting, CanEnqueue, Next, Step, ClientCall, ClientStep, ReaderStep, DeviceStep, vars,
         clientVars, countVars, readerVars, deviceVars, EnqueueRead, EnqueueBlockingRead, EnqueueRecordEvent, finish,
         record_event, Destroy,
         PushDescriptor, EventCommand, ReadCommand, increment_num_entries, NotifyReader, FinishDone,
         FinishSleeps, FinishReturns, HangDetected, HangNotify, ExitNotify, Join, ReaderCheck, ReaderCount,
         ReaderPop, ReaderWaitFront, ReaderWaitData, ReaderCopy, ReaderPopFront,
         set_last_completed_event, ReaderComplete, NotifyFinish, DeviceTake, DeviceXferSize, DeviceXfer,
         PageLands, WritePtrLands, ReadPtrLands, SpuriousWake, DeviceHangs, Terminated
    <3>3. ASSUME ~exit' PROVE issued' = <<>> /\ entries' = completed'
      <4>1. ~exit
        BY <3>3, ExitStays
      <4>2. issued = <<>> /\ entries = completed
        BY <4>1, <2>2 DEF QuietInv
      <4>3. ~InBatch /\ rpc # "complete"
        BY <4>2, <1>1 DEF BatchInStep
      <4>4. ~PushDescriptor /\ ~ReaderPop /\ ~increment_num_entries /\ ~ReaderComplete
        BY <4>3, <3>1 DEF Resting, PushDescriptor, ReaderPop, increment_num_entries, ReaderComplete, InBatch
      <4>5. issued' = issued
        BY <4>4, IssuedKept
      <4>6. UNCHANGED <<entries, completed>>
        BY <4>4 DEF Next, Step, ClientCall, ClientStep, ReaderStep, DeviceStep, vars,
         clientVars, countVars, readerVars, deviceVars, EnqueueRead, EnqueueBlockingRead, EnqueueRecordEvent, finish,
         record_event, Destroy,
         EventCommand, ReadCommand, NotifyReader, FinishDone,
         FinishSleeps, FinishReturns, HangDetected, HangNotify, ExitNotify, Join, ReaderCheck, ReaderCount,
         ReaderWaitFront, ReaderWaitData, ReaderCopy, ReaderPopFront,
         set_last_completed_event, NotifyFinish, DeviceTake, DeviceXferSize, DeviceXfer,
         PageLands, WritePtrLands, ReadPtrLands, SpuriousWake, DeviceHangs, Terminated
      <4> QED
        BY <4>2, <4>5, <4>6
    <3> QED
      BY <1>2, <1>3, <1>4, <1>7, <2>2, <3>2, <3>3 DEF QuietInv
  <2> QED
    BY <2>1, <2>2
<1>8. CASE ~quiet'
  BY <1>2, <1>3, <1>4, <1>8 DEF QuietInv
<1> QED
  BY <1>5, <1>6, <1>7, <1>8 DEF Next, Step, ClientCall, ClientStep, ReaderStep, DeviceStep, vars,
         clientVars, countVars, readerVars, deviceVars, EnqueueRead, EnqueueBlockingRead, EnqueueRecordEvent, finish,
         record_event, Destroy,
         PushDescriptor, EventCommand, ReadCommand, increment_num_entries, NotifyReader, FinishDone,
         FinishSleeps, FinishReturns, HangDetected, HangNotify, ExitNotify, Join, ReaderCheck, ReaderCount,
         ReaderPop, ReaderWaitFront, ReaderWaitData, ReaderCopy, ReaderPopFront,
         set_last_completed_event, ReaderComplete, NotifyFinish, DeviceTake, DeviceXferSize, DeviceXfer,
         PageLands, WritePtrLands, ReadPtrLands, SpuriousWake, DeviceHangs, Terminated

\* The assertions of ~HWCommandQueue hold for a client that closes the device only after Finish, or after finish
\* has given up on a hung device: no read is in flight. Without that order they do not (the run of
\* MCCompletionQueueClose).
THEOREM CloseAfterFinishHolds ==
    ASSUME CloseAfterFinish
    PROVE  Spec => []NoReadsInFlight
<1>1. Init => QuietInv
  BY DEF Init, QuietInv, Resting
<1>2. IInv /\ EInv /\ QuietInv /\ [Next]_vars => QuietInv'
  <2>1. CASE Next
    BY <2>1, QuietStep
  <2>2. ASSUME QuietInv, UNCHANGED vars PROVE QuietInv'
    BY <2>2 DEF QuietInv, Resting, vars, clientVars, countVars
  <2> QED
    BY <2>1, <2>2
<1>3. QuietInv => NoReadsInFlight
  BY DEF QuietInv, NoReadsInFlight
<1> QED
  BY <1>1, <1>2, <1>3, EntryInvariant, PTL DEF Spec

=============================================================================
