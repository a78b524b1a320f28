--------------------------- MODULE CompletionQueue ---------------------------
(***************************************************************************)
(* How results get back from the device.  The dispatcher                   *)
(* (process_write_host_h in cq_dispatch.cpp) writes pages into a ring in   *)
(* hugepage memory and publishes its write pointer to the host; a reader   *)
(* thread of the host (HWCommandQueue::read_completion_queue) takes them   *)
(* out and publishes its read pointer to the dispatcher.  Each pointer     *)
(* carries a toggle that flips when the pointer wraps and tells a full     *)
(* ring from an empty one.                                                 *)
(*                                                                         *)
(* The thread that enqueues commands and the reader meet in the queue      *)
(* issued_completion_q_reads, two counters, two condition variables and    *)
(* exit_condition.  A record-event command is answered by one page, a read *)
(* of a buffer by as many as it needs.                                     *)
(*                                                                         *)
(* The n-th page the device is asked for has the content n.  Writes of the *)
(* device are posted: they land in order, a page at a time, and the host   *)
(* may see the write pointer at every page that has landed (as it does     *)
(* when the dispatcher transfers single pages).                            *)
(***************************************************************************)
EXTENDS Integers, Sequences

CONSTANTS
    Pages,              \* completion_queue_size, in pages
    MaxRead,            \* bound: pages of the longest buffer read
    MaxXfer,            \* bound: pages the dispatch buffer supplies at once
    MaxEntries,         \* bound: commands that are answered
    Ops,                \* the calls the client makes
    CloseAfterFinish    \* the client closes the device only after Finish

ASSUME SizeAssumption ==
    /\ Pages \in Nat \ {0}
    /\ MaxRead \in Nat \ {0}
    /\ MaxXfer \in 1 .. Pages
    /\ MaxEntries \in Nat
    /\ CloseAfterFinish \in BOOLEAN
    /\ Ops \subseteq {"event", "read", "blockingRead", "finish"}

VARIABLES
    \* the client thread
    cpc,        \* where it is
    cur,        \* the entry it is enqueueing
    returnTo,   \* where it goes when the entry is enqueued
    lagging,    \* a blocking read has not been counted yet
    askedPages, \* pages the device was asked for, or is about to be
    eventPage,  \* for every event id handed out, the page that answers it
    quiet,      \* Finish was the last call
    \* shared by client and reader
    issued,     \* issued_completion_q_reads
    entries,    \* num_entries_in_completion_q
    completed,  \* num_completed_completion_q_reads
    exit,       \* exit_condition
    lastDone,   \* cq_to_last_completed_event
    \* the reader thread
    rpc,        \* where it is
    toRead,     \* num_events_to_read - i
    batch,      \* num_events_to_read
    desc,       \* read_descriptor
    remaining,  \* remaining_bytes_to_read
    xfer,       \* num_pages_xfered
    rd,         \* completion_fifo_rd_ptr and toggle
    rdCount,    \* pages read in all
    \* device and ring
    devQ,       \* the commands to answer, as numbers of pages
    left,       \* length: pages of the current command still to transfer
    want,       \* npages of the transfer that waits for space, or 0
    hung,       \* the device has hung
    wr,         \* cq_write_interface: write pointer and toggle of the dispatcher
    landed,     \* where the next page in flight lands
    landedCount,\* pages landed in all
    wrWord,     \* the write pointer the host sees
    rdWord,     \* the read pointer the dispatcher sees
    ring,       \* the pages of the completion queue
    testMode    \* OptionsG.get_test_mode_enabled(), which never changes

clientVars == <<cpc, cur, returnTo, lagging, askedPages, eventPage, quiet>>
countVars == <<entries, completed, exit, lastDone>>
readerVars == <<rpc, toRead, batch, desc, remaining, xfer, rd, rdCount>>
deviceVars == <<devQ, left, want, hung, wr, landed, landedCount, wrWord, rdWord, ring>>
vars == <<clientVars, issued, countVars, readerVars, deviceVars, testMode>>

Pointer == [ptr : 0 .. Pages - 1, toggle : 0 .. 1]
\* An entry: the pages that answer it, the first of them, and the event id (0 for a read).
Descriptor == [pages : Nat, first : Nat, event : Nat]
NoDescriptor == [pages |-> 0, first |-> 0, event |-> 0]
Start == [ptr |-> 0, toggle |-> 0]

TypeOK ==
    /\ cpc \in {"idle", "readDescriptor", "readCommand", "eventCommand", "eventDescriptor",
                "increment", "notify", "finishWait", "finishAsleep", "hangNotify",
                "exitNotify", "joining", "destroyed", "aborted"}
    /\ cur \in Descriptor
    /\ returnTo \in {"idle", "finishWait"}
    /\ lagging \in BOOLEAN /\ quiet \in BOOLEAN
    /\ askedPages \in Nat
    /\ eventPage \in Seq(Nat)
    /\ issued \in Seq(Descriptor)
    /\ entries \in Nat /\ completed \in Nat /\ lastDone \in Nat
    /\ exit \in BOOLEAN
    /\ rpc \in {"check", "asleep", "count", "pop", "waitFront", "waitData", "copy", "popFront",
                "setLast", "complete", "notifyFinish", "returned"}
    /\ toRead \in Nat /\ batch \in Nat
    /\ desc \in Descriptor
    /\ remaining \in Nat
    /\ xfer \in 0 .. Pages
    /\ rd \in Pointer /\ wr \in Pointer /\ landed \in Pointer
    /\ wrWord \in Pointer /\ rdWord \in Pointer
    /\ rdCount \in Nat /\ landedCount \in Nat
    /\ devQ \in Seq(Nat)
    /\ left \in Nat /\ want \in 0 .. Pages
    /\ hung \in BOOLEAN
    /\ ring \in [0 .. Pages - 1 -> Nat]
    /\ testMode \in BOOLEAN

Init ==
    /\ cpc = "idle" /\ cur = NoDescriptor /\ returnTo = "idle" /\ lagging = FALSE
    /\ askedPages = 0 /\ eventPage = <<>> /\ quiet = TRUE
    /\ issued = <<>>
    /\ entries = 0 /\ completed = 0 /\ exit = FALSE /\ lastDone = 0
    /\ rpc = "check" /\ toRead = 0 /\ batch = 0 /\ desc = NoDescriptor
    /\ remaining = 0 /\ xfer = 0 /\ rd = Start /\ rdCount = 0
    /\ devQ = <<>> /\ left = 0 /\ want = 0 /\ hung = FALSE /\ wr = Start
    /\ landed = Start /\ landedCount = 0 /\ wrWord = Start /\ rdWord = Start
    /\ ring = [i \in 0 .. Pages - 1 |-> 0]
    /\ testMode \in BOOLEAN

-----------------------------------------------------------------------------
(* Ring arithmetic *)

\* Mutant of push_back: the pointer is left at the end of the ring.
push_backAtEnd(p, n) ==
    IF p.ptr + n > Pages
    THEN [ptr |-> p.ptr + n - Pages, toggle |-> 1 - p.toggle]
    ELSE [ptr |-> p.ptr + n, toggle |-> p.toggle]

\* completion_queue_push_back of the device: wrap around and flip the toggle.
push_back(p, n) ==
    IF p.ptr + n >= Pages
    THEN [ptr |-> p.ptr + n - Pages, toggle |-> 1 - p.toggle]
    ELSE [ptr |-> p.ptr + n, toggle |-> p.toggle]

\* completion_queue_pop_front of the host: what is read past the end is dropped.
pop_front(p, n) ==
    IF p.ptr + n >= Pages
    THEN [ptr |-> 0, toggle |-> 1 - p.toggle]
    ELSE [ptr |-> p.ptr + n, toggle |-> p.toggle]

\* Mutant of available_space: the toggles are not compared.
available_spaceNoToggle == IF rdWord.ptr > wr.ptr THEN rdWord.ptr - wr.ptr ELSE Pages - (wr.ptr - rdWord.ptr)

\* available_space in completion_queue_reserve_back.
available_space ==
    IF rdWord.toggle # wr.toggle
    THEN rdWord.ptr - wr.ptr
    ELSE Pages - (wr.ptr - rdWord.ptr)

\* bytes_avail_in_completion_queue in copy_into_user_space.
pages_avail ==
    IF wrWord.ptr > rd.ptr /\ wrWord.toggle = rd.toggle
    THEN wrWord.ptr - rd.ptr
    ELSE Pages - rd.ptr

\* The pages from p up to q, for q at most one round ahead of p.
Distance(p, q) ==
    IF p.toggle = q.toggle THEN q.ptr - p.ptr ELSE Pages - p.ptr + q.ptr

\* The position k pages after p.
Position(p, k) == IF p.ptr + k >= Pages THEN p.ptr + k - Pages ELSE p.ptr + k

-----------------------------------------------------------------------------
(* The client: one thread at a time enqueues commands on a HWCommandQueue *)

\* The last entry of the bound is left for finish.
CanEnqueue(n) == cpc = "idle" /\ entries + n < MaxEntries

NewEntry(pages, event) == [pages |-> pages, first |-> askedPages + 1, event |-> event]

\* enqueue_read_buffer, a read of an interleaved buffer or of one shard.
EnqueueRead ==
    /\ "read" \in Ops /\ CanEnqueue(1)
    /\ \E n \in 1 .. MaxRead :
        /\ cur' = NewEntry(n, 0)
        /\ askedPages' = askedPages + n
    /\ cpc' = "readDescriptor"
    /\ returnTo' = "idle" /\ quiet' = FALSE
    /\ UNCHANGED <<lagging, eventPage, issued, countVars, readerVars, deviceVars>>

\* enqueue_read_buffer with blocking = true: enqueue_command calls finish before the read is counted.
EnqueueBlockingRead ==
    /\ "blockingRead" \in Ops /\ CanEnqueue(2)
    /\ \E n \in 1 .. MaxRead :
        /\ cur' = NewEntry(n, 0)
        /\ askedPages' = askedPages + n
    /\ cpc' = "readDescriptor"
    /\ returnTo' = "finishWait" /\ lagging' = TRUE /\ quiet' = FALSE
    /\ UNCHANGED <<eventPage, issued, countVars, readerVars, deviceVars>>

\* The beginning of enqueue_record_event: get_next_event.
record_event ==
    /\ cur' = NewEntry(1, Len(eventPage) + 1)
    /\ askedPages' = askedPages + 1
    /\ eventPage' = Append(eventPage, askedPages + 1)
    /\ cpc' = "eventCommand"

EnqueueRecordEvent ==
    /\ "event" \in Ops /\ CanEnqueue(1)
    /\ record_event
    /\ returnTo' = "idle" /\ quiet' = FALSE
    /\ UNCHANGED <<lagging, issued, countVars, readerVars, deviceVars>>

finish ==
    /\ "finish" \in Ops /\ CanEnqueue(0)
    /\ record_event
    /\ returnTo' = "finishWait" /\ quiet' = FALSE
    /\ UNCHANGED <<lagging, issued, countVars, readerVars, deviceVars>>

\* A read's descriptor is pushed before its command, an event's after it.
PushDescriptor ==
    /\ cpc \in {"readDescriptor", "eventDescriptor"}
    /\ issued' = Append(issued, cur)
    /\ cpc' = IF cpc = "readDescriptor" THEN "readCommand" ELSE "increment"
    /\ UNCHANGED <<cur, returnTo, lagging, askedPages, eventPage, quiet, countVars, readerVars, deviceVars>>

EventCommand ==
    /\ cpc = "eventCommand"
    /\ devQ' = Append(devQ, cur.pages)
    /\ cpc' = "eventDescriptor"
    /\ UNCHANGED <<cur, returnTo, lagging, askedPages, eventPage, quiet, issued, countVars, readerVars,
                   left, want, hung, wr, landed, landedCount, wrWord, rdWord, ring>>

\* Mutant of NotifyReader: nobody is notified.
NotifyReaderLost ==
    /\ cpc = "notify"
    /\ cpc' = returnTo
    /\ UNCHANGED <<cur, returnTo, lagging, askedPages, eventPage, quiet, issued, countVars, readerVars, deviceVars>>

ReadCommand ==
    /\ cpc = "readCommand"
    /\ devQ' = Append(devQ, cur.pages)
    /\ IF lagging
       THEN record_event
       ELSE cpc' = "increment" /\ UNCHANGED <<cur, askedPages, eventPage>>
    /\ UNCHANGED <<returnTo, lagging, quiet, issued, countVars, readerVars,
                   left, want, hung, wr, landed, landedCount, wrWord, rdWord, ring>>

\* increment_num_entries_in_completion_q: the counter is changed outside the lock ...
increment_num_entries ==
    /\ cpc = "increment"
    /\ entries' = entries + 1
    /\ cpc' = "notify"
    /\ UNCHANGED <<cur, returnTo, lagging, askedPages, eventPage, quiet, issued, completed, exit, lastDone,
                   readerVars, deviceVars>>

\* reader_thread_cv.notify_one() under reader_thread_cv_mutex.
WakeReader == rpc' = IF rpc = "asleep" THEN "check" ELSE rpc

\* ... and the reader is notified under it.
NotifyReader ==
    /\ cpc = "notify"
    /\ WakeReader
    /\ cpc' = returnTo
    /\ UNCHANGED <<cur, returnTo, lagging, askedPages, eventPage, quiet, issued, countVars,
                   toRead, batch, desc, remaining, xfer, rd, rdCount, deviceVars>>

\* finish has returned: a blocking read goes on to count itself.
FinishReturns ==
    /\ cpc' = IF lagging THEN "increment" ELSE "idle"
    /\ lagging' = FALSE
    /\ quiet' = ~lagging
    /\ returnTo' = "idle"
    /\ UNCHANGED <<cur, askedPages, eventPage>>

\* Mutant of FinishDone: it is enough that no descriptor waits for the reader.
FinishDoneOnEmptyQueue ==
    /\ cpc = "finishWait"
    /\ issued = <<>>
    /\ FinishReturns
    /\ UNCHANGED <<issued, countVars, readerVars, deviceVars>>

\* finish: the predicate of reads_processed_cv, or the condition of the test-mode loop.
FinishDone ==
    /\ cpc = "finishWait"
    /\ IF testMode THEN entries <= completed ELSE entries = completed
    /\ FinishReturns
    /\ UNCHANGED <<issued, countVars, readerVars, deviceVars>>

FinishSleeps ==
    /\ cpc = "finishWait"
    /\ ~testMode /\ entries # completed
    /\ cpc' = "finishAsleep"
    /\ UNCHANGED <<cur, returnTo, lagging, askedPages, eventPage, quiet, issued, countVars, readerVars, deviceVars>>

\* In test mode finish polls for a hung device and gives up on the reader.
HangDetected ==
    /\ cpc = "finishWait"
    /\ testMode /\ entries > completed /\ hung
    /\ exit' = TRUE
    /\ cpc' = "hangNotify"
    /\ UNCHANGED <<cur, returnTo, lagging, askedPages, eventPage, quiet, issued, entries, completed, lastDone,
                   readerVars, deviceVars>>

HangNotify ==
    /\ cpc = "hangNotify"
    /\ WakeReader
    /\ FinishReturns
    /\ UNCHANGED <<issued, countVars, toRead, batch, desc, remaining, xfer, rd, rdCount, deviceVars>>

\* Device::close lets the device process everything and terminate before the queue is destroyed.
DeviceStopped == hung \/ (devQ = <<>> /\ left = 0 /\ landed = wr /\ wrWord = landed)

\* ~HWCommandQueue
Destroy ==
    /\ cpc = "idle" /\ DeviceStopped
    /\ CloseAfterFinish => quiet \/ exit
    /\ IF exit
       THEN cpc' = "joining" /\ exit' = exit
       ELSE IF issued = <<>> /\ entries = completed
            THEN cpc' = "exitNotify" /\ exit' = TRUE
            ELSE cpc' = "aborted" /\ exit' = exit
    /\ UNCHANGED <<cur, returnTo, lagging, askedPages, eventPage, quiet, issued, entries, completed, lastDone,
                   readerVars, deviceVars>>

ExitNotify ==
    /\ cpc = "exitNotify"
    /\ WakeReader
    /\ cpc' = "joining"
    /\ UNCHANGED <<cur, returnTo, lagging, askedPages, eventPage, quiet, issued, countVars,
                   toRead, batch, desc, remaining, xfer, rd, rdCount, deviceVars>>

Join ==
    /\ cpc = "joining" /\ rpc = "returned"
    /\ cpc' = "destroyed"
    /\ UNCHANGED <<cur, returnTo, lagging, askedPages, eventPage, quiet, issued, countVars, readerVars, deviceVars>>

-----------------------------------------------------------------------------
(* The reader thread: read_completion_queue and copy_into_user_space *)

\* The predicate of reader_thread_cv, evaluated under reader_thread_cv_mutex.
ReaderCheck ==
    /\ rpc = "check"
    /\ rpc' = IF entries > completed \/ exit THEN "count" ELSE "asleep"
    /\ UNCHANGED <<clientVars, issued, countVars, toRead, batch, desc, remaining, xfer, rd, rdCount, deviceVars>>

SpuriousWake ==
    /\ rpc = "asleep"
    /\ rpc' = "check"
    /\ UNCHANGED <<clientVars, issued, countVars, toRead, batch, desc, remaining, xfer, rd, rdCount, deviceVars>>

\* Mutant of ReaderCount: the entries count as completed when the reader takes them on.
ReaderCountCompletes ==
    /\ rpc = "count"
    /\ IF entries > completed
       THEN /\ rpc' = "pop" /\ batch' = 0 /\ toRead' = entries - completed
            /\ completed' = entries
       ELSE rpc' = (IF exit THEN "returned" ELSE "check") /\ UNCHANGED <<batch, toRead, completed>>
    /\ UNCHANGED <<clientVars, issued, entries, exit, lastDone, desc, remaining, xfer, rd, rdCount, deviceVars>>

ReaderCount ==
    /\ rpc = "count"
    /\ IF entries > completed
       THEN rpc' = "pop" /\ batch' = entries - completed /\ toRead' = entries - completed
       ELSE rpc' = (IF exit THEN "returned" ELSE "check") /\ UNCHANGED <<batch, toRead>>
    /\ UNCHANGED <<clientVars, issued, countVars, desc, remaining, xfer, rd, rdCount, deviceVars>>

\* The code pops and dereferences without a check; that there is a descriptor is part of FinishDrains.
ReaderPop ==
    /\ rpc = "pop" /\ issued # <<>>
    /\ desc' = Head(issued)
    /\ issued' = Tail(issued)
    /\ rpc' = "waitFront"
    /\ UNCHANGED <<clientVars, countVars, toRead, batch, remaining, xfer, rd, rdCount, deviceVars>>

\* Mutant of wait_front: only data ends the wait.
wait_frontNoExit == rd # wrWord

\* completion_queue_wait_front returns: there is a page, or the reader is told to exit.
wait_front == rd # wrWord \/ exit

\* Mutant of ReaderWaitFront: the event is completed before its page is taken out.
ReaderWaitFrontSetsLast ==
    /\ rpc = "waitFront" /\ wait_front
    /\ IF exit
       THEN rpc' = "returned" /\ UNCHANGED <<remaining, xfer, lastDone>>
       ELSE IF desc.event # 0
            THEN rpc' = "copy" /\ remaining' = 0 /\ xfer' = 1 /\ lastDone' = desc.event
            ELSE rpc' = "waitData" /\ remaining' = desc.pages /\ UNCHANGED <<xfer, lastDone>>
    /\ UNCHANGED <<clientVars, issued, entries, completed, exit, toRead, batch, desc, rd, rdCount, deviceVars>>

\* The first wait for an entry, with the reader's early exit.
ReaderWaitFront ==
    /\ rpc = "waitFront" /\ wait_front
    /\ IF exit
       THEN rpc' = "returned" /\ UNCHANGED <<remaining, xfer>>
       ELSE IF desc.event # 0
            THEN rpc' = "copy" /\ remaining' = 0 /\ xfer' = 1
            ELSE rpc' = "waitData" /\ remaining' = desc.pages /\ xfer' = xfer
    /\ UNCHANGED <<clientVars, issued, countVars, toRead, batch, desc, rd, rdCount, deviceVars>>

\* The loop over the entries of the batch goes on, or the batch is complete.
NextOfBatch ==
    /\ toRead' = toRead - 1
    /\ rpc' = IF toRead > 1 THEN "pop" ELSE "complete"

\* One round of copy_into_user_space: how much to copy, up to the end of the ring.
ReaderWaitData ==
    /\ rpc = "waitData" /\ wait_front
    /\ IF exit
       THEN NextOfBatch /\ UNCHANGED <<remaining, xfer>>
       ELSE LET n == IF remaining < pages_avail THEN remaining ELSE pages_avail
            IN rpc' = "copy" /\ xfer' = n /\ remaining' = remaining - n /\ toRead' = toRead
    /\ UNCHANGED <<clientVars, issued, countVars, batch, desc, rd, rdCount, deviceVars>>

\* read_sysmem: what it finds is the subject of PagesIntact.
ReaderCopy ==
    /\ rpc = "copy"
    /\ rpc' = "popFront"
    /\ UNCHANGED <<clientVars, issued, countVars, toRead, batch, desc, remaining, xfer, rd, rdCount, deviceVars>>

ReaderPopFront ==
    /\ rpc = "popFront"
    /\ rd' = pop_front(rd, xfer)
    /\ rdCount' = rdCount + xfer
    /\ IF desc.event # 0
       THEN rpc' = "setLast" /\ toRead' = toRead
       ELSE IF remaining # 0
            THEN rpc' = "waitData" /\ toRead' = toRead
            ELSE NextOfBatch
    /\ UNCHANGED <<clientVars, issued, countVars, batch, desc, remaining, xfer, deviceVars>>

set_last_completed_event ==
    /\ rpc = "setLast"
    /\ lastDone' = desc.event
    /\ NextOfBatch
    /\ UNCHANGED <<clientVars, issued, entries, completed, exit, batch, desc, remaining, xfer, rd, rdCount, deviceVars>>

ReaderComplete ==
    /\ rpc = "complete"
    /\ completed' = completed + batch
    /\ rpc' = "notifyFinish"
    /\ UNCHANGED <<clientVars, issued, entries, exit, lastDone, toRead, batch, desc, remaining, xfer, rd, rdCount,
                   deviceVars>>

\* reads_processed_cv.notify_one() under reads_processed_cv_mutex.
NotifyFinish ==
    /\ rpc = "notifyFinish"
    /\ cpc' = IF cpc = "finishAsleep" THEN "finishWait" ELSE cpc
    /\ rpc' = "check"
    /\ UNCHANGED <<cur, returnTo, lagging, askedPages, eventPage, quiet, issued, countVars, toRead, batch, desc,
                   remaining, xfer, rd, rdCount, deviceVars>>

-----------------------------------------------------------------------------
(* The dispatcher and the memory between it and the host *)

DeviceTake ==
    /\ ~hung /\ left = 0 /\ devQ # <<>>
    /\ left' = Head(devQ)
    /\ devQ' = Tail(devQ)
    /\ UNCHANGED <<clientVars, issued, countVars, readerVars, want, hung, wr, landed, landedCount, wrWord, rdWord, ring>>

\* process_write_host_h: as much of the command as the dispatch buffer holds.
DeviceXferSize ==
    /\ ~hung /\ left # 0 /\ want = 0
    /\ \E n \in 1 .. MaxXfer : n <= left /\ want' = n
    /\ UNCHANGED <<clientVars, issued, countVars, readerVars, devQ, left, hung, wr, landed, landedCount, wrWord,
                   rdWord, ring>>

\* completion_queue_reserve_back ends; the pages are written and pushed.
DeviceXfer ==
    /\ ~hung /\ want # 0
    /\ want <= available_space
    /\ wr' = push_back(wr, want)
    /\ left' = left - want
    /\ want' = 0
    /\ UNCHANGED <<clientVars, issued, countVars, readerVars, devQ, hung, landed, landedCount, wrWord, rdWord, ring>>

PageLands ==
    /\ landed # wr
    /\ ring' = [ring EXCEPT ![landed.ptr] = landedCount + 1]
    /\ landed' = push_back(landed, 1)
    /\ landedCount' = landedCount + 1
    /\ UNCHANGED <<clientVars, issued, countVars, readerVars, devQ, left, want, hung, wr, wrWord, rdWord>>

\* Mutant of WritePtrLands: the pointer overtakes the pages.
WritePtrLandsEarly ==
    /\ wrWord # wr
    /\ wrWord' = wr
    /\ UNCHANGED <<clientVars, issued, countVars, readerVars, devQ, left, want, hung, wr, landed, landedCount, rdWord,
                   ring>>

\* notify_host_of_completion_queue_write_pointer: the pointer lands behind its pages.
WritePtrLands ==
    /\ wrWord # landed
    /\ wrWord' = landed
    /\ UNCHANGED <<clientVars, issued, countVars, readerVars, devQ, left, want, hung, wr, landed, landedCount, rdWord,
                   ring>>

\* send_completion_queue_read_ptr: a posted write to the dispatcher's L1.
ReadPtrLands ==
    /\ rdWord # rd
    /\ rdWord' = rd
    /\ UNCHANGED <<clientVars, issued, countVars, readerVars, devQ, left, want, hung, wr, landed, landedCount, wrWord,
                   ring>>

DeviceHangs ==
    /\ testMode /\ ~hung
    /\ hung' = TRUE
    /\ UNCHANGED <<clientVars, issued, countVars, readerVars, devQ, left, want, wr, landed, landedCount, wrWord,
                   rdWord, ring>>

-----------------------------------------------------------------------------
Terminated ==
    /\ cpc \in {"destroyed", "aborted"}
    /\ UNCHANGED vars

\* The steps of a call the client has begun.
ClientStep ==
    \/ PushDescriptor \/ EventCommand \/ ReadCommand \/ increment_num_entries \/ NotifyReader
    \/ FinishDone \/ FinishSleeps \/ HangDetected \/ HangNotify \/ ExitNotify \/ Join

ClientCall == EnqueueRead \/ EnqueueBlockingRead \/ EnqueueRecordEvent \/ finish \/ Destroy

ReaderStep ==
    \/ ReaderCheck \/ ReaderCount \/ ReaderPop \/ ReaderWaitFront \/ ReaderWaitData \/ ReaderCopy
    \/ ReaderPopFront \/ set_last_completed_event \/ ReaderComplete \/ NotifyFinish

DeviceStep == DeviceTake \/ DeviceXferSize \/ DeviceXfer

Step ==
    \/ ClientCall \/ ClientStep \/ ReaderStep \/ DeviceStep
    \/ SpuriousWake \/ PageLands \/ WritePtrLands \/ ReadPtrLands \/ DeviceHangs
    \/ Terminated

Next == Step /\ UNCHANGED testMode

Spec == Init /\ [][Next]_vars

\* The threads and the dispatcher keep running and posted writes land; calls are the client's choice.
Fairness ==
    /\ WF_vars(ClientStep /\ UNCHANGED testMode)
    /\ WF_vars(ReaderStep /\ UNCHANGED testMode)
    /\ WF_vars(DeviceStep /\ UNCHANGED testMode)
    /\ WF_vars(PageLands /\ UNCHANGED testMode)
    /\ WF_vars(WritePtrLands /\ UNCHANGED testMode)
    /\ WF_vars(ReadPtrLands /\ UNCHANGED testMode)

FairSpec == Spec /\ Fairness

-----------------------------------------------------------------------------
(* Properties *)

\* The ring holds at most Pages pages and the pointers, stale or not, never overtake each other: from the read
\* pointer the dispatcher knows, over the host's, to the write pointer the host knows and the dispatcher's.
RingInOrder ==
    /\ Distance(rdWord, rd) >= 0 /\ Distance(rd, wrWord) >= 0
    /\ Distance(wrWord, landed) >= 0 /\ Distance(landed, wr) >= 0
    /\ Distance(rdWord, wr) =
       Distance(rdWord, rd) + Distance(rd, wrWord) + Distance(wrWord, landed) + Distance(landed, wr)
    /\ Distance(rdWord, wr) <= Pages

\* The pages between the reader and the last page that landed are the ones the reader is due, in their order: no
\* page is overwritten before the reader has taken it out, wherever dispatcher and reader are.
RingContent ==
    /\ landedCount = rdCount + Distance(rd, landed)
    /\ \A k \in 0 .. Distance(rd, landed) - 1 : ring[Position(rd, k)] = rdCount + k + 1

\* What the reader copies for an entry are the pages the device was asked for by that entry, in their order and
\* not overwritten: the assertion "Event Order Issue" of read_completion_queue, for data as for events.
PagesIntact ==
    rpc = "copy" =>
        \A k \in 0 .. xfer - 1 :
            ring[Position(rd, k)] = desc.first + (desc.pages - remaining - xfer) + k

\* EventQuery and EventSynchronize.
EventCompleted(e) == lastDone >= e

\* When EventQuery says that an event completed, everything enqueued up to it has been read back.
EventMeansRead ==
    \A e \in 1 .. Len(eventPage) : EventCompleted(e) => rdCount >= eventPage[e]

\* Finish returns only when everything enqueued before was read back, unless the device hung: host_api.hpp
\* "Blocks until all previously dispatched commands on the device have completed". And the counters that it waits
\* for never run ahead of the queue: the reader, which pops without a check, always finds a descriptor.
FinishDrains ==
    [][/\ cpc = "finishWait" /\ cpc' = "idle" /\ ~exit => issued = <<>> /\ rdCount = askedPages
       /\ rpc = "pop" => issued # <<>>]_vars

\* A blocking read returns only when its data was copied, although finish returns before its own event was read.
BlockingReadHasData ==
    [][cpc = "finishWait" /\ cpc' = "increment" /\ ~exit => rdCount + 1 >= askedPages]_vars

\* The assertions of ~HWCommandQueue: "There should be no reads in flight after closing our completion queue thread".
NoReadsInFlight == cpc # "aborted"

\* Every recorded event is seen to complete (EventSynchronize returns), unless the reader was told to exit.
EventsComplete == []<>(EventCompleted(Len(eventPage)) \/ exit \/ hung)

\* Every call of the client returns: finish, also when the device hangs in test mode, and the destructor, whose
\* join meets the reader wherever set_exit_condition found it.
ClientReturns == []<>(cpc \in {"idle", "destroyed", "aborted"})

=============================================================================
