------------------------------ MODULE FetchQueue ------------------------------
(***************************************************************************)
(* How commands get from the host to the prefetcher.  The host             *)
(* (SystemMemoryManager in command_queue_interface.hpp) writes a command   *)
(* into the issue queue in hugepage memory and then an entry with its size *)
(* into the prefetch queue in the prefetcher's L1.  The prefetcher         *)
(* (fetch_q_get_cmds in cq_prefetch.cpp) reads the entry, issues an        *)
(* asynchronous PCIe read of the command into its cmddat queue, frees the  *)
(* entry, and later processes the command there.                           *)
(*                                                                         *)
(* Nothing tells the host how far the issue queue was read: "Prefetch      *)
(* queue acts as the sync mechanism to ensure that issue queue has space". *)
(* A trace command ends with an exec_buf command, which takes the whole    *)
(* cmddat queue for itself; its entry carries a flag that stalls fetching. *)
(*                                                                         *)
(* Sizes are in units of the host alignment, to which the code pads every  *)
(* command.  A unit the host has written is identified by its tag, the     *)
(* number of units in front of it that are still to be processed; the tags *)
(* of all others go down when one is processed.  What is left behind in a  *)
(* queue after it was used is Junk.                                        *)
(***************************************************************************)
EXTENDS Naturals, FiniteSets

CONSTANTS
    Entries,        \* prefetch_q_entries
    MaxCmd,         \* max_prefetch_command_size
    IssueSize,      \* size of the issue queue
    CmddatSize,     \* cmddat_q_size
    None            \* no read in flight

ASSUME SizeAssumption ==
    /\ Entries \in Nat /\ Entries >= 2
    /\ MaxCmd \in Nat /\ MaxCmd >= 1
    \* the TT_FATAL of SystemMemoryManager and the TT_ASSERT of dispatch_constants
    /\ IssueSize \in Nat /\ MaxCmd * (Entries + 2) <= IssueSize
    /\ CmddatSize \in Nat /\ CmddatSize >= 2 * MaxCmd

VARIABLES
    issueQ,     \* the units in the issue queue
    issueWr,    \* issue_fifo_wr_ptr
    fetchQ,     \* the entries of the prefetch queue
    devPtr,     \* prefetch_q_dev_ptrs: where the host writes the next entry
    devFence,   \* prefetch_q_dev_fences: the host's copy of rdAddr
    rdAddr,     \* the word at prefetch_q_rd_ptr_addr, which the host polls
    hpc,        \* where the host is
    hcmd,       \* the command whose entry the host is about to write
    outstanding, \* the number of units written and not processed, the tag of the next one
    rdPtr,      \* prefetch_q_rd_ptr
    pcieRd,     \* pcie_read_ptr
    cmddat,     \* the units in the cmddat queue
    fence,      \* end of the units that have arrived in the cmddat queue
    cmdPtr,     \* the next unit to process
    pending,    \* pending_read_size
    inflight,   \* the PCIe read that has not landed yet
    stall,      \* stall_state
    ppc,        \* where the prefetcher is
    execs,      \* tags of the exec_buf commands not processed yet
    preamble    \* 0 for prefetch_hd, the relayed packet header for prefetch_h; never changes

hostVars == <<issueQ, issueWr, devPtr, devFence, hpc, hcmd, outstanding, preamble>>
deviceVars == <<rdAddr, rdPtr, pcieRd, cmddat, fence, cmdPtr, pending, inflight, stall,
                ppc>>
vars == <<hostVars, deviceVars, fetchQ, execs>>

\* Bound: more units than both queues hold, plus the command the host is writing.
TagSpan == IssueSize + CmddatSize + MaxCmd
Tags == 0 .. TagSpan - 1
Junk == TagSpan
Empty == [size |-> 0, stall |-> FALSE]
Entry == [size : 0 .. MaxCmd, stall : BOOLEAN]
Read == [src : 0 .. IssueSize, dst : 0 .. CmddatSize, size : 1 .. MaxCmd]

ASSUME NoneAssumption == None \notin Read

TypeOK ==
    /\ issueQ \in [0 .. IssueSize - 1 -> Tags \cup {Junk}]
    /\ issueWr \in 0 .. IssueSize - 1
    /\ fetchQ \in [0 .. Entries - 1 -> Entry]
    /\ devPtr \in 0 .. Entries /\ devFence \in 0 .. Entries /\ rdAddr \in 0 .. Entries
    /\ hpc \in {"idle", "reserve", "wrapped"}
    /\ hcmd \in Entry
    /\ outstanding \in 0 .. IssueSize + CmddatSize
    /\ rdPtr \in 0 .. Entries - 1
    /\ pcieRd \in 0 .. IssueSize
    /\ cmddat \in [0 .. CmddatSize - 1 -> Tags \cup {Junk}]
    /\ fence \in 0 .. CmddatSize /\ cmdPtr \in 0 .. CmddatSize
    /\ pending \in 0 .. MaxCmd + preamble
    /\ inflight = None \/ inflight \in Read
    /\ stall \in {"NOT_STALLED", "STALL_NEXT", "STALLED"}
    /\ ppc \in {"fetch", "barrier", "stallBarrier", "hostWait", "process"}
    /\ execs \subseteq Tags
    /\ preamble \in {0, 1}

Init ==
    /\ issueQ = [i \in 0 .. IssueSize - 1 |-> Junk]
    /\ issueWr = 0
    /\ fetchQ = [i \in 0 .. Entries - 1 |-> Empty]
    /\ devPtr = 0
    /\ devFence = Entries
    /\ rdAddr = Entries
    /\ hpc = "idle"
    /\ hcmd = Empty
    /\ outstanding = 0
    /\ rdPtr = 0
    /\ pcieRd = 0
    /\ cmddat = [i \in 0 .. CmddatSize - 1 |-> Junk]
    /\ fence = 0
    /\ cmdPtr = 0
    /\ pending = 0
    /\ inflight = None
    /\ stall = "NOT_STALLED"
    /\ ppc = "fetch"
    /\ execs = {}
    /\ preamble \in {0, 1}

\* n units were processed: the tags in a queue or a set of tags afterwards.
Advance(t, n) == IF t = Junk \/ t < n THEN Junk ELSE t - n
AdvanceAll(q, n) == [i \in DOMAIN q |-> Advance(q[i], n)]
AdvanceSet(T, n) == {t - n : t \in {u \in T : u >= n}}

\* The units leave the system in front of all others.
Processed(n) ==
    /\ outstanding' = outstanding - n
    /\ issueQ' = AdvanceAll(issueQ, n)
    /\ execs' = AdvanceSet(execs, n)

-----------------------------------------------------------------------------
(* Host: SystemMemoryManager *)

\* issue_queue_reserve: a command that does not fit before the limit starts at the base.
issue_queue_reserve(size) == IF issueWr + size > IssueSize THEN 0 ELSE issueWr

\* Reserve, write and push back a command of the issue queue.  The entry of the prefetch
\* queue is reserved only after this.  A stalling command ends with an exec_buf.
HostIssue(size, st) ==
    /\ hpc = "idle"
    /\ outstanding + size <= TagSpan
    /\ LET wr == issue_queue_reserve(size)
       IN /\ issueQ' = [i \in DOMAIN issueQ |->
                          IF i >= wr /\ i < wr + size THEN outstanding + (i - wr) ELSE issueQ[i]]
          /\ issueWr' = IF wr + size >= IssueSize THEN 0 ELSE wr + size
    /\ outstanding' = outstanding + size
    /\ execs' = IF st THEN execs \cup {outstanding + size - 1} ELSE execs
    /\ hcmd' = [size |-> size, stall |-> st]
    /\ hpc' = "reserve"
    /\ UNCHANGED <<preamble, fetchQ, devPtr, devFence, deviceVars>>

\* wait_for_fetch_q_space: one turn of the polling loop.
HostReadFence ==
    /\ hpc \in {"reserve", "wrapped"}
    /\ devPtr = devFence
    /\ devFence' = rdAddr
    /\ UNCHANGED <<preamble, issueQ, issueWr, devPtr, hpc, hcmd, outstanding, deviceVars, fetchQ, execs>>

\* Wrap FetchQ if possible, then wait for space again.
HostWrap ==
    /\ hpc = "reserve"
    /\ devPtr # devFence
    /\ devPtr = Entries
    /\ devPtr' = 0
    /\ hpc' = "wrapped"
    /\ UNCHANGED <<preamble, issueQ, issueWr, devFence, hcmd, outstanding, deviceVars, fetchQ, execs>>

\* fetch_queue_write
HostFetchWrite ==
    /\ hpc \in {"reserve", "wrapped"}
    /\ devPtr # devFence
    /\ devPtr < Entries
    /\ fetchQ' = [fetchQ EXCEPT ![devPtr] = hcmd]
    /\ devPtr' = devPtr + 1
    /\ hcmd' = Empty
    /\ hpc' = "idle"
    /\ UNCHANGED <<preamble, issueQ, issueWr, devFence, outstanding, deviceVars, execs>>

-----------------------------------------------------------------------------
(* Prefetcher: read_from_pcie *)

front == fetchQ[rdPtr]

\* Where a read for the front entry goes: at fence, or at the base of the cmddat queue.
ReadPlace(pre, f) == IF f + front.size + pre > CmddatSize THEN 0 ELSE f

\* Faulty: wraps although commands are left in the cmddat queue.
CanReadEager(pre, f, c) == TRUE

\* Only wrap if there are no commands ready, otherwise we'll leave some on the floor.
CanRead(pre, f, c) == f + front.size + pre <= CmddatSize \/ c = f

\* Faulty: prefetch_q_rd_ptr runs past the end of the prefetch queue.
NextEntryUnwrapped(i) == i + 1

NextEntry(i) == IF i + 1 = Entries THEN 0 ELSE i + 1

\* Wrap pcie/hugepage
PcieStart == IF pcieRd + front.size > IssueSize THEN 0 ELSE pcieRd

\* Faulty: tells the host that the entry being read is free.
PublishedPtrNext == NextEntry(rdPtr)

\* Faulty: does not tell the host.
PublishedPtrStale == rdAddr

\* "Tell host we read": the entry whose read was just issued, not the one after it.
PublishedPtr == rdPtr

\* Issue the read of the front entry's command to dst and free the entry.
ReadFromPcie(pre, dst) ==
    /\ inflight' = [src |-> PcieStart, dst |-> dst + pre, size |-> front.size]
    /\ pending' = front.size + pre
    /\ pcieRd' = PcieStart + front.size
    /\ fetchQ' = [fetchQ EXCEPT ![rdPtr] = Empty]
    /\ rdAddr' = PublishedPtr
    /\ rdPtr' = NextEntry(rdPtr)

\* The data of the read arrives, some time before the next read barrier returns.
PcieReadLands ==
    /\ inflight # None
    /\ cmddat' = [i \in DOMAIN cmddat |->
                    IF i >= inflight.dst /\ i < inflight.dst + inflight.size
                      THEN issueQ[(inflight.src + i) - inflight.dst] ELSE cmddat[i]]
    /\ issueQ' = [i \in DOMAIN issueQ |->
                    IF i >= inflight.src /\ i < inflight.src + inflight.size
                      THEN Junk ELSE issueQ[i]]
    /\ inflight' = None
    /\ UNCHANGED <<preamble, issueWr, devPtr, devFence, hpc, hcmd, outstanding, fetchQ, execs, rdAddr, rdPtr,
                   pcieRd, fence, cmdPtr, pending, stall, ppc>>

-----------------------------------------------------------------------------
(* Prefetcher: fetch_q_get_cmds *)

cmd_ready == cmdPtr # fence

StallFlag == IF front.stall THEN "STALL_NEXT" ELSE "NOT_STALLED"

\* While stalled, only what is already in the cmddat queue is processed.
FetchWhileStalled ==
    /\ ppc = "fetch"
    /\ stall = "STALLED"
    /\ ppc' = "process"
    /\ UNCHANGED <<hostVars, fetchQ, execs, rdAddr, rdPtr, pcieRd, cmddat, fence, cmdPtr,
                   pending, inflight, stall>>

\* An entry is ready and no read is pending: issue its read.
FetchIssue ==
    /\ ppc = "fetch"
    /\ stall # "STALLED"
    /\ front # Empty /\ pending = 0
    /\ CanRead(preamble, fence, cmdPtr)
    /\ ReadFromPcie(preamble, ReadPlace(preamble, fence))
    /\ fence' = ReadPlace(preamble, fence)
    /\ stall' = StallFlag
    /\ ppc' = CASE front.stall -> "stallBarrier"
                [] ~front.stall /\ cmd_ready -> "process"
                [] OTHER -> "barrier"
    /\ UNCHANGED <<hostVars, execs, cmddat, cmdPtr>>

\* Faulty: waits for the host with a read still pending.
FetchNothingNoBarrier ==
    /\ ppc = "fetch"
    /\ stall # "STALLED"
    /\ ~(front # Empty /\ pending = 0 /\ CanRead(preamble, fence, cmdPtr))
    /\ stall' = StallFlag
    /\ ppc' = IF cmd_ready THEN "process" ELSE "hostWait"
    /\ UNCHANGED <<hostVars, fetchQ, execs, rdAddr, rdPtr, pcieRd, cmddat, fence, cmdPtr,
                   pending, inflight>>

\* No entry, a read already pending, or no room: process, wait for the read, or for the host.
FetchNothing ==
    /\ ppc = "fetch"
    /\ stall # "STALLED"
    /\ ~(front # Empty /\ pending = 0 /\ CanRead(preamble, fence, cmdPtr))
    /\ stall' = StallFlag
    /\ ppc' = CASE cmd_ready -> "process"
                [] ~cmd_ready /\ pending # 0 -> "barrier"
                [] OTHER -> "hostWait"
    /\ UNCHANGED <<hostVars, fetchQ, execs, rdAddr, rdPtr, pcieRd, cmddat, fence, cmdPtr,
                   pending, inflight>>

\* fence < cmd_ptr after the cmddat queue wrapped
WrapCmdPtr == IF fence < cmdPtr THEN fence ELSE cmdPtr

\* Faulty: a concatenated exec_buf is offset by the preamble like a first command.
ConcatPreambleAlways == preamble

\* A stalling command read behind others is "concatenated to a previous command, and should
\* not be offset by preamble size".
ConcatPreamble == IF front.stall THEN 0 ELSE preamble

\* noc_async_read_barrier, then re-check the host: nothing there, or no room for it.
BarrierDone ==
    /\ ppc = "barrier"
    /\ inflight = None
    /\ ~(front # Empty /\ CanRead(ConcatPreamble, fence + pending, WrapCmdPtr))
    /\ cmdPtr' = WrapCmdPtr
    /\ fence' = fence + pending
    /\ pending' = 0
    /\ stall' = IF front = Empty THEN stall ELSE StallFlag
    /\ ppc' = "process"
    /\ UNCHANGED <<hostVars, fetchQ, execs, rdAddr, rdPtr, pcieRd, cmddat, inflight>>

\* The same, with another entry there: issue its read before processing.
BarrierDoneIssue ==
    /\ ppc = "barrier"
    /\ inflight = None
    /\ front # Empty
    /\ CanRead(ConcatPreamble, fence + pending, WrapCmdPtr)
    /\ ReadFromPcie(ConcatPreamble, ReadPlace(ConcatPreamble, fence + pending))
    /\ cmdPtr' = WrapCmdPtr
    /\ fence' = ReadPlace(ConcatPreamble, fence + pending)
    /\ stall' = StallFlag
    /\ ppc' = IF front.stall THEN "stallBarrier" ELSE "process"
    /\ UNCHANGED <<hostVars, execs, cmddat>>

\* Faulty: does not move to the stalled state.
BarrierAndStallForgets ==
    /\ ppc = "stallBarrier"
    /\ inflight = None
    /\ cmdPtr' = WrapCmdPtr
    /\ fence' = fence + pending
    /\ pending' = 0
    /\ stall' = "NOT_STALLED"
    /\ ppc' = "process"
    /\ UNCHANGED <<hostVars, fetchQ, execs, rdAddr, rdPtr, pcieRd, cmddat, inflight>>

\* barrier_and_stall
BarrierAndStall ==
    /\ ppc = "stallBarrier"
    /\ inflight = None
    /\ cmdPtr' = WrapCmdPtr
    /\ fence' = fence + pending
    /\ pending' = 0
    /\ stall' = "STALLED"
    /\ ppc' = "process"
    /\ UNCHANGED <<hostVars, fetchQ, execs, rdAddr, rdPtr, pcieRd, cmddat, inflight>>

\* Nothing to fetch, nothing pending, nothing available, stall on host.
StallOnHost ==
    /\ ppc = "hostWait"
    /\ front # Empty
    /\ ppc' = "fetch"
    /\ UNCHANGED <<hostVars, fetchQ, execs, rdAddr, rdPtr, pcieRd, cmddat, fence, cmdPtr,
                   pending, inflight, stall>>

-----------------------------------------------------------------------------
(* Prefetcher: the commands *)

\* process_cmd of kernel_main_hd: one command, not exec_buf.
ProcessCmd ==
    /\ preamble = 0
    /\ ppc = "process"
    /\ cmddat[cmdPtr] \notin execs
    /\ Processed(1)
    /\ cmddat' = AdvanceAll([cmddat EXCEPT ![cmdPtr] = Junk], 1)
    /\ cmdPtr' = cmdPtr + 1
    /\ ppc' = "fetch"
    /\ UNCHANGED <<issueWr, devPtr, devFence, hpc, hcmd, preamble, fetchQ, rdAddr, rdPtr, pcieRd,
                   fence, pending, inflight, stall>>

\* process_exec_buf_cmd: the trace is read over the whole cmddat queue.
ProcessExecBuf ==
    /\ preamble = 0
    /\ ppc = "process"
    /\ cmddat[cmdPtr] \in execs
    /\ Processed(1)
    /\ cmddat' = [i \in DOMAIN cmddat |-> Junk]
    /\ stall' = "NOT_STALLED"
    /\ cmdPtr' = cmdPtr + 1
    /\ ppc' = "fetch"
    /\ UNCHANGED <<issueWr, devPtr, devFence, hpc, hcmd, preamble, fetchQ, rdAddr, rdPtr, pcieRd,
                   fence, pending, inflight>>

\* The number of units that process_relay_inline_all of kernel_main_h relays.
Batch == fence - (cmdPtr + preamble)

\* process_relay_inline_all: all of the batch goes to prefetch_d behind one header.
RelayInlineAll ==
    /\ preamble = 1
    /\ ppc = "process"
    /\ Processed(Batch)
    /\ stall' = IF stall = "STALLED" THEN "NOT_STALLED" ELSE stall
    /\ cmddat' = [i \in DOMAIN cmddat |->
                    IF i >= cmdPtr /\ i < fence THEN Junk ELSE Advance(cmddat[i], Batch)]
    /\ cmdPtr' = fence
    /\ ppc' = "fetch"
    /\ UNCHANGED <<issueWr, devPtr, devFence, hpc, hcmd, preamble, fetchQ, rdAddr, rdPtr, pcieRd,
                   fence, pending, inflight>>

-----------------------------------------------------------------------------
HostStep == HostReadFence \/ HostWrap \/ HostFetchWrite

PrefetcherStep ==
    \/ FetchWhileStalled \/ FetchIssue \/ FetchNothing \/ BarrierDone \/ BarrierDoneIssue
    \/ BarrierAndStall \/ StallOnHost \/ ProcessCmd \/ ProcessExecBuf \/ RelayInlineAll

Next ==
    \/ \E size \in 1 .. MaxCmd, st \in BOOLEAN : HostIssue(size, st)
    \/ HostStep
    \/ PcieReadLands
    \/ PrefetcherStep

\* The host thread and the prefetcher core run, and PCIe reads complete.
Fairness ==
    /\ WF_vars(HostStep)
    /\ WF_vars(PcieReadLands)
    /\ WF_vars(PrefetcherStep)

Spec == Init /\ [][Next]_vars

FairSpec == Spec /\ Fairness

-----------------------------------------------------------------------------
(* Correctness *)

\* The prefetcher processes exactly the units the host wrote, each once and in order,
\* intact, and only after they arrived.
ProcessesInOrder ==
    ppc = "process" =>
        /\ cmdPtr + preamble < fence
        /\ \A i \in cmdPtr + preamble .. fence - 1 :
             cmddat[i] = i - (cmdPtr + preamble)

\* The host never overwrites a command in the issue queue that is still to be read, although
\* it has no pointer to compare with: a read in flight finds the units that were written.
IssueDataIntact ==
    inflight # None =>
        \E t \in Tags : \A k \in 0 .. inflight.size - 1 :
            issueQ[inflight.src + k] = t + k

\* When exec_buf takes over the cmddat queue, it is stalled (the ASSERT of process_cmd), no
\* read into the queue is under way and no unprocessed command is left in it. And the prefetcher
\* is never stalled without an exec_buf in the queue, the only command that ends the stall.
ExecBufAlone ==
    /\ ppc = "process" /\ preamble = 0 /\ cmddat[cmdPtr] \in execs =>
         stall = "STALLED" /\ pending = 0 /\ inflight = None /\ cmdPtr + 1 = fence
    /\ stall = "STALLED" =>
         pending = 0 /\ \E i \in cmdPtr .. fence - 1 : cmddat[i] \in execs

\* Every unit the host has written is processed in the end: as long as there is one, the
\* prefetcher keeps processing.
ProcessStep == ProcessCmd \/ ProcessExecBuf \/ RelayInlineAll

AllProcessed == []<>(outstanding = 0) \/ []<><<ProcessStep>>_vars

\* The host's wait for a free entry ends.
HostNeverStuck == hpc # "idle" ~> hpc = "idle"
===============================================================================
