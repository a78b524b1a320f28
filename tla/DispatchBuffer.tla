---------------------------- MODULE DispatchBuffer ----------------------------
(***************************************************************************)
(* The ring between the prefetcher and the dispatcher (cq_common.hpp, the  *)
(* relay commands of cq_prefetch.cpp, the write commands of                *)
(* cq_dispatch.cpp).  It is divided into pages, the unit of flow control,  *)
(* and into blocks, the unit in which the dispatcher gives pages back.     *)
(*                                                                         *)
(* The prefetcher acquires pages from a semaphore of its own, writes       *)
(* commands over the NOC and adds the pages to a semaphore of the          *)
(* dispatcher.  An inline command is acquired, written and flushed as a    *)
(* whole.  Data from DRAM goes behind a header that is written without     *)
(* being released, in chunks through the two halves of a scratch buffer:   *)
(* one half is read into while the other is written from.                  *)
(*                                                                         *)
(* The dispatcher walks through the ring and issues NOC writes whose       *)
(* source is the ring itself.  A write reads its source when it is sent,   *)
(* some time after it was issued, so a block is given back one block later *)
(* and only when the writes issued from it have been sent.                 *)
(*                                                                         *)
(* Lengths are in units (of 16 bytes); a command begins with a header of one *)
(* unit at the start of a page.  Unit i of a command is identified by i    *)
(* and the parity of the command's number.  A unit that was sent is Junk.  *)
(* The prefetcher does not look at what it relays: which command a header  *)
(* holds is chosen when the dispatcher reads it.  The free-running         *)
(* counters of pages and of NOC writes enter only by their differences.    *)
(***************************************************************************)
EXTENDS Naturals, Sequences

CONSTANTS
    PageSize,       \* units of a page (1 << cb_log_page_size)
    BlockPages,     \* cb_pages_per_block
    Blocks,         \* cb_blocks
    HalfSize,       \* scratch_db_half_size
    Preamble,       \* split_dispatch_page_preamble_size
    XferSize,       \* the transfer size of packed writes, the page size of paged ones
    LargeSize,      \* length of a sub-command of a large packed write
    Alignment,      \* the alignment its sub-commands are padded to
    Commands,       \* the dispatch commands that occur
    Lengths,        \* bound: the sets of lengths, headers included, that inline and relayed commands have in
                    \* a behaviour
    None            \* no read in flight

Pages == BlockPages * Blocks
RingSize == Pages * PageSize
BlockSize == BlockPages * PageSize

\* The number of pages that hold n units.
PagesOf(n) == (n + PageSize - 1) \div PageSize

\* "Assume the downstream buffer is big relative to cmddat command size", "Grabbing all pages at
\* once is ok if" the scratch buffer is small: a block that is not yet released, a block that is
\* not yet finished and the page of the header must leave room for what is acquired at once. A header is
\* smaller than a page.
ASSUME SizeAssumption ==
    /\ PageSize \in Nat /\ PageSize > 1 /\ BlockPages \in Nat \ {0} /\ Blocks \in Nat /\ Blocks > 2
    /\ HalfSize \in Nat \ {0} /\ HalfSize + PageSize - 1 < ((Blocks - 2) * BlockPages + 1) * PageSize
    /\ Preamble \in 0 .. PageSize - 1
    /\ XferSize \in 1 .. PageSize
    /\ LargeSize \in Nat \ {0} /\ Alignment \in 1 .. PageSize
    /\ Commands \subseteq {"linear", "paged", "packed", "large", "relay"}
    /\ \A s \in Lengths : /\ \A n \in s.inline : n \in Nat \ {0} /\ PagesOf(n) <= (Blocks - 2) * BlockPages + 1
                        /\ \A n \in s.relay : n \in Nat /\ n > 1

Read == [half : 0 .. 1, cmd : 0 .. 1, first : Nat]
ASSUME NoneAssumption == None \notin Read

VARIABLES
    lengths,    \* the lengths that commands have in this behaviour
    \* the prefetcher
    ppc,        \* where it is
    upSem,      \* my_downstream_cb_sem: pages it may acquire
    wrPtr,      \* downstream_data_ptr
    pcmd,       \* parity of the command it writes
    job,        \* its command: length, units relayed, units in the scratch, pages to release
    scratch,    \* for each half, command and index of the first unit read into it
    reading,    \* the DRAM read that has not landed yet
    toggle,     \* db_toggle
    outbox,     \* its NOC writes and semaphore increments that are under way, in their order
    \* the dispatcher
    dpc,        \* the command it executes, or where it is
    delivered,  \* my_dispatch_cb_sem - local_count: pages delivered and not acquired
    seen,       \* upstream_count - local_count: of these, pages the dispatcher knows of
    fence,      \* cb_fence
    ptr,        \* cmd_ptr or data_ptr
    block,      \* rd_block_idx
    got,        \* pages were acquired since the last transfer
    dcmd,       \* parity of the command it executes
    len,        \* length of the command
    left,       \* units of it that are still to be transferred
    part,       \* units of the current transfer that were written as an orphan
    prev,       \* prev_block of cb_block_release_pages
    since,      \* NOC writes issued since block_noc_writes_to_clear was set, at most 1 counted
    unsent,     \* the NOC write that was issued and not sent, if any
    credits,    \* pages on their way back to upSem
    ring        \* the units in the ring

prefetchVars == <<ppc, upSem, wrPtr, pcmd, job, scratch, reading, toggle, outbox>>
dispatchVars == <<dpc, seen, fence, ptr, block, got, dcmd, len, left, part, prev,
                  since, unsent>>
vars == <<lengths, prefetchVars, dispatchVars, delivered, credits, ring>>

Junk == [cmd |-> 2, idx |-> 0, len |-> 0]
\* The length that stands for a terminate.
TerminateLen == 0
NoJob == [len |-> 0, idx |-> 0, inScratch |-> 0, release |-> 0]

TypeOK ==
    /\ lengths \in Lengths
    /\ ppc \in {"idle", "inline", "inlineLast", "header", "flush", "flushLast", "relay", "acquire", "barrier",
                "waitAll", "out"}
    /\ upSem \in 0 .. Pages
    /\ wrPtr \in 0 .. RingSize
    /\ pcmd \in 0 .. 1 /\ dcmd \in 0 .. 1
    /\ reading \in Read \cup {None}
    /\ toggle \in 0 .. 1
    /\ dpc \in {"cmd", "linear", "paged", "packed", "large", "relay", "barrier", "releaseBlock", "waitAll", "out"}
    /\ delivered \in 0 .. Pages /\ seen \in 0 .. delivered
    /\ fence \in 0 .. RingSize /\ ptr \in 0 .. RingSize
    /\ block \in 0 .. Blocks - 1
    /\ got \in BOOLEAN /\ prev \in BOOLEAN
    /\ left \in Nat /\ len \in Nat
    /\ part \in 0 .. PageSize
    /\ since \in 0 .. 1
    /\ Len(unsent) <= 1
    /\ credits \in 0 .. Pages
    /\ DOMAIN ring = 0 .. RingSize - 1

Init ==
    /\ lengths \in Lengths
    /\ ppc = "idle" /\ upSem = Pages /\ wrPtr = 0 /\ pcmd = 0 /\ job = NoJob
    /\ scratch = [h \in 1 .. 2 |-> [cmd |-> 0, first |-> 0]] /\ reading = None /\ toggle = 0 /\ outbox = <<>>
    /\ dpc = "cmd" /\ delivered = 0 /\ seen = 0 /\ fence = 0 /\ ptr = 0
    /\ block = 0 /\ got = FALSE /\ dcmd = 0 /\ len = 0 /\ left = 0 /\ part = 0
    /\ prev = FALSE /\ since = 0 /\ unsent = <<>> /\ credits = 0
    /\ ring = [a \in 0 .. RingSize - 1 |-> Junk]

RoundUp(p) == PagesOf(p) * PageSize

-----------------------------------------------------------------------------
(* Prefetcher *)

\* Unit i of a command of n units.
Unit(i, n) == [cmd |-> pcmd, idx |-> i, len |-> IF i = 0 THEN n ELSE 0]

\* A NOC write to ring position dst: of given units, or of what is in a half of the scratch
\* buffer when it is sent, from its offset off.
WriteUnits(dst, units) == [op |-> "units", dst |-> dst, units |-> units]
WriteScratch(dst, half, off, n) == [op |-> "scratch", dst |-> dst, half |-> half, off |-> off, n |-> n]
Inc(n) == [op |-> "inc", n |-> n]

\* The pages that a message adds to the dispatcher's semaphore, and those of all messages.
IncOf(m) == IF m.op = "inc" THEN m.n ELSE 0
Incs(q) ==
    LET sum[k \in 0 .. Len(q)] == IF k = 0 THEN 0 ELSE sum[k - 1] + IncOf(q[k])
    IN  sum[Len(q)]

\* noc_async_writes_flushed: all writes were sent.
flushed == \A k \in DOMAIN outbox : outbox[k].op = "inc"

\* cb_acquire_pages of the prefetcher.  The barrier at its start makes the decrement, an atomic
\* of its own that lands later, appear at once.
acquire(n) ==
    /\ upSem >= n
    /\ upSem' = upSem - n

\* write_downstream: split at the end of the ring.
write_downstream(units) ==
    LET n == Len(units)
        remaining == RingSize - wrPtr
    IN IF n > remaining
       THEN /\ outbox' = outbox \o (IF remaining > 0 THEN <<WriteUnits(wrPtr, SubSeq(units, 1, remaining))>> ELSE <<>>)
                                \o <<WriteUnits(0, SubSeq(units, remaining + 1, n))>>
            /\ wrPtr' = RoundUp(n - remaining)
       ELSE /\ outbox' = Append(outbox, WriteUnits(wrPtr, units))
            /\ wrPtr' = RoundUp(wrPtr + n)

\* process_cmd: the prefetcher begins an inline command, the header of a relayed one, or its last
\* command, the terminate.  Then it waits for the pages.
PrefetcherCall ==
    /\ ppc = "idle"
    /\ \/ ppc' = "inline" /\ \E n \in lengths.inline : job' = [NoJob EXCEPT !.len = n]
       \/ ppc' = "header" /\ \E n \in lengths.relay : job' = [NoJob EXCEPT !.len = n]
       \/ ppc' = "inlineLast" /\ job' = [NoJob EXCEPT !.len = 1]
    /\ UNCHANGED <<upSem, wrPtr, pcmd, scratch, reading, toggle, outbox, dispatchVars, delivered, credits, ring>>

\* process_relay_inline_cmd, up to its flush.
RelayInline(terminate) ==
    /\ ppc = IF terminate THEN "inlineLast" ELSE "inline"
    /\ LET n == job.len
       IN /\ acquire(PagesOf(n))
          /\ write_downstream([k \in 1 .. n |-> Unit(k - 1, IF terminate THEN TerminateLen ELSE n)])
          /\ job' = [NoJob EXCEPT !.release = PagesOf(n)]
    /\ ppc' = IF terminate THEN "flushLast" ELSE "flush"
    /\ UNCHANGED <<pcmd, scratch, reading, toggle, dispatchVars, delivered, credits, ring>>

\* ... and after it: cb_release_pages.
RelayInlineFlushed ==
    /\ ppc \in {"flush", "flushLast"} /\ flushed
    /\ outbox' = Append(outbox, Inc(job.release))
    /\ ppc' = IF ppc = "flushLast" THEN "waitAll" ELSE "idle"
    /\ job' = NoJob
    /\ pcmd' = 1 - pcmd
    /\ UNCHANGED <<upSem, wrPtr, scratch, reading, toggle, dispatchVars, delivered, credits, ring>>

\* process_relay_inline_noflush_cmd: the header of a command whose data follows.
RelayInlineNoflush ==
    /\ ppc = "header"
    /\ acquire(1)
    /\ LET p == IF wrPtr = RingSize THEN 0 ELSE wrPtr
       IN /\ outbox' = Append(outbox, WriteUnits(p, <<Unit(0, job.len)>>))
          /\ wrPtr' = p + 1
    /\ job' = [job EXCEPT !.idx = 1, !.release = 1]
    /\ ppc' = "relay"
    /\ UNCHANGED <<pcmd, scratch, reading, toggle, dispatchVars, delivered, credits, ring>>

\* Units that are still to be read from DRAM, and how many are read next.
unread == job.len - job.idx - job.inScratch
amt_to_read == IF HalfSize > unread THEN unread ELSE HalfSize

\* process_relay_linear_cmd: "This ensures that a previous cmd using the scratch buf has
\* finished", then the first read into DB0.
RelayStart ==
    /\ ppc = "relay" /\ flushed
    /\ reading' = [half |-> 0, cmd |-> pcmd, first |-> 1]
    /\ toggle' = 0
    /\ job' = [job EXCEPT !.inScratch = amt_to_read]
    /\ ppc' = "barrier"
    /\ UNCHANGED <<upSem, wrPtr, pcmd, scratch, outbox, dispatchVars, delivered, credits, ring>>

DramReadLands ==
    /\ reading # None
    /\ scratch' = [scratch EXCEPT ![reading.half + 1] = [cmd |-> reading.cmd, first |-> reading.first]]
    /\ reading' = None
    /\ UNCHANGED <<ppc, upSem, wrPtr, pcmd, job, toggle, outbox, dispatchVars, delivered, credits, ring>>

\* After the read barrier there is more to read: read into the other half while this one is
\* written.  job.inScratch stays the amount to write, idx + inScratch is what is being read.
RelayReadNext ==
    /\ ppc = "barrier" /\ reading = None /\ unread # 0
    /\ flushed
    /\ toggle' = 1 - toggle
    /\ reading' = [half |-> 1 - toggle, cmd |-> pcmd, first |-> job.idx + job.inScratch]
    /\ ppc' = "acquire"
    /\ UNCHANGED <<upSem, wrPtr, pcmd, job, scratch, outbox, dispatchVars, delivered, credits, ring>>

page_residual_space == PageSize - (wrPtr % PageSize)

\* npages of write_pages_to_dispatcher: at a page boundary the inner loop (round = 0) grabs the next
\* page, the last call (round = 1) does not.
npages(n, round) == ((n + PageSize) - page_residual_space - round) \div PageSize

\* write_pages_to_dispatcher: the writes of n units from a half of the scratch buffer, and
\* downstream_data_ptr behind them.
Wrapped == IF wrPtr = RingSize THEN 0 ELSE wrPtr
PageWrites(half, n) ==
    LET last == RingSize - Wrapped
    IN IF n > last
       THEN <<WriteScratch(Wrapped, half, 0, last), WriteScratch(0, half, last, n - last)>>
       ELSE <<WriteScratch(Wrapped, half, 0, n)>>
PtrBehind(n) == IF Wrapped + n > RingSize THEN Wrapped + n - RingSize ELSE Wrapped + n

\* The inner loop: write_pages_to_dispatcher<0, false> and cb_release_pages(npages).
RelayWrite ==
    /\ ppc = "acquire"
    /\ LET n == job.inScratch
       IN /\ acquire(npages(n, 0))
          /\ outbox' = outbox \o PageWrites(1 - toggle, n) \o <<Inc(npages(n, 0))>>
          /\ wrPtr' = PtrBehind(n)
          /\ job' = [job EXCEPT !.idx = @ + n, !.inScratch = amt_to_read]
    /\ ppc' = "barrier"
    /\ UNCHANGED <<pcmd, scratch, reading, toggle, dispatchVars, delivered, credits, ring>>

\* Mutant of RelayLast: the page of the header is not released.
RelayLastKeepsPage ==
    /\ ppc = "barrier" /\ reading = None /\ unread = 0
    /\ LET n == job.inScratch
       IN /\ acquire(npages(n, 1))
          /\ outbox' = outbox \o PageWrites(toggle, n) \o <<Inc(npages(n, 1))>>
          /\ wrPtr' = RoundUp(PtrBehind(n))
    /\ job' = NoJob
    /\ toggle' = 0
    /\ pcmd' = 1 - pcmd
    /\ ppc' = "idle"
    /\ UNCHANGED <<scratch, reading, dispatchVars, delivered, credits, ring>>

\* The end: write_pages_to_dispatcher<1, true>, move to the next page, cb_release_pages(npages + 1).
RelayLast ==
    /\ ppc = "barrier" /\ reading = None /\ unread = 0
    /\ LET n == job.inScratch
       IN /\ acquire(npages(n, 1))
          /\ outbox' = outbox \o PageWrites(toggle, n) \o <<Inc(npages(n, 1) + 1)>>
          /\ wrPtr' = RoundUp(PtrBehind(n))
    /\ job' = NoJob
    /\ toggle' = 0
    /\ pcmd' = 1 - pcmd
    /\ ppc' = "idle"
    /\ UNCHANGED <<scratch, reading, dispatchVars, delivered, credits, ring>>

\* The end of kernel_main: "Confirm expected number of pages, spinning here is a leak".
PrefetcherOut ==
    /\ ppc = "waitAll" /\ upSem = Pages
    /\ ppc' = "out"
    /\ UNCHANGED <<upSem, wrPtr, pcmd, job, scratch, reading, toggle, outbox, dispatchVars, delivered, credits, ring>>

-----------------------------------------------------------------------------
(* The NOC *)

\* Writes and increments of the prefetcher share a virtual channel and arrive in their order.
NocDeliver ==
    /\ outbox # <<>>
    /\ outbox' = Tail(outbox)
    /\ LET m == Head(outbox)
       IN CASE m.op = "units" ->
                 /\ ring' = [a \in DOMAIN ring |-> IF a >= m.dst /\ a < m.dst + Len(m.units)
                                                   THEN m.units[a - m.dst + 1] ELSE ring[a]]
                 /\ delivered' = delivered
            [] m.op = "scratch" ->
                 LET src == scratch[m.half + 1]
                 IN /\ ring' = [a \in DOMAIN ring |->
                                  IF a >= m.dst /\ a < m.dst + m.n
                                  THEN [cmd |-> src.cmd, idx |-> src.first + m.off + (a - m.dst), len |-> 0]
                                  ELSE ring[a]]
                    /\ delivered' = delivered
            [] m.op = "inc" ->
                 /\ delivered' = delivered + m.n
                 /\ ring' = ring
    /\ UNCHANGED <<ppc, upSem, wrPtr, pcmd, job, scratch, reading, toggle, dispatchVars, credits>>

\* Pages the dispatcher released arrive at the prefetcher's semaphore.
CreditsLand ==
    /\ credits # 0
    /\ upSem' = upSem + credits
    /\ credits' = 0
    /\ UNCHANGED <<ppc, wrPtr, pcmd, job, scratch, reading, toggle, outbox, dispatchVars, delivered, ring>>

\* The dispatcher's NOC write is sent: this is when it reads the ring.
NocSend ==
    /\ unsent # <<>>
    /\ ring' = [a \in DOMAIN ring |-> IF a >= unsent[1].src /\ a < unsent[1].src + unsent[1].n
                                      THEN Junk ELSE ring[a]]
    /\ unsent' = <<>>
    /\ UNCHANGED <<prefetchVars, dpc, seen, fence, ptr, block, got, dcmd, len, left, part,
                   prev, since, delivered, credits>>

-----------------------------------------------------------------------------
(* Dispatcher *)

block_end == (block + 1) * BlockSize

\* The size of the next transfer of a packed write or a relay, less what went out as an orphan.
XferOf ==
    (IF dpc = "packed" THEN XferSize
     ELSE IF left + part > PageSize - Preamble THEN PageSize - Preamble ELSE left + part) - part

\* A large packed write is a sequence of sub-commands, each padded to the alignment: how far into a
\* sub-command it is, and what is left of the padding once its data is written.
LargeSpan == ((LargeSize + Alignment - 1) \div Alignment) * Alignment
LargePos == (len - 1 - left) % LargeSpan
InPad == dpc = "large" /\ LargePos >= LargeSize
pad_size == LargeSpan - LargePos

\* "Get a page if needed": a packed write or a relay needs the whole transfer and a large packed
\* write the whole padding, the others one unit.
NeedsPage ==
    CASE dpc = "cmd" -> ptr = fence
      [] dpc \in {"linear", "paged"} -> left # 0 /\ ptr = fence
      [] dpc = "large" -> IF InPad THEN ptr + pad_size > fence ELSE ptr = fence
      [] dpc \in {"packed", "relay"} -> left # 0 /\ ptr + XferOf > fence
      [] OTHER -> FALSE

Starved == NeedsPage /\ ~got

\* A NOC write of n units from ptr, once the command buffer is ready.
IssueWrite(n) ==
    /\ unsent = <<>>
    /\ unsent' = <<[src |-> ptr, n |-> n, cmd |-> dcmd, first |-> len - left]>>
    /\ since' = 1

\* What is left of a packed write at the end of a block, or of a relay at the end of the ring, is
\* written before the dispatcher moves on.
OrphanWrite ==
    /\ Starved /\ fence = block_end /\ ptr # fence
    /\ dpc = "packed" \/ (dpc = "relay" /\ block = Blocks - 1)
    /\ IssueWrite(fence - ptr)
    /\ part' = fence - ptr
    /\ left' = left - (fence - ptr)
    /\ ptr' = fence
    /\ UNCHANGED <<prefetchVars, dpc, seen, fence, block, got, dcmd, len, prev, delivered, credits, ring>>

\* Mutant of cleared: the arguments of wrap_ge are swapped.
clearedSwapped == since <= Len(unsent)

\* wrap_ge(NIU_MST_NONPOSTED_WR_REQ_SENT, block_noc_writes_to_clear): the writes issued before
\* block_noc_writes_to_clear was set have been sent.
cleared == since >= Len(unsent)

\* Mutant of cb_block_release_pages: the block that was just finished is released.
cb_block_release_pagesAtOnce ==
    /\ credits' = credits + BlockPages
    /\ prev' = TRUE
    /\ since' = 0

\* cb_block_release_pages: release the previous block, if there is one.
cb_block_release_pages ==
    /\ prev => cleared
    /\ credits' = IF prev THEN credits + BlockPages ELSE credits
    /\ prev' = TRUE
    /\ since' = 0

\* move_rd_to_next_block_and_release_pages, at the end of the ring after wrapping around; padding
\* that began there continues at its start.
NextBlock ==
    /\ Starved /\ fence = block_end
    /\ (dpc = "relay" /\ block < Blocks - 1) \/ InPad \/ ptr = fence
    /\ cb_block_release_pages
    /\ block' = (block + 1) % Blocks
    /\ fence' = IF block = Blocks - 1 THEN 0 ELSE fence
    /\ ptr' = IF block = Blocks - 1 THEN 0 ELSE ptr
    /\ left' = IF InPad /\ block = Blocks - 1 THEN left - (fence - ptr) ELSE left
    /\ UNCHANGED <<prefetchVars, dpc, seen, got, dcmd, len, part, unsent, delivered, ring>>

\* Mutant of AcquirePages: the fence is not limited to the block.
AcquirePagesNoLimit ==
    /\ Starved /\ fence # block_end
    /\ LET usable == IF seen = 0 THEN delivered ELSE seen
       IN /\ usable # 0
          /\ seen' = 0
          /\ delivered' = delivered - usable
          /\ fence' = fence + usable * PageSize
    /\ got' = TRUE
    /\ UNCHANGED <<prefetchVars, dpc, ptr, block, dcmd, len, left, part, prev, since, unsent,
                   credits, ring>>

\* cb_acquire_pages of the dispatcher: what it has seen of its semaphore, up to the block's end.
AcquirePages ==
    /\ Starved /\ fence # block_end
    /\ LET available == IF seen = 0 THEN delivered ELSE seen
           limit == (block_end - fence) \div PageSize
           usable == IF available > limit THEN limit ELSE available
       IN /\ available # 0
          /\ seen' = available - usable
          /\ delivered' = delivered - usable
          /\ fence' = fence + usable * PageSize
    /\ got' = TRUE
    /\ UNCHANGED <<prefetchVars, dpc, ptr, block, dcmd, len, left, part, prev, since, unsent,
                   credits, ring>>

\* The command ends at p: back in the loop of kernel_main, move to the next page.
EndCmd(p) ==
    /\ ptr' = RoundUp(p)
    /\ dpc' = "cmd"
    /\ dcmd' = 1 - dcmd
    /\ len' = 0

\* process_cmd_d: the header is read.  A relay takes it along; packed writes have a whole number of
\* transfers or sub-commands.  A command that is only a header is one without NOC writes.
BeginCmd ==
    /\ dpc = "cmd" /\ (got \/ ~NeedsPage)
    /\ LET n == ring[ptr].len
       IN \E kind \in Commands :
            /\ n # TerminateLen
            /\ kind = "packed" => (n - 1) % XferSize = 0
            /\ kind = "large" => (n - 1) % LargeSpan = 0
            /\ left' = IF kind = "relay" THEN n ELSE n - 1
            /\ ring' = IF kind = "relay" THEN ring ELSE [ring EXCEPT ![ptr] = Junk]
            /\ IF left' = 0 THEN EndCmd(ptr + 1)
               ELSE /\ ptr' = IF kind = "relay" THEN ptr ELSE ptr + 1
                    /\ dpc' = kind /\ len' = n /\ dcmd' = dcmd
    /\ got' = FALSE
    /\ UNCHANGED <<prefetchVars, seen, fence, block, part, prev, since, unsent, delivered, credits>>

BeginTerminate ==
    /\ dpc = "cmd" /\ (got \/ ~NeedsPage)
    /\ ring[ptr].len = TerminateLen
    /\ dpc' = "barrier"
    /\ ptr' = ptr + 1
    /\ ring' = [ring EXCEPT ![ptr] = Junk]
    /\ got' = FALSE
    /\ UNCHANGED <<prefetchVars, seen, fence, block, dcmd, len, left, part, prev, since, unsent, delivered, credits>>

\* The size of the next transfer of each command.
XferNow ==
    LET available == IF left > fence - ptr THEN fence - ptr ELSE left
        page == XferSize - ((len - 1 - left) % XferSize)
    IN CASE dpc = "linear" -> available
         [] dpc = "paged" -> IF page > available THEN available ELSE page
         [] dpc = "large" -> IF LargeSize - LargePos > available THEN available ELSE LargeSize - LargePos
         [] OTHER -> XferOf

\* One transfer of process_write_linear, process_write_paged, process_write_packed,
\* process_write_packed_large or relay_to_next_cb.
Transfer ==
    /\ dpc \in {"linear", "paged", "packed", "large", "relay"} /\ left # 0 /\ ~InPad
    /\ got \/ ~NeedsPage
    /\ IssueWrite(XferNow)
    /\ left' = left - XferNow
    /\ IF left = XferNow THEN EndCmd(ptr + XferNow)
       ELSE ptr' = ptr + XferNow /\ UNCHANGED <<dpc, dcmd, len>>
    /\ part' = 0
    /\ got' = FALSE
    /\ UNCHANGED <<prefetchVars, seen, fence, block, prev, delivered, credits, ring>>

\* process_write_packed_large, "Handle padded size and potential wrap": skip the padding.
SkipPad ==
    /\ InPad
    /\ got \/ ~NeedsPage
    /\ left' = left - pad_size
    /\ IF left = pad_size THEN EndCmd(ptr + pad_size)
       ELSE ptr' = ptr + pad_size /\ UNCHANGED <<dpc, dcmd, len>>
    /\ got' = FALSE
    /\ ring' = [a \in DOMAIN ring |-> IF a >= ptr /\ a < ptr + pad_size THEN Junk ELSE ring[a]]
    /\ UNCHANGED <<prefetchVars, seen, fence, block, part, prev, since, unsent, delivered, credits>>

\* After a terminate: noc_async_write_barrier, then "Release any held pages from the previous block".
Terminate ==
    /\ dpc = "barrier" /\ unsent = <<>>
    /\ ptr' = RoundUp(ptr)
    /\ cb_block_release_pages
    /\ dpc' = "releaseBlock"
    /\ UNCHANGED <<prefetchVars, seen, fence, block, got, dcmd, len, left, part, unsent, delivered, ring>>

\* Mutant of ReleaseCurrent: the page of the terminate is forgotten.
ReleaseCurrentLess ==
    /\ dpc = "releaseBlock"
    /\ credits' = credits + (BlockPages - 1 - ((block_end - ptr) \div PageSize))
    /\ dpc' = "waitAll"
    /\ UNCHANGED <<prefetchVars, seen, fence, ptr, block, got, dcmd, len, left, part, prev, since,
                   unsent, delivered, ring>>

\* "Release any held pages from the current block"
ReleaseCurrent ==
    /\ dpc = "releaseBlock"
    /\ credits' = credits + (BlockPages - ((block_end - ptr) \div PageSize))
    /\ dpc' = "waitAll"
    /\ UNCHANGED <<prefetchVars, seen, fence, ptr, block, got, dcmd, len, left, part, prev, since,
                   unsent, delivered, ring>>

\* cb_wait_all_pages: "spinning here is a leak".
DispatcherOut ==
    /\ dpc = "waitAll" /\ delivered = 0
    /\ dpc' = "out"
    /\ UNCHANGED <<prefetchVars, seen, fence, ptr, block, got, dcmd, len, left, part, prev, since,
                   unsent, delivered, credits, ring>>

-----------------------------------------------------------------------------
PrefetcherStep ==
    \/ RelayInline(FALSE) \/ RelayInline(TRUE) \/ RelayInlineFlushed \/ RelayInlineNoflush
    \/ RelayStart \/ RelayReadNext \/ RelayWrite \/ RelayLast \/ PrefetcherOut

DispatcherStep ==
    \/ OrphanWrite \/ NextBlock \/ AcquirePages \/ BeginCmd \/ BeginTerminate \/ Transfer \/ SkipPad
    \/ Terminate \/ ReleaseCurrent \/ DispatcherOut

Noc == DramReadLands \/ NocDeliver \/ CreditsLand \/ NocSend

Done == ppc = "out" /\ dpc = "out" /\ UNCHANGED vars

Step == PrefetcherCall \/ PrefetcherStep \/ DispatcherStep \/ Noc \/ Done

Next == Step /\ UNCHANGED lengths

Spec == Init /\ [][Next]_vars

\* Both cores run and what is under way on the NOC arrives.
Fairness ==
    /\ WF_vars(PrefetcherStep /\ UNCHANGED lengths) /\ WF_vars(DispatcherStep /\ UNCHANGED lengths)
    /\ WF_vars(DramReadLands /\ UNCHANGED lengths) /\ WF_vars(NocDeliver /\ UNCHANGED lengths)
    /\ WF_vars(CreditsLand /\ UNCHANGED lengths) /\ WF_vars(NocSend /\ UNCHANGED lengths)

FairSpec == Spec /\ Fairness

-----------------------------------------------------------------------------
(* Properties *)

\* Nothing in the ring is overwritten before the dispatcher's NOC write has read it, and the
\* dispatcher never reads what has not arrived: every write that is still to be sent finds the units
\* of its own command, in order, and every command begins where the last one ended.
DataIntact ==
    /\ unsent # <<>> =>
         LET w == unsent[1]
         IN \A k \in 0 .. w.n - 1 :
              /\ w.src + k < RingSize
              /\ ring[w.src + k].cmd = w.cmd /\ ring[w.src + k].idx = w.first + k
    /\ dpc = "cmd" /\ (got \/ ptr # fence) =>
         ring[ptr].cmd = dcmd /\ ring[ptr].idx = 0

\* Pages the dispatcher has acquired and not released.
Held ==
    IF dpc \in {"waitAll", "out"} THEN 0
    ELSE ((IF dpc = "releaseBlock" THEN ptr ELSE fence) \div PageSize) - block * BlockPages
         + (IF prev /\ dpc # "releaseBlock" THEN BlockPages ELSE 0)

\* No page is lost or made up, wherever the two cores and what they have under way are: "spinning
\* here is a leak".
PagesConserved ==
    upSem + job.release + Incs(outbox) + delivered + Held + credits = Pages

\* Every command the prefetcher begins gets into the ring: the pages that it waits for, of an inline command,
\* of a header or of a chunk of relayed data, always come back from a dispatcher that releases whole blocks, late.
RelayNeverStuck == []<>(ppc \in {"idle", "out"})

\* After a terminate both kernels confirm their number of pages and end.
BothTerminate ==
    []<>(ppc \in {"inlineLast", "flushLast", "waitAll", "out"} => ppc = "out" /\ dpc = "out")
=============================================================================
