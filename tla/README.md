# TLA+ verification of the tt-metal fast-dispatch runtime

tt-metal is the host runtime, kernel library and device firmware for Tenstorrent
accelerators. `ttnn` operations build *programs*; the Metalium runtime
(`tt_metal/impl`) allocates their buffers, and *fast dispatch* moves them to the
device: the host writes commands into hugepage memory, a prefetcher core fetches
them, a dispatcher core executes them against the worker cores, and results come
back through a completion queue that a host thread drains. All of it is
concurrent: host threads, RISC cores and NOC transactions share ring buffers and
semaphores, with credits, wrap-around pointers and toggles as the only
synchronisation. This project models that runtime.

## 1. Inventory

| part (source) | state | operations | interacts with | what is hard |
|---|---|---|---|---|
| Issue and prefetch queue, host side (`impl/dispatch/command_queue_interface.hpp`: `SystemMemoryManager`) | issue write pointer, prefetch-queue pointer and fence, bypass (trace) buffer | reserve, write, push back; reserve / write a fetch entry | prefetcher, through hugepage memory and its L1 prefetch queue | nothing on the device protects the issue queue; only the number of fetch entries does |
| Prefetcher (`impl/dispatch/kernels/cq_prefetch.cpp`) | fetch pointer, PCIe read pointer, `cmddat_q` pointer and fence, stall state | fetch commands, relay inline / paged / linear, exec_buf, stall | host, dispatcher | out-of-order waits: a read is issued before the previous command is consumed; the stall state machine |
| Prefetcher to dispatcher buffer (`kernels/cq_common.hpp`) | two semaphores of 32 bits, block table | acquire, release, block release | prefetcher, dispatcher, dispatch_s | credits released a block late, counters that wrap |
| Dispatcher (`kernels/cq_dispatch.cpp`, `cq_dispatch_slave.cpp`) | worker completion counts, completion-queue pointers and toggles | write to host, wait, go signal, notify dispatch_s, terminate | prefetcher, workers, host | order of stalls, clears of a count that others still add to |
| Completion queue, host side (`command_queue.cpp`: `read_completion_queue`, `finish`; `SystemMemoryManager`) | read pointer and toggle, issued-read descriptors, event counters | wait front, pop, record event, finish, exit | dispatcher, user threads | full versus empty, finish racing the reader thread |
| Worker config buffer (`impl/dispatch/worker_config_buffer.cpp`) | per core type ring of 8 entries with address, size, sync count | reserve, free, alloc | `EnqueueProgramCommand` | reuse of L1 while a program runs |
| Program dispatch (`command_queue.cpp`: `enqueue_program`, `enqueue_trace`) | expected worker count, launch-message write pointer | enqueue program, record / replay trace | dispatcher, workers | config data written ahead of the stall |
| Work executor and its queue (`impl/dispatch/work_executor.hpp`, `lock_free_queue.hpp`) | ring of nodes, worker state and mode, condition variable | push work, synchronize, set mode, run worker | all device calls of asynchronous mode | slot reuse, lost wake-ups, stop racing push |
| Command queue front end (`command_queue.cpp`: `CommandQueue`) | mode, worker thread and its queue | run command, set mode, wait until empty | HWCommandQueue | mode switches |
| L1 / DRAM allocator (`impl/allocator`) | free-list of blocks, banks, lowest occupied address | allocate, allocate at address, deallocate, clear | buffers, programs' circular buffers | fragmentation, coalescing, stale caches |
| Programs, kernels, circular buffers (`impl/program`, `impl/kernels`, `impl/buffers`) | kernel groups, semaphores, CB layout | create, finalize, update | dispatch | address overlap of CBs and buffers |
| Routing and tunnelling (`impl/dispatch/kernels/packet_*`, `eth_tunneler.cpp`, `vc_*`) | packet queues | mux, demux, tunnel | remote devices | flow control over ethernet |
| Device and device pool (`impl/device`) | devices, sub-devices, fabric of CQs | initialise, close, traces | everything | start-up and tear-down order |
| Firmware (`hw/firmware`, `hw/inc/dataflow_api.h`) | go signal, launch ring, circular buffer counters | wait go, run, notify dispatcher; CB push / pop | dispatcher, kernels | 16-bit CB counters |
| JIT build, llrt, watcher, DPRINT, profiler, tools | files, binaries, debug buffers | compile, load, log | host | mostly I/O |
| ttnn (`ttnn/cpp/ttnn`, `ttnn/ttnn`) | tensors, program cache, graph capture | operations | Metalium | numeric kernels, Python bindings |

What makes each part correct, in short:

- *issue and prefetch queue*: every command the host writes is processed once, in
  order and unchanged, although the host never learns how far the issue queue was
  read; the host's waits end; `exec_buf` has the command buffer to itself.
- *completion queue*: no page is overwritten before it is read, entries are answered
  with their own pages, `Finish`, blocking reads and events mean what they say, and
  a hang or an exit gets every thread out of its wait.
- *program dispatch*: configuration memory is not reused under a running program,
  host and workers agree on the launch slot, each wait asks for exactly the
  completions there will be.
- *work executor*: no lost wake-up, nothing runs twice or out of a client's order,
  a stop drains.
- *allocator*: allocations are disjoint, in range and aligned and fail only for want of
  room; free space is coalesced; the free list and the block list agree.
- *prefetcher to dispatcher buffer*: no page is overwritten while a NOC write still
  reads it, none is read before it arrived, and page credits are conserved.
- *go signals*: workers are started only when they are idle and configured, and a wait
  that ends means that everything started before is done, whichever core counts.

## 2. Plan

Order: first the paths along which a command travels and comes back, because an
error there loses or corrupts any program's data.

1. done: `LockFreeQueue` (implements `BoundedFifo`), then `WorkExecutor`, which uses
   the FIFO that `LockFreeQueue` is shown to implement;
2. done: `FetchQueue` (host to prefetcher);
3. done: `CompletionQueue` (dispatcher to host);
4. done: `WorkerConfigBuffer` (operators) and `ProgramDispatch`, which composes it
   with host, dispatcher and workers;
5. done: `DispatchBuffer`, the credits of `cq_common.hpp` between the relays of
   `cq_prefetch.cpp` and the command loop of `cq_dispatch.cpp`;
6. done: `GoSignals`, the two dispatchers and the workers;
7. done: `FreeList` on the level of its linked blocks, implementing `AddressSpace`, the
   allocator without lists;
8. the front end `CommandQueue` (asynchronous mode, worker thread, `wait_until_empty`)
   over the completion queue, and the wait for an event of another command queue;
9. `copy_completion_queue_data_into_user_space` as a pure algorithm: padded pages cut
   at arbitrary places by the ring, against the definition of the result;
10. the packet queues of mux, demux and tunneller.

Proofs, in the order of their worth (section 6 has the arguments):

1. done: the pointer and content invariant of `FetchQueue` from the `TT_FATAL` on the size of the issue queue;
2. done: `ConfigIntact` without traces, `WaitsForAll`, and `LaunchInSync` where the code keeps the slots in step;
3. done: that `LockFreeQueue` implements `BoundedFifo`; the safety of `WorkExecutor`;
4. done: `EventMeansRead`, `PagesIntact`, `FinishDrains`, `BlockingReadHasData` of `CompletionQueue`;
5. done: `GoSafe` and `WaitMeansDone`, with an invariant that relates the two counts to the host's expectation;
6. done: data integrity and credit conservation of `DispatchBuffer`, without a preamble;
7. left: that the steps of `AddressSpace` keep its ranges disjoint, and as far as it goes without induction over the
   linked blocks, `ListsAgree` of `FreeList`.

## 3. Modules and code

**`LockFreeQueue`** models `LockFreeQueue<T>` node by node. `head` and `tail` are
indices of nodes (the code's atomic pointers), `NextNode` is the `next` link the
constructor sets, `data` the nodes' shared pointers. `push` is `CallPush`,
`LockFunc`, `StallExit` (the loop on `tail->next == head`), `WriteData`,
`AdvanceTail`, `UnlockFunc`; `pop` is `PopHead` (`pop_head`), `ReadData`,
`ResetData`, `ReturnPop`, after the reader's `PollNonEmpty`. Each access another
thread can observe is a step. `BoundedFifo` is the promise: an atomic queue whose push
and pop each take effect in one step; the refinement mapping takes the nodes from
`head` to `tail`, and the one being popped until it has been read.

**`WorkExecutor`** models `push_work`, `synchronize`, `set_worker_mode`, `reset`,
`start_worker`, `stop_worker`, `run_worker`, with clients and worker as processes.
The condition variable is modelled with its test, its sleep, wake-ups by `notify`
and spurious wake-ups. The worker's thread id is stored by the starting
client *after* the thread was spawned, so `StartSpawn` and `StartStoreId` are
separate. A work item may push nested work. As in the code's callers, the mode is
changed only while no other client is inside a call.

**`FetchQueue`** models `issue_queue_reserve`, `issue_queue_push_back`,
`fetch_queue_reserve_back` and `fetch_queue_write` of `SystemMemoryManager`
(`HostIssue`, `HostReadFence`, `HostWrap`, `HostFetchWrite`), `fetch_q_get_cmds` and
`read_from_pcie` of the prefetcher (the `Fetch*`, `Barrier*` and `StallOnHost`
actions, one per path through the code), the read's arrival (`PcieReadLands`), the
command loops of `prefetch_hd` (`ProcessCmd`, `ProcessExecBuf`) and of `prefetch_h`
(`RelayInlineAll`). The variable `preamble`, fixed in `Init`, is 0 for `prefetch_hd`
and 1 for `prefetch_h`, whose command buffer has a header in front of each batch. Memory
holds tags, so an overwritten or misplaced unit shows; a place that was read once or
never holds `Junk`. A tag counts from the oldest command that is not processed, and all tags
move when one is: the behaviours are infinite, the states finite, and no two units in
the system share a tag.

**`CompletionQueue`** models `process_write_host_h`, `completion_queue_reserve_back`
and `_push_back` of the dispatcher, `completion_queue_wait_front` and `_pop_front` of
`SystemMemoryManager`, `read_completion_queue`, `finish`, `enqueue_read_buffer`,
`enqueue_record_event`, `increment_num_entries_in_completion_q`, `set_exit_condition`
and the destructor of `HWCommandQueue`, and the order of `Device::close`. Pages land
one by one in hugepage memory and both published pointers are words that lag behind
(`wrWord`, `rdWord`). The reads of interleaved and of sharded buffers differ in when
they call `finish`; the blocking read that is modelled is the interleaved one. The variable
`testMode`, fixed in `Init`, is the test mode of the watcher, in which `finish` looks
for a hang. The code's reader pops the descriptor queue without looking whether it is empty (`command_queue.cpp:2578`);
`ReaderPop` has the guard, and `FinishDrains` says that it never holds the reader back.

**`WorkerConfigBuffer`** is `WorkerConfigBufferMgr` as operators on a ring (`reserve`,
`free`, `alloc`, with `Round` for one turn of the loop in `reserve`).
**`ProgramDispatch`** uses it: `enqueue_program` (with `write_program` for the order of
the command sequence that `EnqueueProgramCommand` emits), `trace_program`,
`record_begin`, `record_end`, `enqueue_trace`, `release_trace` on the host;
`DispatchConfig`, `DispatchWait`, `DispatchLaunch`, `DispatchReset` for the dispatcher;
`WorkerDone`, `WorkerReset` for the firmware. Programs that were enqueued once are
`finalized` and may be traced.

**`DispatchBuffer`** models what moves commands and data from the prefetcher to the
dispatcher. Prefetcher: `process_cmd`, which begins a command of one of the lengths in the variable `lengths`
(`PrefetcherCall`; `lengths` is fixed in `Init` to a member of the constant `Lengths`); then the prefetcher waits for pages
(`ppc` is "inline", "inlineLast" for a terminate, or "header") until `process_relay_inline_cmd` or
`process_relay_inline_noflush_cmd` gets them (`RelayInline`, `RelayInlineNoflush`);
and the relays that read DRAM into one half of the scratch buffer while the other is
written (`RelayStart`, `RelayReadNext`, `RelayWrite`, `RelayLast`; `npages` is the number
of pages a write acquires, which differs between the loop and its end). Dispatcher: the command
loop (`BeginCmd`, `EndCmd`, `Terminate`), the walk of its write commands through
the ring (`Transfer`; `OrphanWrite` for a transfer cut at the end of a block;
`SkipPad` for the padding of `process_write_packed_large`), `cb_acquire_pages` limited to
the current block (`AcquirePages`), `move_rd_to_next_block_and_release_pages` (`NextBlock`) and the release
of the block before it, once its writes have been sent (`cb_block_release_pages`).
A NOC write reads its source when it is sent (`NocSend`), and data and semaphore increments
arrive in the order of one virtual channel (`NocDeliver`, `CreditsLand`). The ring holds
which unit of which command is where. Semaphores are counted by their differences, so the
wrap-around of their 32 bits does not show. The dispatcher keeps up to two blocks less a page
(the comment at `cq_dispatch.cpp:78-79` says one block).

**`GoSignals`** models how a program is started and how its end is noticed: `dispatch_d`
(`DConfig`, `DBarrier`, `DWait`, `DClear` and `DCleared` for the atomic that clears a
count, `DNotify`, `DGo`), `dispatch_s` (`SNotified` and `SGo` for
`process_go_signal_mcast_cmd`, `SClear` for its wait command, `SUpdate` for the forwarding
of the count while it waits), each worker core with its loop, and every write or increment on
the NOC as a step of its own. The host issues programs, replays of traces, the beginning of a
recording and, at the end, the terminates. The variable `mode`, fixed in `Init`, is the
arrangement `device.cpp:2062-2072` chooses: both dispatchers on one core, on two, or
no `dispatch_s`. `ProgramDispatch` has the dispatcher as one core and looks at the contents of
configuration and launch slots; `GoSignals` looks at who may start what and when.

**`FreeList`** models `FreeList` link by link, below `BankManager::allocate_buffer` and
`Buffer::deallocate`. Each operator carries the name of its method and changes the
links in the method's order; a loop over a list is `Chain`, and where it stops is `First`.
`list` has the blocks and the ends of both lists, `lowest` is `lowest_occupied_address_`,
`buffers` the addresses that Buffers hold. `block_tail_` is left out: it is read only to be
updated, and the merges of `deallocate` leave it behind. **`AddressSpace`** is the
promise: ranges of bytes, an allocation that lands as low or as high as first fit or
best fit puts it and fails only for want of room, and the lowest address in use. The
refinement mapping takes the blocks `is_allocated` calls allocated.

The MC modules only give constants their values. Definitions beside an action whose
name says what it gets wrong (`StallExitNoWait`, `PublishedPtrStale`,
`enqueue_traceKeepsCount`, ...) are deliberate errors: each property is shown to fail
when the action is replaced by one of them. They are not part of any specification.

## 4. Runs

| run | module, configuration | checks | distinct states |
|---|---|---|---|
| `lock_free_queue` | `MCLockFreeQueue` | `TypeOK`, `NoSlotRace`, `ImplementsFifo`, `PushCompletes` | 6.6 thousand |
| `work_executor` | `MCWorkExecutor` | `TypeOK`, `RunsInOrder`, `StoppedIsDrained`, `NeverPopsEmpty`, `SynchronizeDrains`, `CallsReturn`, `WorkRuns` | 59 thousand |
| `fetch_queue` | `MCFetchQueue` | `TypeOK`, `ProcessesInOrder`, `IssueDataIntact`, `ExecBufAlone`, `AllProcessed`, `HostNeverStuck` | 104 thousand |
| `completion` | `MCCompletionQueue` | `TypeOK`, `RingContent`, `PagesIntact`, `EventMeansRead`, `FinishDrains`, `BlockingReadHasData`, `ClientReturns`, `EventsComplete` | 643 thousand |
| `completion_close` | `MCCompletionQueue`, `Close` | `NoReadsInFlight`: violated | |
| `dispatch_buffer` | `MCDispatchBuffer` | `TypeOK`, `DataIntact`, `PagesConserved`, `RelayNeverStuck`, `BothTerminate` | 733 thousand |
| `go_signals` | `MCGoSignals` | `TypeOK`, `GoSafe`, `WaitMeansDone`, `AllServed` | 439 thousand |
| `programs` | `MCProgramDispatch` | `ConfigIntact` | 311 thousand |
| `traces` | `MCProgramDispatch`, `Trace` | `TypeOK`, `LaunchInSync`, `WaitsForAll` | 71 thousand |
| `allocator` | `MCFreeList` | `ListsAgree`, `ImplementsAddressSpace` | 104 thousand |
| `traces_config` | `MCProgramDispatch`, `TraceConfig` | `ConfigIntact`: violated | |
| `traces_two_core_types` | `MCProgramDispatch`, `TraceSlots` | `LaunchInSync`: violated | |

What the runs show, and why their bounds are enough:

- `lock_free_queue`: three nodes hold two items, so the ring is empty, full and wrapped
  with two writers waiting for the mutex. The number of pushes is not bounded.
- `work_executor`: two items (one nested) of two clients and four mode switches: two
  full rounds of start and stop, so that a stop meets queued work, a restart meets the
  thread id of the worker before, and a push meets every phase of the worker.
- `fetch_queue`: queues of the smallest sizes that the `TT_FATAL` of
  `SystemMemoryManager` and the assertions on the command buffer allow, all command sizes
  from one unit to the maximum. The command buffer is exactly twice the maximum, as the
  sizes in `command_queue_interface.hpp` are. The host never stops.
- `completion`: two pages and reads of up to three: a read larger than the ring wraps
  and fills it. Three entries let a read, an event and a finish overlap in any order.
  The device may hang at any point, or not, and the run then checks what becomes of every
  waiting thread; a hang ends the waits only in test mode.
- `dispatch_buffer`: four blocks of two pages of two units, a scratch half of five
  units. Relays have nine units (headers included; the last write ends within a page) or eight (it ends
  at the end of a page) and need both halves of the scratch buffer. Inline commands have one unit, or nine: five pages, the most that
  may be acquired at once under `SizeAssumption`. A behaviour has one of the two pairs of `MCLengths`. Commands
  begin and end in every place of a block and their number is not bounded. Every kind of write command occurs after every other.
  `RelayNeverStuck` is why `SizeAssumption` bounds inline commands: with six pages the prefetcher can wait forever, since the
  dispatcher gives back nothing of the block it has not finished and of the one before.
- `go_signals`: two workers that a multicast reaches and one that needs a unicast, so counts can be
  partly reported; buffers of three and two commands, which fill; four completions before
  the counts must be reset, and any number of resets.
- `allocator`: five aligned units, allocations of one, two and three of them from both ends and
  at every address: all four ways to take a slice, all four ways to merge, a full bank, and refused
  allocations between the others. The sequences of calls are not bounded.
- `programs`: rings of 4 and 5 bytes of configuration, programs of 0 to 3 bytes on each
  of the two core types: full rings, wrapped rings, a gap at the end and programs that
  skip a core type. Three entries rather than eight make the ring of entries wrap.
- `traces`: the configuration ring has room for one program, so the space is
  always synchronised and only the counting and the slots matter here; up to three
  programs in a trace with two slots wrap the slots. The code lets a program be traced only after it was
  enqueued, and one trace exists at a time in the model.

`programs`, `traces`, `work_executor` and `allocator` do not check for deadlock: the host of the
model stops at its bounds, clients may stop calling, and a closed device allocates nothing. All other
passing runs do.

## 5. Fairness

Fairness is used by `lock_free_queue`, `work_executor`, `fetch_queue`, `completion`,
`dispatch_buffer` and `go_signals`. Everywhere a *call* is unfair: nobody has to call. What a call waits for is
not part of it: the prefetcher of `dispatch_buffer` need not begin a command (`PrefetcherCall`), but once it has begun one, all its acquires are
steps of the fair `PrefetcherStep`.

- Threads and cores that can take a step take it in the end (weak fairness): the
  operating system schedules host threads, and each RISC core runs one program.
- A thread that waits for a mutex gets it when it is free again and again (strong
  fairness on `LockFunc` and on the three notifications under `cv_mutex`). The C++
  standard does not promise it; it is an assumption on the host's mutexes, which are held
  here for a few instructions at a time.
- PCIe reads and posted writes arrive (weak fairness on `PcieReadLands`, `PageLands`,
  `WritePtrLands`, `ReadPtrLands`), and so does what is on the NOC (`NocDeliver`,
  `CreditsLand`, `NocSend`, `DramReadLands`; `ConfigLands`, `NoticeLands`, `UpdateLands`,
  `ReportLands`).
- A worker that was started finishes its program (weak fairness on its step): a kernel that
  never ends is an error of the user's program.
- `DeviceHangs` is unfair: it may happen or not.

`CallsReturn` excuses a call while another client keeps calling: `synchronize` polls
for an empty queue, and may miss it each time. That is how the code behaves.

## 6. Proofs

Every theorem below is for all values of the constants that satisfy the named assumptions, which TLC evaluates in the
runs. Each component has an inductive invariant, conjunction of the property and of the facts it rests on; every part
was checked by TLC before it was proved, except the invariant of `DispatchBufferProofs`: it says that there is a plan of
positions without bound, which TLC cannot enumerate.

`LockFreeQueueProofs`, for any ring of at least two nodes, any set of writers, both
lock modes (in lock-free mode there is at most one writer, `WriterAssumption`). `NoSlotRace` is
not inductive. `IInv` adds where the safety comes from: who is inside a push holds the
mutex (`HoldsMutex`), who left the stall loop has a spare node (`SpareNode`: only the
holder moves `tail`, and the reader only moves `head` away), the reader in the middle of a pop is
exactly one node behind `head` (`ReaderBehind`), nodes of the window hold items
(`CarriesItem`, `QueuedNotNull`). The node that stays unused is the one the reader
may still be reading. Theorems: `QueueInvariant` (`[]IInv`), `TypeCorrect`,
`NoSlotRaceHolds`, `PopsRealItemHolds`, `WindowHoldsItemsHolds`, and `RingImplementsFifo`: `Spec` implements
`BoundedFifo`. Its lemmas say what the refinement mapping makes of the window: `AdvanceTail` appends the item, `ReadData`
takes the first, every other step leaves the sequence as it is.

`WorkExecutorProofs`, for any set of clients, number of work items and of mode switches. `IInv` has two halves.
`Control` is where clients, worker and `worker_state` can be at the same time: a mode switch is alone
(`PhasesOfSwitch`), the state says whether there is a worker (`StateOfWorker`), and what the worker knows of the queue at
each place of `run_worker` (`WorkerSeesWork`). `Tracked` follows the items from the client through the queue and the worker to `ran`:
the items of a client stay in order everywhere (`AllInOrder`), none is lost (`NothingLost`), and while a client
is in `synchronize` a flush is in the queue behind all of its items (`FlushBehind`). That is why waiting for an empty
queue, which says nothing of the item the worker has just popped, is enough. Theorems:
`ExecutorInvariant`, `TypeCorrect`, `RunsInOrderHolds`, `StoppedIsDrainedHolds`, `NeverPopsEmptyHolds`,
`SynchronizeDrainsHolds`, and `NoLostWakeUpHolds`, the safety half of the liveness property `WorkRuns`: a worker that
sleeps although there is work or a stop request has a client that has yet to notify it.

`FetchQueueProofs`, for any number of entries of the prefetch queue, any sizes with
`SizeAssumption` (the `TT_FATAL` of the host and the sizes the prefetcher is built with), both kernels
(`preamble` 0 and 1). `IInv` is `TypeOK /\ Cmddat /\ Queues`. `Cmddat` says where pointer, fence and
pending read are in the command buffer and that its tags continue each other. `Queues` says that there are `m` entries in the
prefetch queue from `rdPtr` on, and that a walk along them, with the command in the host's hand as last one, goes
through the issue queue from the prefetcher's pointer to the host's, finding each command's units in place: `V[i]` is
where command i may begin (addresses continue beyond the end after a wrap), `T[i]` its first tag. The safety of a host that never looks at
the prefetcher's read pointer is a matter of counting (lemma `Window`): the entries, the command
in the host's hand and the read in flight together take less than a round of the issue queue, including what is lost at
the wrap. The entry of the read in flight is still counted because the prefetcher publishes the entry it has
just read, not the next one: after the first read the host can fill only `Entries - 1` of them. Theorems:
`FetchInvariant`, `TypeCorrect`, `ProcessesInOrderHolds`, `IssueDataIntactHolds`, `ExecBufAloneHolds`.

`CompletionQueueProofs`, for any ring size, read length, transfer size and number of
entries. Lemmas show that `push_back` and `pop_front` move a (pointer, toggle) pair
by the number of pages, and that `available_space` and `pages_avail` are the
distances the stale words say. `RingInOrder` puts the five pointers
(`rdWord`, `rd`, `wrWord`, `landed`, `wr`) in order on the ring with at most `Pages` from first
to last; `RingContent` says which page each place holds. `XferPublished` (what the
reader is about to copy was published and ends before the ring does) and
`LoopsEnd` (the loops count down to zero) make them inductive. Theorems:
`CompletionInvariant`, `TypeCorrect`, `RingInOrderHolds`, `RingContentHolds`.
A second invariant, `EInv`, is about entries: those in the queue are linked, page after page, from the one
the reader is due to the last one the device was asked for (`IssuedLinked`), the counters
`num_entries_in_completion_q` and `num_completed_completion_q_reads` differ by the entries that are in the queue or in one of
the two hands (`CountInStep`, with the entry of a blocking read that is pushed but counted late), and later events have later pages. The
counters stay in step until the reader has returned, so its pop always finds a descriptor; what is said about pages holds
until it is told to exit, after which it may skip pages but copies nothing. Theorems: `EntryInvariant`,
`EventMeansReadHolds`, `PagesIntactHolds`, `FinishDrainsHolds`, `BlockingReadHasDataHolds`, and
`CloseAfterFinishHolds`: the assertions of the destructor hold for a client that closes after `Finish`
(hypothesis `CloseAfterFinish`; the run `completion_close` shows that it is needed).

`ProgramDispatchProofs`, for any number of core types, entries, slots, any sizes and traces. The invariants are paths
(`Path`, with its lemmas in `CommandPaths`): the commands that the dispatcher has yet to process, each taken as a step on some value,
lead from the device's value to the host's. For completions (`CountsInStep`) the value is what was completed and still runs,
and it must equal the count of every wait on the way; for launch slots (`SlotsInStep`) it is the vector of
read pointers; for configurations (`PiecesInStep`) the pieces in use. A trace is a path of its own from zero, spliced in when it is
replayed. Theorems: `DispatchInvariant`, `TypeCorrect`, `WaitsForAllHolds`, `LaunchesOnIdleHolds`,
`LaunchInSyncHolds` (without traces, or on one core type), `OneProgramHeld` (whatever `kernel_config_entry_count` is, the
ring counts the last program only, because `free` moves at most one entry and every program frees the one before), `ConfigIntactHolds` (without traces). The two hypotheses are
necessary: the runs `traces_two_core_types` and `traces_config` refute the properties without them.

`GoSignalsProofs`, for any finite set of workers, all sizes of the two buffers and the three arrangements. Two dispatchers
process one stream at different speeds, and three parties reset their counts at different times. The invariant numbers the go signals in
the order of the stream (`History`: `sum[k]` workers were given work before number k, whose count is counted from `base[k]`, and
`cfg[k]` configurations belong to those before it) and speaks of totals that are never reset: a count is a total less the base at which it was
last reset. `Underway` says, with the paths of `CommandPaths`, that the commands each dispatcher has yet to process lead from where it is to where
the host is. `Notified`: the go signals that `dispatch_d` has notified of and `dispatch_s` has not sent all count from the base
of `dispatch_d`, because it clears only when none is pending. `Configured`: their configurations have landed. `Counted`: what was given to the
workers is what was counted and what is unfinished. With two dispatchers that each clear there are
three cases: both count from the same base and the counts on their way grow towards the last one forwarded (`SameBase`), or `dispatch_s` has cleared
and `dispatch_d` is still to see the last count of the old epoch (`SlaveAhead`), or `dispatch_d` has cleared and no count is on its way
until `dispatch_s` has, too (`MasterAhead`); that is why a plain write never falls into the new epoch. Theorems: `GoInvariant`,
`TypeCorrect`, `GoSafeHolds`, `WaitMeansDoneHolds`. Neither the buffer sizes nor the bound `MaxExpected` are used.

`DispatchBufferProofs`, for any size of page (more than the header), block, ring, scratch half, inline and relayed command, transfer and
padding, any set of commands, with `SizeAssumption`. Addresses of the ring are reused, so the invariant speaks of
*positions* that go on from lap to lap (`Place` relates the two) and of a *plan* `W`, which has for each position the unit
that belongs there. A command enters it as a whole, with its padding to the end of the page, when its header is
written (`CommandAt`). `Channel` has the messages under way: there are positions `P` and page counts `R` such that each write brings what the plan has at
`P[k]`, lies in pages that no message before it announces, and every unit that was written is in the ring or in
such a message. `Prefetcher` says where in its command the prefetcher is and which half of the scratch buffer holds the next
units, `HalvesApart` that no message still reads the half that is read into. `Dispatcher` says that from its pointer on the plan has the rest of the
command it executes and behind it the beginning of another one. `Space` is the balance of the pages,
and with it (lemma `Geometry`) everything from the oldest unit that a NOC write may still read to the prefetcher's pointer is less than
a lap: no write under way has an address in what is held. `Unsent` keeps the block of the write that is not sent among the held ones: the
current block, or the one before as long as `block_noc_writes_to_clear` has not been reached. Division by the page size appears in the lemmas on `Units`,
`Aligned` and `RoundUp` only; `Incs`, a recursive function, is summed along `R` with the least-number principle (`Smallest`). Theorems:
`DispatchBufferInvariant`, `TypeCorrect`, `DataIntactHolds`, `PagesConservedHolds`. All have the hypothesis `Preamble = 0`,
the dispatcher that does not relay through a packetized path: with a preamble a transfer may span two blocks, which
`Unsent` excludes (section 9). That the ring has room for what is acquired at once (`SizeAssumption`) is not used; it is there for `RelayNeverStuck`.

Assumptions made for the provers only: `NoneAssumption` of `FetchQueue` and of `DispatchBuffer` and `TokenAssumption` of `ProgramDispatch` say
that a model value that stands for "nothing" is none of the values it is compared with; `GoAssumption` of `GoSignals` says that there are finitely many workers.

## 7. Only model-checked

- Liveness (`PushCompletes`, `WorkRuns`, `CallsReturn`, `AllProcessed`,
  `HostNeverStuck`, `ClientReturns`, `EventsComplete`, `RelayNeverStuck`, `BothTerminate`,
  `AllServed`): fairness and `ENABLED` are beyond the prover.
- `FreeList` (`ListsAgree`, `ImplementsAddressSpace`): what `search` and the insertion of a free block find is what one meets by following
  links (`Chain` and `First`, with `SelectSeq` underneath), so that a proof needs induction over data.
- `DispatchBuffer` with a preamble: neither proved nor in a run (section 9).

## 8. Findings

1. `completion_close`: a blocking read of an interleaved buffer calls `finish` inside
   `enqueue_command` (`command_queue.cpp:2000`), before its own entry is counted
   (`:2001`). The data is complete when it returns (`BlockingReadHasData`), but
   the event of that finish is not read, and a device closed right after can fail
   the assertion "There should be no reads in flight after closing our completion queue
   thread" (`:1854`).
2. `traces_config`: `enqueue_trace` (`:2357`) does not tell `WorkerConfigBufferMgr` where
   the replayed programs have their configuration; the next program can be given the same bytes
   without a sync and its configuration is then written while the traced program runs.
3. `traces_two_core_types`: `enqueue_trace` sets the host's launch pointers of both core types
   (`:2370-2371`), but the trace resets the read pointers only of the core types its
   programs run on (`:1697-1703`).

## 9. Not modelled

- *`CommandQueue` front end, packet queues*: see section 2. `CompletionQueue` and
  `ProgramDispatch` take commands from an atomic queue; that the way there keeps
  their order and contents is what `FetchQueue` and `DispatchBuffer` are about.
- *Relays with a header in front of every page*: `DispatchBuffer` has the constant `Preamble`, and the run
  has it 0. A dispatcher that relays through a packetized path (`Preamble` = 1) has transfers that are not
  page aligned, and at the end of a block it sets `block_noc_writes_to_clear` before it
  issues the transfer that spans the two blocks (`cq_dispatch.cpp:305`). If only commands
  without NOC writes follow in the next block, the block is given back while that transfer
  may not have been sent. Whether the packet queues downstream let that happen is open.
- *Packed writes without stride* (`CQ_DISPATCH_CMD_PACKED_WRITE_FLAG_NO_STRIDE`): all cores get the same data, so that the
  dispatcher's pointer stays where it is from one transfer to the next; the model has packed writes with one piece of data for each core.
- *The downstream credits of a relaying dispatcher* (`relay_to_next_cb` acquires pages of the next ring): what is
  downstream is taken to have room.
- *Paged writes with pages larger than a dispatch page* (`cq_dispatch.cpp:456`, `:484`): `XferSize` is the transfer
  size of packed and of paged writes, and the assertion at `:529` bounds that of packed ones by a page. A larger
  one moves through the ring like a linear write.
- *Lengths adjusted by a relay of large pages* (`cq_prefetch.cpp:537`): the model reads exact lengths.
- *`Device::deallocate_buffers` while Buffers live on*: memory is given up as a whole only when the device
  is closed (`clear` of `FreeList`). Called earlier, a Buffer that is destroyed later frees what was
  allocated at its address since.
- *What a refused allocation costs*: `FreeList::allocate` throws when the slice has been taken. `AddressSpace` has it the
  same way: the range stays taken until the device is closed. It also keeps the lowest address over `clear`, as
  `free_list.cpp:378-380` does. In these two places the abstract specification describes the code and does not judge it.
- *The steps within `dispatch_s`'s reset of the count* (`cq_dispatch_slave.cpp:209-214`): `SClear` is one step, which no worker can
  interleave with, since all have reported.
- *Several command queues and remote devices*: one command queue of a device attached by PCIe is modelled.
- *Number of workers*: in `ProgramDispatch` the workers of a core type act as one and report once; the
  code multiplies the count by the number of workers in the host and lets each add one.
- *Programs, kernels, circular buffers, buffers*: layout computations of mostly sequential code; the
  sizes they yield are inputs of `ProgramDispatch`.
- *Firmware*: only the reaction to go signals and resets.
- *JIT build, llrt, watcher, DPRINT, profiler*: file and device I/O; watcher hangs
  appear as the test-mode exit of `finish`.
- *ttnn, models, tests, tools, third-party code*: numeric kernels, bindings and
  drivers without a protocol of their own.
