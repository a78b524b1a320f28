--------------------------- MODULE ProgramDispatch ---------------------------
(***************************************************************************)
(* How programs are launched.  For every program the host (enqueue_program *)
(* and EnqueueProgramCommand::process in command_queue.cpp) takes a piece  *)
(* of the kernel configuration ring of each core type it runs on and a     *)
(* slot of the workers' launch message ring, and sends the dispatcher      *)
(* three things in an order that depends on the ring: the configuration, a *)
(* wait for all earlier programs, and the launch.  When the ring has room, *)
(* the configuration is written while the program before still runs.       *)
(*                                                                         *)
(* The same commands can be recorded into a trace and replayed; a trace    *)
(* starts with a reset of the workers' launch message read pointers.       *)
(*                                                                         *)
(* Core type 1 stands for the Tensix cores (multicast), 2 for the ethernet *)
(* cores (unicast).  The workers of a core type act as one and report      *)
(* completion once.                                                        *)
(***************************************************************************)
EXTENDS WorkerConfigBuffer

CONSTANTS
    LaunchEntries,  \* launch_msg_buffer_num_entries
    MaxSize,        \* bound: bytes of configuration of a program on a core type
    MaxExpected,    \* bound: completions the host counts
    MaxQueue,       \* bound: commands the dispatcher has not processed
    MaxTrace,       \* bound: programs of a trace
    Traces,         \* the host records and replays traces
    NoTrace,        \* no trace exists
    Idle,           \* a worker that runs nothing
    Reset           \* a worker that was told to reset its read pointer

ASSUME DispatchAssumption ==
    /\ LaunchEntries \in Nat \ {0}
    /\ MaxSize \in Nat /\ \A i \in CoreTypes : MaxSize <= RingSize[i]
    /\ MaxExpected \in Nat /\ MaxQueue \in Nat /\ MaxTrace \in Nat
    /\ Traces \in BOOLEAN

VARIABLES
    \* host
    rings,      \* config_buffer_mgr
    expected,   \* expected_num_workers_completed
    wptr,       \* worker_launch_message_buffer_state
    recording,  \* bypass mode
    savedWptr,  \* multicast_ and unicast_cores_launch_message_wptr_reset
    trace,      \* the trace that is recorded or was recorded
    finalized,  \* the programs that were enqueued before (kept only if there are traces)
    \* device
    devQ,       \* the commands the dispatcher has not processed
    count,      \* completions at DISPATCH_MESSAGE_ADDR
    loaded,     \* the configuration written last, until its program is launched
    running,    \* what the workers of each core type run
    rdptr       \* launch_msg_rd_ptr of the workers

hostVars == <<rings, expected, wptr, recording, savedWptr, trace, finalized>>
deviceVars == <<devQ, count, loaded, running, rdptr>>
vars == <<hostVars, deviceVars>>

Slots == 0 .. LaunchEntries - 1
Piece == [addr : Nat, size : Nat]
\* A program as it is launched: its pieces of the rings and its slots.
Launch == [at : [CoreTypes -> Piece], slot : [CoreTypes -> Slots]]
NoLaunch == [at |-> [i \in CoreTypes |-> [addr |-> 0, size |-> 0]], slot |-> [i \in CoreTypes |-> 0]]

RunsOn(p) == {i \in CoreTypes : p.at[i].size # 0}

Command == [op : {"config", "launch", "reset", "wait"}, prog : Launch, on : SUBSET CoreTypes,
            count : Nat, clear : BOOLEAN]
\* TraceDescriptor: uses[i] programs need a go signal on core type i, total completions are due.
Trace == [cmds : Seq(Command), uses : [CoreTypes -> Nat], total : Nat, programs : Nat]
EmptyTrace == [cmds |-> <<>>, uses |-> [i \in CoreTypes |-> 0], total |-> 0, programs |-> 0]

\* The tokens are none of the things they stand beside.
ASSUME TokenAssumption ==
    Idle # Reset /\ Idle \notin Launch /\ Reset \notin Launch /\ NoTrace \notin Trace

\* The programs: sizes of the configuration on the core types, 0 where a program has no kernels.
Programs == {sizes \in [CoreTypes -> 0 .. MaxSize] : \E i \in CoreTypes : sizes[i] # 0}

TypeOK ==
    /\ rings \in [CoreTypes -> Ring]
    /\ expected \in Nat /\ count \in Nat
    /\ wptr \in [CoreTypes -> Slots] /\ savedWptr \in [CoreTypes -> Slots] /\ rdptr \in [CoreTypes -> Slots]
    /\ recording \in BOOLEAN
    /\ trace = NoTrace \/ trace \in Trace
    /\ recording => trace # NoTrace
    /\ finalized \subseteq Programs
    /\ devQ \in Seq(Command)
    /\ loaded \in Launch
    /\ running \in [CoreTypes -> {Idle, Reset} \cup Launch]

Init ==
    /\ rings = [i \in CoreTypes |-> EmptyRing]
    /\ expected = 0 /\ count = 0
    /\ wptr = [i \in CoreTypes |-> 0] /\ savedWptr = [i \in CoreTypes |-> 0] /\ rdptr = [i \in CoreTypes |-> 0]
    /\ recording = FALSE /\ trace = NoTrace /\ finalized = {}
    /\ devQ = <<>>
    /\ loaded = NoLaunch
    /\ running = [i \in CoreTypes |-> Idle]

-----------------------------------------------------------------------------
(* Host *)

ConfigCmd(p) == [op |-> "config", prog |-> p, on |-> {}, count |-> 0, clear |-> FALSE]
LaunchCmd(p, n) == [op |-> "launch", prog |-> p, on |-> RunsOn(p), count |-> n, clear |-> FALSE]
ResetCmd(on, n) == [op |-> "reset", prog |-> NoLaunch, on |-> on, count |-> n, clear |-> FALSE]
WaitCmd(n, clear) == [op |-> "wait", prog |-> NoLaunch, on |-> {}, count |-> n, clear |-> clear]

\* Mutant: the stall is never moved before the configuration.
write_programStallLast(p, n, stall_first) == <<ConfigCmd(p), WaitCmd(n, FALSE), LaunchCmd(p, n)>>

\* write_program_command_sequence: the stall comes before the configuration, or only before the rest.
write_program(p, n, stall_first) ==
    IF stall_first
    THEN <<WaitCmd(n, FALSE), ConfigCmd(p), LaunchCmd(p, n)>>
    ELSE <<ConfigCmd(p), WaitCmd(n, FALSE), LaunchCmd(p, n)>>

On(sizes) == {i \in CoreTypes : sizes[i] # 0}

\* Mutant: the write pointer does not wrap.
SlotUnwrapped(n) == n

\* The launch message ring wraps.
Slot(n) == n % LaunchEntries

\* EnqueueProgramCommand::process: the commands of a program when the programs before it complete n times. Whether
\* the stall comes first is what reserve says.
ProgramCmds(sizes, n) ==
    LET res == reserve(rings, sizes)
    IN write_program([at |-> res.at, slot |-> wptr], n, res.need_sync)

\* The same for the configuration rings: reserve, free and alloc in lockstep.
ProgramRings(sizes, n) ==
    LET res == reserve(rings, sizes)
    IN alloc(free(rings, res.sync), res.at, n + Cardinality(On(sizes)))

\* inc_mcast_wptr and inc_unicast_wptr.
ProgramWptr(sizes) == [i \in CoreTypes |-> IF i \in On(sizes) THEN Slot(wptr[i] + 1) ELSE wptr[i]]

\* enqueue_program, with process.
enqueue_program ==
    /\ ~recording
    /\ Len(devQ) + 3 <= MaxQueue
    /\ \E sizes \in Programs :
        /\ expected + Cardinality(On(sizes)) <= MaxExpected
        /\ rings' = ProgramRings(sizes, expected)
        /\ devQ' = devQ \o ProgramCmds(sizes, expected)
        /\ wptr' = ProgramWptr(sizes)
        /\ expected' = expected + Cardinality(On(sizes))
        /\ finalized' = IF Traces THEN finalized \cup {sizes} ELSE {}
    /\ UNCHANGED <<recording, savedWptr, trace, count, loaded, running, rdptr>>

\* enqueue_program in bypass mode: the commands go into the trace, and its own counter is used. "Tracing should only
\* be used when programs have been cached".
trace_program ==
    /\ recording /\ trace.programs < MaxTrace
    /\ \E sizes \in finalized :
        /\ rings' = ProgramRings(sizes, trace.total)
        /\ wptr' = ProgramWptr(sizes)
        /\ trace' = [cmds     |-> trace.cmds \o ProgramCmds(sizes, trace.total),
                     uses     |-> [i \in CoreTypes |-> trace.uses[i] + (IF i \in On(sizes) THEN 1 ELSE 0)],
                     total    |-> trace.total + Cardinality(On(sizes)),
                     programs |-> trace.programs + 1]
    /\ UNCHANGED <<finalized, expected, recording, savedWptr, deviceVars>>

\* record_begin: the dispatcher is to wait for everything and start counting at zero.
record_begin ==
    /\ Traces /\ ~recording /\ trace = NoTrace
    /\ Len(devQ) + 1 <= MaxQueue
    /\ devQ' = Append(devQ, WaitCmd(expected, TRUE))
    /\ expected' = 0
    /\ savedWptr' = wptr
    /\ wptr' = [i \in CoreTypes |-> 0]
    /\ recording' = TRUE
    /\ trace' = EmptyTrace
    /\ UNCHANGED <<finalized, rings, count, loaded, running, rdptr>>

\* Mutant: the write pointers keep the values they have at the end of the capture.
record_endKeepsWptr ==
    /\ recording /\ trace.programs > 0
    /\ recording' = FALSE
    /\ UNCHANGED <<finalized, rings, expected, wptr, savedWptr, trace, deviceVars>>

\* record_end: the device ran nothing of what was captured, so the write pointers are those of record_begin again.
record_end ==
    /\ recording /\ trace.programs > 0
    /\ wptr' = savedWptr
    /\ recording' = FALSE
    /\ UNCHANGED <<finalized, rings, expected, savedWptr, trace, deviceVars>>

\* The core types a trace resets: go_signal_mcast_flag.
TraceOn == {i \in CoreTypes : trace.uses[i] # 0}

\* Mutant: the host's counter is not cleared with the dispatcher's.
enqueue_traceKeepsCount ==
    /\ ~recording /\ trace # NoTrace
    /\ Len(devQ) + 2 + Len(trace.cmds) <= MaxQueue
    /\ devQ' = devQ \o <<ResetCmd(TraceOn, expected), WaitCmd(expected + Cardinality(TraceOn), TRUE)>> \o trace.cmds
    /\ expected' = expected + Cardinality(TraceOn) + trace.total
    /\ wptr' = [i \in CoreTypes |-> Slot(trace.uses[i])]
    /\ UNCHANGED <<finalized, rings, recording, savedWptr, trace, count, loaded, running, rdptr>>

\* enqueue_trace and EnqueueTraceCommand::process: the prefetcher expands the trace in place (exec_buf).
enqueue_trace ==
    /\ ~recording /\ trace # NoTrace
    /\ Len(devQ) + 2 + Len(trace.cmds) <= MaxQueue
    /\ devQ' = devQ \o <<ResetCmd(TraceOn, expected), WaitCmd(expected + Cardinality(TraceOn), TRUE)>> \o trace.cmds
    /\ expected' = trace.total
    /\ wptr' = [i \in CoreTypes |-> Slot(trace.uses[i])]
    /\ UNCHANGED <<finalized, rings, recording, savedWptr, trace, count, loaded, running, rdptr>>

\* Device::release_trace
release_trace ==
    /\ ~recording /\ trace # NoTrace
    /\ trace' = NoTrace
    /\ UNCHANGED <<finalized, rings, expected, wptr, recording, savedWptr, deviceVars>>

-----------------------------------------------------------------------------
(* The dispatcher *)

NextIs(op) == devQ # <<>> /\ Head(devQ).op = op

\* The configuration is written to the rings of the workers.
DispatchConfig ==
    /\ NextIs("config")
    /\ loaded' = Head(devQ).prog
    /\ devQ' = Tail(devQ)
    /\ UNCHANGED <<hostVars, count, running, rdptr>>

\* process_wait: until the workers have completed so often; then the count may be cleared.
DispatchWait ==
    /\ NextIs("wait") /\ count >= Head(devQ).count
    /\ count' = IF Head(devQ).clear THEN 0 ELSE count
    /\ devQ' = Tail(devQ)
    /\ UNCHANGED <<hostVars, loaded, running, rdptr>>

\* The launch message and process_go_signal_mcast_cmd, which waits once more.
DispatchLaunch ==
    /\ NextIs("launch") /\ count >= Head(devQ).count
    /\ running' = [i \in CoreTypes |-> IF i \in Head(devQ).on THEN Head(devQ).prog ELSE running[i]]
    /\ loaded' = NoLaunch
    /\ devQ' = Tail(devQ)
    /\ UNCHANGED <<hostVars, count, rdptr>>

\* The go signal RUN_MSG_RESET_READ_PTR.
DispatchReset ==
    /\ NextIs("reset") /\ count >= Head(devQ).count
    /\ running' = [i \in CoreTypes |-> IF i \in Head(devQ).on THEN Reset ELSE running[i]]
    /\ devQ' = Tail(devQ)
    /\ UNCHANGED <<hostVars, count, loaded, rdptr>>

-----------------------------------------------------------------------------
(* The workers: the loop of the firmware in brisc.cc and erisc.cc *)

WorkerDone(i) ==
    /\ running[i] \notin {Idle, Reset}
    /\ running' = [running EXCEPT ![i] = Idle]
    /\ rdptr' = [rdptr EXCEPT ![i] = Slot(rdptr[i] + 1)]
    /\ count' = count + 1
    /\ UNCHANGED <<hostVars, devQ, loaded>>

WorkerReset(i) ==
    /\ running[i] = Reset
    /\ running' = [running EXCEPT ![i] = Idle]
    /\ rdptr' = [rdptr EXCEPT ![i] = 0]
    /\ count' = count + 1
    /\ UNCHANGED <<hostVars, devQ, loaded>>

-----------------------------------------------------------------------------
HostStep == enqueue_program \/ trace_program \/ record_begin \/ record_end \/ enqueue_trace \/ release_trace
DeviceStep == DispatchConfig \/ DispatchWait \/ DispatchLaunch \/ DispatchReset

Next == HostStep \/ DeviceStep \/ \E i \in CoreTypes : WorkerDone(i) \/ WorkerReset(i)

Spec == Init /\ [][Next]_vars

-----------------------------------------------------------------------------
(* Properties *)

Disjoint(p, q) == p.size = 0 \/ q.size = 0 \/ p.addr + p.size <= q.addr \/ q.addr + q.size <= p.addr

\* The configuration of a program is not overwritten while its workers run: reserve's "First part of returned pair
\* is true if reserving size bytes requires a sync on some core type", and without a sync the configuration is
\* written at once.
ConfigIntact ==
    \A i \in CoreTypes : running[i] \notin {Idle, Reset} => Disjoint(loaded.at[i], running[i].at[i])

\* The workers find the launch message of the program they are to run at their read pointer: "Update the wptr on
\* host to match state".
LaunchInSync ==
    \A i \in CoreTypes : running[i] \notin {Idle, Reset} => running[i].slot[i] = rdptr[i]

\* Every count the dispatcher waits for is exactly what was completed and what still runs. A smaller one would launch
\* a program or a reset on workers that are busy ("Wait to ensure that all kernels have completed"), a larger one
\* would never be reached; the host computes it from its own counter, across the resets that traces make.
WaitsForAll ==
    devQ # <<>> /\ Head(devQ).op # "config"
    => Head(devQ).count = count + Cardinality({i \in CoreTypes : running[i] # Idle})

=============================================================================
