------------------------------ MODULE GoSignals ------------------------------
(***************************************************************************)
(* How a program is started on the workers and how the dispatcher learns   *)
(* that it has completed (cq_dispatch_slave.cpp; process_wait,             *)
(* process_notify_dispatch_s_go_signal_cmd, process_go_signal_mcast_cmd    *)
(* and process_set_unicast_only_cores of cq_dispatch.cpp).                 *)
(*                                                                         *)
(* dispatch_d writes the configuration of a program, waits and notifies;   *)
(* dispatch_s sends the go signal once it was notified and the workers     *)
(* have completed what they were given before.  The two run                *)
(*   "same"         on one core: the workers report to one semaphore;      *)
(*   "distributed"  on two cores: the workers report to dispatch_s, which  *)
(*                  forwards the count to dispatch_d by plain writes;      *)
(*   "master"       there is no dispatch_s, dispatch_d sends go signals.   *)
(*                                                                         *)
(* Counts of completions grow until a trace resets them: the host starts   *)
(* at 0 again at once, the device when it comes to a wait that clears.     *)
(* Notifications are free-running counters whose difference matters.       *)
(***************************************************************************)
EXTENDS Naturals, Sequences, FiniteSets

CONSTANTS
    Modes,          \* the ways to run the dispatchers that are considered
    McastCores,     \* the workers that go signals are multicast to
    UnicastCores,   \* the workers that need a unicast
    PagesD,         \* commands dispatch_d's buffer holds
    PagesS,         \* commands dispatch_s's buffer holds
    MaxExpected,    \* bound: completions the host counts before it replays a trace
    None            \* dispatch_d clears nothing

Workers == McastCores \cup UnicastCores

ASSUME GoAssumption ==
    /\ Modes \subseteq {"same", "distributed", "master"}
    /\ McastCores \cap UnicastCores = {} /\ IsFiniteSet(Workers)
    /\ PagesD \in Nat \ {0} /\ PagesS \in Nat \ {0} /\ MaxExpected \in Nat

VARIABLES
    mode,
    expected,       \* expected_num_workers_completed
    stream,         \* commands the prefetcher has not relayed
    open,           \* the device has not been closed
    \* dispatch_d
    qd,             \* its commands, the first one is being processed
    countD,         \* completions at DISPATCH_MESSAGE_ADDR of its core
    clearing,       \* the value an atomic is on its way to subtract
    configs,        \* configurations it has written that have not landed
    ready,          \* configurations that have landed and whose program was not started
    \* dispatch_s
    qs,
    countS,         \* completions at DISPATCH_MESSAGE_ADDR of its core
    forwarded,      \* worker_count_update_for_dispatch_d
    notices,        \* notifications on their way to it
    notified,       \* notifications it has got less num_mcasts_sent
    taken,          \* it has taken a notification and waits for the workers
    updates,        \* counts on their way from dispatch_s to dispatch_d
    unicast_only_cores,
    \* workers
    worker,         \* what each of them does
    reports         \* completions that have not landed

hostVars == <<expected, stream, open>>
masterVars == <<qd, countD, clearing, configs>>
slaveVars == <<qs, countS, forwarded, notified, taken>>
workerVars == <<worker, reports>>
vars == <<mode, hostVars, masterVars, ready, slaveVars, notices, updates, unicast_only_cores, workerVars>>

\* The dispatcher that sends go signals.
Sender == IF mode = "master" THEN "d" ELSE "s"

Command == [to : {"d", "s"}, op : {"config", "barrier", "wait", "clear", "notify", "go", "reset", "unicast", "terminate"},
            count : Nat, on : SUBSET Workers]
Cmd(to, op, n, on) == [to |-> to, op |-> op, count |-> n, on |-> on]

TypeOK ==
    /\ mode \in Modes
    /\ expected \in Nat /\ open \in BOOLEAN
    /\ stream \in Seq(Command) /\ qd \in Seq(Command) /\ qs \in Seq(Command)
    /\ countD \in Nat /\ countS \in Nat /\ forwarded \in Nat
    /\ clearing = None \/ clearing \in Nat
    /\ configs \in Nat /\ ready \in Nat
    /\ notices \in Nat /\ notified \in Nat
    /\ taken \in BOOLEAN
    /\ updates \in Seq(Nat)
    /\ unicast_only_cores \subseteq UnicastCores
    /\ worker \in [Workers -> {"idle", "go", "reset", "run"}]
    /\ reports \in Nat

\* set_unicast_only_cores_on_dispatch is the first command a device gets.
Init ==
    /\ mode \in Modes
    /\ expected = 0 /\ open = TRUE
    /\ stream = <<Cmd(Sender, "unicast", 0, UnicastCores)>>
    /\ qd = <<>> /\ countD = 0 /\ clearing = None /\ configs = 0 /\ ready = 0
    /\ qs = <<>> /\ countS = 0 /\ forwarded = 0 /\ notices = 0 /\ notified = 0 /\ taken = FALSE
    /\ updates = <<>> /\ unicast_only_cores = {}
    /\ worker = [w \in Workers |-> "idle"] /\ reports = 0

-----------------------------------------------------------------------------
(* Host and prefetcher *)

Groups == {on \in SUBSET Workers : on # {} /\ on \cap McastCores \in {{}, McastCores}
                                          /\ on \cap UnicastCores \in {{}, UnicastCores}}

Notify == IF mode = "master" THEN <<>> ELSE <<Cmd("d", "notify", 0, {})>>

\* Mutant: there is no barrier between the configuration and the notification.
ProgramCmdsNoBarrier(on, n, stall_first) ==
    (IF stall_first THEN <<Cmd("d", "wait", n, {}), Cmd("d", "config", 0, {})>>
                    ELSE <<Cmd("d", "config", 0, {}), Cmd("d", "wait", n, {})>>)
    \o Notify \o <<Cmd(Sender, "go", n, on)>>

\* The commands of a program on the cores on, n completions being due before it: the configuration (one write for
\* all of it) may be written while the programs before it run.
ProgramCmds(on, n, stall_first) ==
    (IF stall_first THEN <<Cmd("d", "wait", n, {}), Cmd("d", "config", 0, {})>>
                    ELSE <<Cmd("d", "config", 0, {}), Cmd("d", "wait", n, {})>>)
    \o <<Cmd("d", "barrier", 0, {})>> \o Notify \o <<Cmd(Sender, "go", n, on)>>

\* The wait that clears the count, on both cores if there are two counts.
ClearCmds(n) ==
    (IF mode = "distributed" THEN <<Cmd("s", "clear", n, {})>> ELSE <<>>) \o <<Cmd("d", "clear", n, {})>>

EnqueueProgram(on, stall_first) ==
    /\ stream = <<>> /\ expected + Cardinality(on) <= MaxExpected
    /\ stream' = ProgramCmds(on, expected, stall_first)
    /\ expected' = expected + Cardinality(on)
    /\ UNCHANGED <<mode, open, masterVars, ready, slaveVars, notices, updates, unicast_only_cores, workerVars>>

\* EnqueueTraceCommand::process, for a trace with programs on the cores on; the programs follow.
EnqueueTrace(on) ==
    /\ stream = <<>>
    /\ stream' = Notify \o <<Cmd(Sender, "reset", expected, on)>> \o ClearCmds(expected + Cardinality(on))
    /\ expected' = 0
    /\ UNCHANGED <<mode, open, masterVars, ready, slaveVars, notices, updates, unicast_only_cores, workerVars>>

RecordBegin ==
    /\ stream = <<>>
    /\ stream' = ClearCmds(expected)
    /\ expected' = 0
    /\ UNCHANGED <<mode, open, masterVars, ready, slaveVars, notices, updates, unicast_only_cores, workerVars>>

\* EnqueueTerminateCommand::process; nothing follows.
EnqueueTerminate ==
    /\ stream = <<>>
    /\ stream' = <<Cmd("d", "terminate", 0, {})>> \o (IF mode = "master" THEN <<>> ELSE <<Cmd("s", "terminate", 0, {})>>)
    /\ open' = FALSE
    /\ UNCHANGED <<mode, expected, masterVars, ready, slaveVars, notices, updates, unicast_only_cores, workerVars>>

Host ==
    /\ open
    /\ \/ \E on \in Groups : (\E first \in BOOLEAN : EnqueueProgram(on, first)) \/ EnqueueTrace(on)
       \/ RecordBegin \/ EnqueueTerminate

\* The prefetcher relays in order and waits for a page of the buffer a command goes to.
Relay ==
    /\ stream # <<>>
    /\ stream' = Tail(stream)
    /\ IF Head(stream).to = "d"
       THEN Len(qd) < PagesD /\ qd' = Append(qd, Head(stream)) /\ qs' = qs
       ELSE Len(qs) < PagesS /\ qs' = Append(qs, Head(stream)) /\ qd' = qd
    /\ UNCHANGED <<mode, expected, open, countD, clearing, configs, ready, countS, forwarded, notified, taken,
                   notices, updates, unicast_only_cores, workerVars>>

-----------------------------------------------------------------------------
(* Go signals *)

\* The multicast reaches all its cores, the unicasts those the sender knows of.
SendTo(on) == (on \cap McastCores) \cup (IF on \cap UnicastCores # {} THEN unicast_only_cores ELSE {})

SendGo(c) ==
    /\ worker' = [w \in Workers |-> IF w \in SendTo(c.on) THEN c.op ELSE worker[w]]
    /\ ready' = IF c.op = "go" /\ ready > 0 THEN ready - 1 ELSE ready

-----------------------------------------------------------------------------
(* dispatch_d *)

DIs(ops) == qd # <<>> /\ Head(qd).op \in ops

DConfig ==
    /\ DIs({"config"})
    /\ configs' = configs + 1
    /\ qd' = Tail(qd)
    /\ UNCHANGED <<mode, hostVars, countD, clearing, ready, slaveVars, notices, updates, unicast_only_cores, workerVars>>

\* process_wait with a barrier: noc_async_write_barrier.
DBarrier ==
    /\ DIs({"barrier"}) /\ configs = 0
    /\ qd' = Tail(qd)
    /\ UNCHANGED <<mode, hostVars, countD, clearing, configs, ready, slaveVars, notices, updates, unicast_only_cores, workerVars>>

\* process_wait: the count has been reached.
DWait ==
    /\ DIs({"wait"}) /\ countD >= Head(qd).count
    /\ qd' = Tail(qd)
    /\ UNCHANGED <<mode, hostVars, countD, clearing, configs, ready, slaveVars, notices, updates, unicast_only_cores, workerVars>>

\* process_wait with clear_count: an atomic subtracts what was read ...
DClear ==
    /\ DIs({"clear"}) /\ clearing = None /\ countD >= Head(qd).count
    /\ clearing' = countD
    /\ UNCHANGED <<mode, hostVars, qd, countD, configs, ready, slaveVars, notices, updates, unicast_only_cores, workerVars>>

\* Mutant: the count is not cleared.
DClearedKeeps ==
    /\ clearing # None
    /\ clearing' = None
    /\ qd' = Tail(qd)
    /\ UNCHANGED <<mode, hostVars, countD, configs, ready, slaveVars, notices, updates, unicast_only_cores, workerVars>>

\* Mutant: one more than was read is subtracted.
DClearedMore ==
    /\ clearing # None
    /\ countD' = countD - clearing - 1
    /\ clearing' = None
    /\ qd' = Tail(qd)
    /\ UNCHANGED <<mode, hostVars, configs, ready, slaveVars, notices, updates, unicast_only_cores, workerVars>>

\* ... and noc_async_atomic_barrier waits until it has landed.
DCleared ==
    /\ clearing # None
    /\ countD' = countD - clearing
    /\ clearing' = None
    /\ qd' = Tail(qd)
    /\ UNCHANGED <<mode, hostVars, configs, ready, slaveVars, notices, updates, unicast_only_cores, workerVars>>

\* process_notify_dispatch_s_go_signal_cmd: a write to the other core, or an increment on this one.
DNotify ==
    /\ DIs({"notify"})
    /\ qd' = Tail(qd)
    /\ notices' = IF mode = "distributed" THEN notices + 1 ELSE notices
    /\ notified' = IF mode = "distributed" THEN notified ELSE notified + 1
    /\ UNCHANGED <<mode, hostVars, countD, clearing, configs, ready, qs, countS, forwarded, taken, updates,
                   unicast_only_cores, workerVars>>

\* process_go_signal_mcast_cmd of dispatch_d, without a dispatch_s.
DGo ==
    /\ DIs({"go", "reset"}) /\ countD >= Head(qd).count
    /\ SendGo(Head(qd))
    /\ qd' = Tail(qd)
    /\ UNCHANGED <<mode, hostVars, countD, clearing, configs, slaveVars, notices, updates, unicast_only_cores, reports>>

\* process_set_unicast_only_cores
DSetUnicast ==
    /\ DIs({"unicast"})
    /\ unicast_only_cores' = Head(qd).on
    /\ qd' = Tail(qd)
    /\ UNCHANGED <<mode, hostVars, countD, clearing, configs, ready, slaveVars, notices, updates, workerVars>>

DTerminate ==
    /\ DIs({"terminate"})
    /\ qd' = Tail(qd)
    /\ UNCHANGED <<mode, hostVars, countD, clearing, configs, ready, slaveVars, notices, updates, unicast_only_cores, workerVars>>

-----------------------------------------------------------------------------
(* dispatch_s *)

\* The semaphore the workers report to.
WorkerSem == IF mode = "distributed" THEN countS ELSE countD

SIs(ops) == qs # <<>> /\ Head(qs).op \in ops

\* update_worker_completion_count_on_dispatch_d: an inline write, if the count has changed.
update_worker_completion_count ==
    IF mode = "distributed" /\ countS # forwarded
    THEN forwarded' = countS /\ updates' = Append(updates, countS)
    ELSE UNCHANGED <<forwarded, updates>>

\* ... while dispatch_s waits for a page or for a notification.
SUpdate ==
    /\ mode = "distributed" /\ countS # forwarded
    /\ qs = <<>> \/ (SIs({"go", "reset"}) /\ ~taken /\ notified = 0)
    /\ update_worker_completion_count
    /\ UNCHANGED <<mode, hostVars, masterVars, ready, qs, countS, notified, taken, notices, unicast_only_cores, workerVars>>

\* process_go_signal_mcast_cmd: wait for the notification, num_mcasts_sent++.
SNotified ==
    /\ SIs({"go", "reset"}) /\ ~taken /\ notified > 0
    /\ notified' = notified - 1
    /\ taken' = TRUE
    /\ UNCHANGED <<mode, hostVars, masterVars, ready, qs, countS, forwarded, notices, updates, unicast_only_cores, workerVars>>

\* ... wait_for_workers, send, update dispatch_d, release the page.
SGo ==
    /\ taken /\ WorkerSem >= Head(qs).count
    /\ SendGo(Head(qs))
    /\ update_worker_completion_count
    /\ taken' = FALSE
    /\ qs' = Tail(qs)
    /\ UNCHANGED <<mode, hostVars, masterVars, countS, notified, notices, unicast_only_cores, reports>>

SSetUnicast ==
    /\ SIs({"unicast"})
    /\ unicast_only_cores' = Head(qs).on
    /\ qs' = Tail(qs)
    /\ UNCHANGED <<mode, hostVars, masterVars, ready, countS, forwarded, notified, taken, notices, updates, workerVars>>

\* Mutant: the copy of what dispatch_d knows is not reset.
SClearKeepsForwarded ==
    /\ SIs({"clear"}) /\ countS >= Head(qs).count
    /\ update_worker_completion_count
    /\ countS' = 0
    /\ qs' = Tail(qs)
    /\ UNCHANGED <<mode, hostVars, masterVars, ready, notified, taken, notices, unicast_only_cores, workerVars>>

\* process_dispatch_s_wait_cmd: "Send updated worker count to dispatch_d", then clear the count and the copy of
\* what dispatch_d knows.  dispatch_d clears its own count.
SClear ==
    /\ SIs({"clear"}) /\ countS >= Head(qs).count
    /\ updates' = IF countS # forwarded THEN Append(updates, countS) ELSE updates
    /\ countS' = 0 /\ forwarded' = 0
    /\ qs' = Tail(qs)
    /\ UNCHANGED <<mode, hostVars, masterVars, ready, notified, taken, notices, unicast_only_cores, workerVars>>

STerminate ==
    /\ SIs({"terminate"})
    /\ qs' = Tail(qs)
    /\ UNCHANGED <<mode, hostVars, masterVars, ready, countS, forwarded, notified, taken, notices, updates, unicast_only_cores, workerVars>>

-----------------------------------------------------------------------------
(* The NOC and the workers *)

ConfigLands ==
    /\ configs > 0
    /\ configs' = configs - 1 /\ ready' = ready + 1
    /\ UNCHANGED <<mode, hostVars, qd, countD, clearing, slaveVars, notices, updates, unicast_only_cores, workerVars>>

NoticeLands ==
    /\ notices > 0
    /\ notices' = notices - 1 /\ notified' = notified + 1
    /\ UNCHANGED <<mode, hostVars, masterVars, ready, qs, countS, forwarded, taken, updates, unicast_only_cores, workerVars>>

\* A plain write: it replaces what is there.
UpdateLands ==
    /\ updates # <<>>
    /\ countD' = Head(updates)
    /\ updates' = Tail(updates)
    /\ UNCHANGED <<mode, hostVars, qd, clearing, configs, ready, slaveVars, notices, unicast_only_cores, workerVars>>

\* The loop of brisc.cc: the go signal is seen; a reset of the read pointer is done at once.
WorkerSees(w) ==
    /\ worker[w] \in {"go", "reset"}
    /\ worker' = [worker EXCEPT ![w] = IF worker[w] = "go" THEN "run" ELSE "idle"]
    /\ reports' = IF worker[w] = "go" THEN reports ELSE reports + 1
    /\ UNCHANGED <<mode, hostVars, masterVars, ready, slaveVars, notices, updates, unicast_only_cores>>

WorkerDone(w) ==
    /\ worker[w] = "run"
    /\ worker' = [worker EXCEPT ![w] = "idle"]
    /\ reports' = reports + 1
    /\ UNCHANGED <<mode, hostVars, masterVars, ready, slaveVars, notices, updates, unicast_only_cores>>

ReportLands ==
    /\ reports > 0
    /\ reports' = reports - 1
    /\ countS' = IF mode = "distributed" THEN countS + 1 ELSE countS
    /\ countD' = IF mode = "distributed" THEN countD ELSE countD + 1
    /\ UNCHANGED <<mode, hostVars, qd, clearing, configs, ready, qs, forwarded, notified, taken, notices, updates,
                   unicast_only_cores, worker>>

-----------------------------------------------------------------------------
Master == DConfig \/ DBarrier \/ DWait \/ DClear \/ DCleared \/ DNotify \/ DGo \/ DSetUnicast \/ DTerminate
Slave == SUpdate \/ SNotified \/ SGo \/ SSetUnicast \/ SClear \/ STerminate
WorkerStep == \E w \in Workers : WorkerSees(w) \/ WorkerDone(w)

\* Both dispatchers have terminated and everything has landed.
Done ==
    /\ ~open /\ stream = <<>> /\ qd = <<>> /\ qs = <<>>
    /\ UNCHANGED vars

Next == Host \/ Relay \/ Master \/ Slave \/ ConfigLands \/ NoticeLands \/ UpdateLands \/ ReportLands \/ WorkerStep \/ Done

Spec == Init /\ [][Next]_vars

\* The kernels run on cores of their own, workers finish, and what is on the NOC lands.
Fairness ==
    /\ WF_vars(Relay) /\ WF_vars(Master) /\ WF_vars(Slave)
    /\ WF_vars(ConfigLands) /\ WF_vars(NoticeLands) /\ WF_vars(UpdateLands) /\ WF_vars(ReportLands)
    /\ \A w \in Workers : WF_vars(WorkerSees(w) \/ WorkerDone(w))

FairSpec == Spec /\ Fairness

-----------------------------------------------------------------------------
(* Properties *)

\* "Wait until workers have completed before sending go signal": no go signal or reset reaches a worker that still
\* has another one, and a program is started only when its configuration has landed in the workers.  The senders
\* look only at a count and at notifications.
GoSafe ==
    [][\A w \in Workers : worker'[w] \in {"go", "reset"} /\ worker'[w] # worker[w] =>
         /\ \A v \in Workers : worker[v] = "idle"
         /\ worker'[w] = "go" => ready > 0]_vars

\* What was started or is about to be: a go signal that dispatch_s was or will be told to send, or workers that run.
Outstanding ==
    \/ notices > 0 \/ notified > 0 \/ taken
    \/ \E w \in Workers : worker[w] # "idle"

\* When dispatch_d's wait ends, every program it let go before has completed on all its workers, through every
\* reset of the counts and however late counts are forwarded: what follows may overwrite its data or tell the host
\* that it is done.
WaitMeansDone == [][(DWait \/ DClear) => ~Outstanding]_vars

\* No command waits forever: not for a count that was cleared or never forwarded, not for a notification, and
\* not for a page of a buffer that a waiting dispatcher holds.
AllServed ==
    /\ []<>(stream = <<>>) \/ []<><<Relay>>_vars
    /\ []<>(qd = <<>>) \/ []<><<DWait \/ DCleared \/ DNotify \/ DGo>>_vars
    /\ []<>(qs = <<>>) \/ []<><<SGo \/ SClear>>_vars
=============================================================================
