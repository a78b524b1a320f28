---------------------------- MODULE WorkExecutor ----------------------------
(***************************************************************************)
(* WorkExecutor (tt_metal/impl/dispatch/work_executor.hpp): in             *)
(* asynchronous mode a worker thread runs the work that client threads     *)
(* push; in synchronous mode a client runs its work itself.  The worker    *)
(* sleeps on a condition variable; clients push to the queue outside of    *)
(* cv_mutex and notify inside of it.                                       *)
(*                                                                         *)
(* The worker queue is an atomic FIFO, which LockFreeQueue implements.     *)
(* Work items are numbered in the order of the calls that submit them; an  *)
(* item of Nesting makes a blocking push_work call of its own (its child)  *)
(* when it runs.  As in the code's uses, the mode is switched while no     *)
(* other client is inside a call.                                          *)
(***************************************************************************)
EXTENDS Naturals, Sequences, FiniteSets

CONSTANTS
    Clients,    \* threads that push work
    MaxWork,    \* bound: how many items are submitted
    MaxSwitch,  \* bound: how many times the mode is switched
    Nesting,    \* the items that push nested work
    NoClient    \* cv_mutex is free, or no item

ASSUME WorkAssumption ==
    /\ MaxWork \in Nat
    /\ MaxSwitch \in Nat
    /\ Nesting \subseteq 1 .. MaxWork
    /\ NoClient \notin Clients

VARIABLES
    queue,      \* worker_queue
    mode,       \* work_executor_mode
    state,      \* worker_state
    threadId,   \* worker_queue.worker_thread_id is that of the running worker
    mutex,      \* the worker holds cv_mutex between the wait's test and its sleep
    cpc,        \* where each client is
    cur,        \* the item each client is pushing
    block,      \* the push of each client is blocking
    wpc,        \* where the worker thread is
    func,       \* the item the worker popped
    submitted,  \* items submitted so far
    owner,      \* the client that submitted each item
    ran,        \* the items that ran, in the order they finished
    switches    \* mode switches so far

vars == <<queue, mode, state, threadId, mutex, cpc, cur, block, wpc, func,
          submitted, owner, ran, switches>>

clientVars == <<cpc, cur, block, submitted, owner, switches>>

Flush == 0
Child(i) == MaxWork + i
Items == 0 .. 2 * MaxWork

ClientPC == {"idle", "check", "push", "notify", "sync", "flushNotify", "waitEmpty",
             "start", "spawn", "storeId", "stop", "stopNotify", "join"}
WorkerPC == {"none", "wait", "toSleep", "asleep", "awake", "test", "pop", "run", "finish",
             "selfWait", "null"}

TypeOK ==
    /\ queue \in Seq(Items)
    /\ mode \in {"SYNCHRONOUS", "ASYNCHRONOUS"}
    /\ state \in {"RUNNING", "TERMINATE", "IDLE"}
    /\ threadId \in BOOLEAN
    /\ mutex \in BOOLEAN
    /\ cpc \in [Clients -> ClientPC]
    /\ cur \in [Clients -> Items]
    /\ block \in [Clients -> BOOLEAN]
    /\ wpc \in WorkerPC
    /\ func \in Items
    /\ submitted \in 0 .. MaxWork
    /\ owner \in [1 .. MaxWork -> Clients \cup {NoClient}]
    /\ ran \in Seq(Items)
    /\ switches \in 0 .. MaxSwitch

\* Faulty: initialize() leaves worker_state unset.
InitUnset ==
    /\ queue = <<>>
    /\ mode = "SYNCHRONOUS"
    /\ state = "UNSET"
    /\ threadId = FALSE
    /\ mutex = FALSE
    /\ cpc = [c \in Clients |-> "idle"]
    /\ cur = [c \in Clients |-> Flush]
    /\ block = [c \in Clients |-> FALSE]
    /\ wpc = "none"
    /\ func = Flush
    /\ submitted = 0
    /\ owner = [i \in 1 .. MaxWork |-> NoClient]
    /\ ran = <<>>
    /\ switches = 0

\* initialize() with the default, synchronous, mode.
Init ==
    /\ queue = <<>>
    /\ mode = "SYNCHRONOUS"
    /\ state = "IDLE"
    /\ threadId = FALSE
    /\ mutex = FALSE
    /\ cpc = [c \in Clients |-> "idle"]
    /\ cur = [c \in Clients |-> Flush]
    /\ block = [c \in Clients |-> FALSE]
    /\ wpc = "none"
    /\ func = Flush
    /\ submitted = 0
    /\ owner = [i \in 1 .. MaxWork |-> NoClient]
    /\ ran = <<>>
    /\ switches = 0

Goto(c, l) == cpc' = [cpc EXCEPT ![c] = l]

\* The clients that are inside set_worker_mode.
Switching(c) == cpc[c] \in {"start", "spawn", "storeId", "stop", "stopNotify", "join"}

-----------------------------------------------------------------------------
(* push_work(work_executor, blocking) *)

CallPushWork(c, b) ==
    /\ cpc[c] = "idle"
    /\ submitted < MaxWork
    /\ \A d \in Clients : ~Switching(d)
    /\ submitted' = submitted + 1
    /\ owner' = [owner EXCEPT ![submitted + 1] = c]
    /\ cur' = [cur EXCEPT ![c] = submitted + 1]
    /\ block' = [block EXCEPT ![c] = b]
    /\ Goto(c, "check")
    /\ UNCHANGED <<queue, mode, state, threadId, mutex, wpc, func, ran, switches>>

\* What running item i in the calling thread appends to ran: nested work runs inside it.
RunInline(i) == IF i \in Nesting THEN <<Child(i), i>> ELSE <<i>>

\* Worker not running: the work is executed in the current thread.
PushRunsInline(c) ==
    /\ cpc[c] = "check"
    /\ state # "RUNNING"
    /\ ran' = ran \o RunInline(cur[c])
    /\ Goto(c, "idle")
    /\ UNCHANGED <<queue, mode, state, threadId, mutex, cur, block, wpc, func, submitted,
                   owner, switches>>

PushSeesRunning(c) ==
    /\ cpc[c] = "check"
    /\ state = "RUNNING"
    /\ Goto(c, "push")
    /\ UNCHANGED <<queue, mode, state, threadId, mutex, cur, block, wpc, func, submitted,
                   owner, ran, switches>>

PushToQueue(c) ==
    /\ cpc[c] = "push"
    /\ queue' = Append(queue, cur[c])
    /\ Goto(c, "notify")
    /\ UNCHANGED <<mode, state, threadId, mutex, cur, block, wpc, func, submitted, owner,
                   ran, switches>>

\* Faulty: notifies without taking cv_mutex.
WakeUnlocked == wpc' = IF wpc = "asleep" THEN "awake" ELSE wpc

\* { std::lock_guard lock(cv_mutex); cv.notify_one(); }: only a worker that already sleeps
\* is woken, and the mutex is not free while the worker is about to sleep.
Wake ==
    /\ ~mutex
    /\ wpc' = IF wpc = "asleep" THEN "awake" ELSE wpc

NotifyPush(c) ==
    /\ cpc[c] = "notify"
    /\ Wake
    /\ Goto(c, IF block[c] THEN "sync" ELSE "idle")
    /\ UNCHANGED <<queue, mode, state, threadId, mutex, cur, block, func, submitted, owner,
                   ran, switches>>

-----------------------------------------------------------------------------
(* synchronize() *)

CallSynchronize(c) ==
    /\ cpc[c] = "idle"
    /\ \A d \in Clients : ~Switching(d)
    /\ mode = "ASYNCHRONOUS"
    /\ block' = [block EXCEPT ![c] = FALSE]
    /\ Goto(c, "sync")
    /\ UNCHANGED <<queue, mode, state, threadId, mutex, cur, wpc, func, submitted, owner,
                   ran, switches>>

\* Faulty: no flush command, the loop alone waits for the queue to be empty.
SyncPushFlushNone(c) ==
    /\ cpc[c] = "sync"
    /\ mode = "ASYNCHRONOUS"
    /\ Goto(c, "waitEmpty")
    /\ UNCHANGED <<queue, mode, state, threadId, mutex, cur, block, wpc, func, submitted,
                   owner, ran, switches>>

\* Send flush command (i.e. empty function).
SyncPushFlush(c) ==
    /\ cpc[c] = "sync"
    /\ mode = "ASYNCHRONOUS"
    /\ queue' = Append(queue, Flush)
    /\ Goto(c, "flushNotify")
    /\ UNCHANGED <<mode, state, threadId, mutex, cur, block, wpc, func, submitted, owner,
                   ran, switches>>

SyncNotify(c) ==
    /\ cpc[c] = "flushNotify"
    /\ Wake
    /\ Goto(c, "waitEmpty")
    /\ UNCHANGED <<queue, mode, state, threadId, mutex, cur, block, func, submitted, owner,
                   ran, switches>>

\* Wait for queue empty, i.e. flush command picked up.
SyncReturn(c) ==
    /\ cpc[c] = "waitEmpty"
    /\ queue = <<>>
    /\ Goto(c, "idle")
    /\ UNCHANGED <<queue, mode, state, threadId, mutex, cur, block, wpc, func, submitted,
                   owner, ran, switches>>

-----------------------------------------------------------------------------
(* set_worker_mode(mode) *)

OthersIdle(c) == \A d \in Clients \ {c} : cpc[d] = "idle"

SetWorkerModeAsync(c) ==
    /\ cpc[c] = "idle" /\ OthersIdle(c)
    /\ switches < MaxSwitch
    /\ mode = "SYNCHRONOUS"
    /\ mode' = "ASYNCHRONOUS"
    /\ switches' = switches + 1
    /\ Goto(c, "start")
    /\ UNCHANGED <<queue, state, threadId, mutex, cur, block, wpc, func, submitted, owner, ran>>

StartRunning(c) ==
    /\ cpc[c] = "start"
    /\ state' = "RUNNING"
    /\ Goto(c, "spawn")
    /\ UNCHANGED <<queue, mode, threadId, mutex, cur, block, wpc, func, submitted, owner,
                   ran, switches>>

\* worker_thread_id is still that of the previous worker.
StartSpawn(c) ==
    /\ cpc[c] = "spawn"
    /\ wpc' = "wait"
    /\ threadId' = FALSE
    /\ Goto(c, "storeId")
    /\ UNCHANGED <<queue, mode, state, mutex, cur, block, func, submitted, owner, ran, switches>>

\* Faulty: the id of the new worker is not stored.
StartStoreIdNone(c) ==
    /\ cpc[c] = "storeId"
    /\ Goto(c, "idle")
    /\ UNCHANGED <<queue, mode, state, threadId, mutex, cur, block, wpc, func, submitted,
                   owner, ran, switches>>

StartStoreId(c) ==
    /\ cpc[c] = "storeId"
    /\ threadId' = TRUE
    /\ Goto(c, "idle")
    /\ UNCHANGED <<queue, mode, state, mutex, cur, block, wpc, func, submitted, owner, ran,
                   switches>>

\* The new mode is stored first, so that the synchronize() that follows returns at once.
SetWorkerModeSync(c) ==
    /\ cpc[c] = "idle" /\ OthersIdle(c)
    /\ switches < MaxSwitch
    /\ mode = "ASYNCHRONOUS"
    /\ mode' = "SYNCHRONOUS"
    /\ switches' = switches + 1
    /\ Goto(c, "stop")
    /\ UNCHANGED <<queue, state, threadId, mutex, cur, block, wpc, func, submitted, owner, ran>>

\* reset(): stop_worker first; the mode becomes synchronous once it has returned.
CallReset(c) ==
    /\ cpc[c] = "idle" /\ OthersIdle(c)
    /\ switches < MaxSwitch
    /\ mode = "ASYNCHRONOUS"
    /\ switches' = switches + 1
    /\ Goto(c, "stop")
    /\ UNCHANGED <<queue, mode, state, threadId, mutex, cur, block, wpc, func, submitted,
                   owner, ran>>

\* stop_worker() of a worker that is not idle
StopTerminate(c) ==
    /\ cpc[c] = "stop"
    /\ state' = "TERMINATE"
    /\ Goto(c, "stopNotify")
    /\ UNCHANGED <<queue, mode, threadId, mutex, cur, block, wpc, func, submitted, owner,
                   ran, switches>>

StopNotify(c) ==
    /\ cpc[c] = "stopNotify"
    /\ Wake
    /\ Goto(c, "join")
    /\ UNCHANGED <<queue, mode, state, threadId, mutex, cur, block, func, submitted, owner,
                   ran, switches>>

\* Faulty: the worker is detached, not joined.
StopJoinDetach(c) ==
    /\ cpc[c] = "join"
    /\ state' = "IDLE"
    /\ mode' = "SYNCHRONOUS"
    /\ Goto(c, "idle")
    /\ UNCHANGED <<queue, threadId, mutex, cur, block, wpc, func, submitted, owner,
                   ran, switches>>

\* join(): the worker thread is gone; reset() then stores the mode, set_worker_mode already has.
StopJoin(c) ==
    /\ cpc[c] = "join"
    /\ wpc = "none"
    /\ state' = "IDLE"
    /\ mode' = "SYNCHRONOUS"
    /\ Goto(c, "idle")
    /\ UNCHANGED <<queue, threadId, mutex, cur, block, wpc, func, submitted, owner,
                   ran, switches>>

-----------------------------------------------------------------------------
(* run_worker() *)

\* Faulty: cv.wait without a predicate, every wake-up is taken for work.
WorkerWaitTestNoPredicate ==
    /\ wpc \in {"wait", "awake"}
    /\ IF queue # <<>> \/ state = "TERMINATE" \/ wpc = "awake"
         THEN wpc' = "test" /\ UNCHANGED mutex
         ELSE wpc' = "toSleep" /\ mutex' = TRUE
    /\ UNCHANGED <<queue, mode, state, threadId, func, ran, clientVars>>

\* The predicate of cv.wait, evaluated with cv_mutex held.
WorkerWaitTest ==
    /\ wpc \in {"wait", "awake"}
    /\ IF queue # <<>> \/ state = "TERMINATE"
         THEN wpc' = "test" /\ UNCHANGED mutex
         ELSE wpc' = "toSleep" /\ mutex' = TRUE
    /\ UNCHANGED <<queue, mode, state, threadId, func, ran, clientVars>>

WorkerSleep ==
    /\ wpc = "toSleep"
    /\ wpc' = "asleep"
    /\ mutex' = FALSE
    /\ UNCHANGED <<queue, mode, state, threadId, func, ran, clientVars>>

\* std::condition_variable may wake a thread for no reason.
SpuriousWake ==
    /\ wpc = "asleep"
    /\ wpc' = "awake"
    /\ UNCHANGED <<queue, mode, state, threadId, mutex, func, ran, clientVars>>

\* Faulty: leaves as soon as the terminate signal is set.
WorkerTestTerminateNow ==
    /\ wpc = "test"
    /\ wpc' = IF state = "TERMINATE" THEN "none" ELSE "pop"
    /\ UNCHANGED <<queue, mode, state, threadId, mutex, func, ran, clientVars>>

\* Terminate signal set, and queue is empty - worker exits.
WorkerTestTerminate ==
    /\ wpc = "test"
    /\ wpc' = IF state = "TERMINATE" /\ queue = <<>> THEN "none" ELSE "pop"
    /\ UNCHANGED <<queue, mode, state, threadId, mutex, func, ran, clientVars>>

\* worker_queue.pop(): an empty queue would be a null dereference.
WorkerPop ==
    /\ wpc = "pop"
    /\ IF queue = <<>>
         THEN wpc' = "null" /\ UNCHANGED <<queue, func>>
         ELSE /\ func' = Head(queue)
              /\ queue' = Tail(queue)
              /\ wpc' = IF func' \in Nesting THEN "run" ELSE "finish"
    /\ UNCHANGED <<mode, state, threadId, mutex, ran, clientVars>>

\* The work calls push_work(child, blocking).  A worker that finds its own thread id runs
\* the child at once; one that does not queues it behind itself and waits for the queue.
WorkerNestedPush ==
    /\ wpc = "run"
    /\ IF threadId \/ state # "RUNNING"
         THEN /\ ran' = Append(ran, Child(func))
              /\ wpc' = "finish"
              /\ UNCHANGED queue
         ELSE /\ queue' = queue \o <<Child(func), Flush>>
              /\ wpc' = "selfWait"
              /\ UNCHANGED ran
    /\ UNCHANGED <<mode, state, threadId, mutex, func, clientVars>>

WorkerFinish ==
    /\ wpc = "finish"
    /\ ran' = IF func = Flush THEN ran ELSE Append(ran, func)
    /\ wpc' = "wait"
    /\ UNCHANGED <<queue, mode, state, threadId, mutex, func, clientVars>>

-----------------------------------------------------------------------------
WorkerStep == WorkerWaitTest \/ WorkerSleep \/ WorkerTestTerminate \/ WorkerPop
              \/ WorkerNestedPush \/ WorkerFinish

\* The steps a client takes once it is inside a call.
ClientStep(c) ==
    \/ PushRunsInline(c) \/ PushSeesRunning(c) \/ PushToQueue(c) \/ NotifyPush(c)
    \/ SyncPushFlush(c) \/ SyncNotify(c) \/ SyncReturn(c)
    \/ StartRunning(c) \/ StartSpawn(c) \/ StartStoreId(c)
    \/ StopTerminate(c) \/ StopNotify(c) \/ StopJoin(c)

Next ==
    \/ WorkerStep
    \/ \E c \in Clients :
         \/ ClientStep(c)
         \/ \E b \in BOOLEAN : CallPushWork(c, b)
         \/ CallSynchronize(c)
         \/ SetWorkerModeAsync(c)
         \/ SetWorkerModeSync(c)
         \/ CallReset(c)
    \/ SpuriousWake

\* The operating system keeps running every thread, and a thread that waits for cv_mutex
\* gets it when it is free again and again; nothing obliges a client to call.
Fairness ==
    /\ WF_vars(WorkerStep)
    /\ \A c \in Clients :
         /\ WF_vars(ClientStep(c))
         /\ SF_vars(NotifyPush(c) \/ SyncNotify(c) \/ StopNotify(c))

Spec == Init /\ [][Next]_vars

FairSpec == Spec /\ Fairness

-----------------------------------------------------------------------------
(* Correctness *)

HasRun(i) == \E p \in 1 .. Len(ran) : ran[p] = i

\* The work of one client runs in the order it was pushed and at most once, although part of
\* it runs on the worker and part, after a mode switch, on the client itself.
RunsInOrder ==
    \A p, q \in 1 .. Len(ran) :
        p < q /\ {ran[p], ran[q]} \subseteq 1 .. MaxWork /\ owner[ran[p]] = owner[ran[q]]
          => ran[p] < ran[q]

\* synchronize(), and so a blocking push, returns only when all the work its client pushed
\* has run to its end, although it only looks at the queue being empty.
SynchronizeDrains ==
    [][\A c \in Clients : cpc[c] = "waitEmpty" /\ cpc'[c] = "idle"
          => \A i \in 1 .. submitted : owner[i] = c => HasRun(i)]_vars

\* Once stop_worker returned, no thread is left and no work is left behind in the queue.
StoppedIsDrained == state = "IDLE" => queue = <<>> /\ wpc = "none"

\* The worker never pops from an empty queue.
NeverPopsEmpty == wpc # "null"

\* All work that was pushed runs: no wake-up of the worker is lost, nested work cannot
\* block it, and a stop runs what is queued.
WorkRuns == \A i \in 1 .. MaxWork : submitted >= i ~> HasRun(i)

\* push_work, synchronize and set_worker_mode return, unless another client makes call after
\* call: synchronize polls for an empty queue and may miss it every time.
CallsReturn ==
    \A c \in Clients :
        \/ cpc[c] # "idle" ~> cpc[c] = "idle"
        \/ \E d \in Clients \ {c} : []<>(cpc[d] # "idle") /\ []<>(cpc[d] = "idle")
==============================================================================
