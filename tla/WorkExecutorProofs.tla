------------------------- MODULE WorkExecutorProofs -------------------------
(***************************************************************************)
(* Proofs that, for every set of clients and every number of work items    *)
(* and mode switches, the safety properties of WorkExecutor hold.          *)
(***************************************************************************)
EXTENDS WorkExecutor, SequenceTheorems, TLAPS

\* The worker has popped an item that is not in ran yet.
Working == wpc \in {"run", "finish"}

\* A client that has submitted an item and neither queued nor run it yet.
Pending(c) == cpc[c] \in {"check", "push"}

\* Clients that are inside the part of a call that relies on a running worker.
UsesWorker(c) == cpc[c] \in {"push", "notify", "sync", "flushNotify", "waitEmpty"}

\* set_worker_mode and reset() go through their phases alone.
PhasesOfSwitch ==
    \A c \in Clients :
      /\ Switching(c) => OthersIdle(c)
      /\ cpc[c] \in {"start", "spawn", "storeId"} => mode = "ASYNCHRONOUS"
      /\ cpc[c] = "start" => state = "IDLE"
      /\ cpc[c] \in {"spawn", "storeId"} => state = "RUNNING" /\ queue = <<>>
      /\ cpc[c] = "spawn" => wpc = "none"
      /\ cpc[c] = "storeId" => wpc \in {"wait", "toSleep", "asleep", "awake"}
      /\ cpc[c] = "stop" => state = "RUNNING" /\ threadId
      /\ cpc[c] \in {"stopNotify", "join"} => state = "TERMINATE"
      /\ UsesWorker(c) => state = "RUNNING"

\* worker_state says whether there is a worker, and outside of a switch so does the mode.
StateOfWorker ==
    /\ state = "IDLE" => queue = <<>> /\ wpc = "none"
    /\ state = "RUNNING" => \/ threadId /\ wpc # "none"
                            \/ \E c \in Clients : cpc[c] \in {"spawn", "storeId"}
    /\ state = "TERMINATE" => \E c \in Clients : cpc[c] \in {"stopNotify", "join"}
    /\ (\A c \in Clients : ~Switching(c)) => (mode = "SYNCHRONOUS" <=> state = "IDLE")

\* What the worker knows of the queue at each place of run_worker().
WorkerSeesWork ==
    /\ wpc = "none" => queue = <<>>
    /\ wpc = "test" => queue # <<>> \/ state = "TERMINATE"
    /\ wpc = "pop" => queue # <<>>
    /\ wpc = "run" => func \in Nesting
    /\ wpc \notin {"null", "selfWait"}

\* Item i may be ahead of item j: if one client submitted both, it submitted i first.
Ahead(i, j) ==
    i \in 1 .. MaxWork /\ j \in 1 .. MaxWork /\ owner[i] = owner[j] => i < j

\* An item that is somewhere has been submitted.
Known(i) == i \in 1 .. MaxWork => i <= submitted

AllKnown ==
    /\ \A p \in 1 .. Len(ran) : Known(ran[p])
    /\ \A p \in 1 .. Len(queue) : Known(queue[p])
    /\ Working => Known(func)
    /\ \A c \in Clients : Pending(c) => cur[c] \in 1 .. submitted /\ owner[cur[c]] = c

\* From the items that ran, to the one the worker is at, to the queue, to the clients, the
\* items of one client stay in the order of their calls.
AllInOrder ==
    /\ \A p, q \in 1 .. Len(ran) : p < q => Ahead(ran[p], ran[q])
    /\ \A p, q \in 1 .. Len(queue) : p < q => Ahead(queue[p], queue[q])
    /\ \A p \in 1 .. Len(ran), q \in 1 .. Len(queue) : Ahead(ran[p], queue[q])
    /\ Working => /\ \A p \in 1 .. Len(ran) : Ahead(ran[p], func)
                  /\ \A q \in 1 .. Len(queue) : Ahead(func, queue[q])
    /\ \A c \in Clients : Pending(c) =>
          /\ \A p \in 1 .. Len(ran) : Ahead(ran[p], cur[c])
          /\ \A q \in 1 .. Len(queue) : Ahead(queue[q], cur[c])
          /\ Working => Ahead(func, cur[c])

Queued(i) == \E p \in 1 .. Len(queue) : queue[p] = i

\* No submitted item is lost.
NothingLost ==
    \A i \in 1 .. submitted :
        \/ HasRun(i)
        \/ Queued(i)
        \/ Working /\ func = i
        \/ \E c \in Clients : Pending(c) /\ cur[c] = i

\* While a client waits in synchronize(), a flush is in the queue behind all of its work that
\* has not run to its end.
FlushBehind ==
    \A c \in Clients : cpc[c] \in {"flushNotify", "waitEmpty"} =>
      /\ \A p \in 1 .. Len(queue) : queue[p] \in 1 .. MaxWork /\ owner[queue[p]] = c
            => \E k \in 1 .. Len(queue) : p < k /\ queue[k] = Flush
      /\ Working /\ func \in 1 .. MaxWork /\ owner[func] = c => Queued(Flush)

IInv ==
    /\ TypeOK
    /\ PhasesOfSwitch
    /\ StateOfWorker
    /\ WorkerSeesWork
    /\ AllKnown
    /\ AllInOrder
    /\ NothingLost
    /\ FlushBehind

-----------------------------------------------------------------------------
\* initialize() establishes the inductive invariant.
LEMMA InitIInv == Init => IInv
  <1> SUFFICES ASSUME Init PROVE IInv
    OBVIOUS
  <1> USE WorkAssumption DEF Init
  <1>1. TypeOK
    <2>1. queue \in Seq(Items) /\ ran \in Seq(Items)
      OBVIOUS
    <2>2. Flush \in Items /\ 0 \in 0 .. MaxWork /\ 0 \in 0 .. MaxSwitch
      BY DEF Flush, Items
    <2> QED BY <2>1, <2>2 DEF TypeOK, ClientPC, WorkerPC
  <1>2. PhasesOfSwitch /\ StateOfWorker /\ WorkerSeesWork
    BY DEF PhasesOfSwitch, Switching, OthersIdle, UsesWorker, StateOfWorker, WorkerSeesWork
  <1>3. AllKnown /\ AllInOrder /\ NothingLost /\ FlushBehind
    BY DEF AllKnown, AllInOrder, Working, Pending, NothingLost, FlushBehind
  <1> QED BY <1>1, <1>2, <1>3 DEF IInv

\* Every step keeps the variables in their types.
LEMMA TypeStep == IInv /\ [Next]_vars => TypeOK'
  <1> SUFFICES ASSUME IInv, [Next]_vars PROVE TypeOK'
    OBVIOUS
  <1> USE WorkAssumption DEF IInv, TypeOK, Goto
  <1>1. ASSUME NEW c \in Clients, NEW b \in BOOLEAN, CallPushWork(c, b)
        PROVE  TypeOK'
    BY <1>1 DEF CallPushWork, ClientPC, Items
  <1>2. ASSUME NEW c \in Clients, PushRunsInline(c)
        PROVE  TypeOK'
    <2>1. cur[c] \in Items /\ (cur[c] \in Nesting => Child(cur[c]) \in Items)
      BY DEF Child, Items
    <2>2. RunInline(cur[c]) \in Seq(Items)
      BY <2>1 DEF RunInline
    <2> QED BY <1>2, <2>2 DEF PushRunsInline, ClientPC
  <1>3. ASSUME NEW c \in Clients, PushSeesRunning(c) \/ SyncReturn(c) \/ StartRunning(c)
                                  \/ StartStoreId(c) \/ StopTerminate(c) \/ StopJoin(c)
        PROVE  TypeOK'
    BY <1>3 DEF PushSeesRunning, SyncReturn, StartRunning, StartStoreId, StopTerminate,
                StopJoin, ClientPC
  <1>4. ASSUME NEW c \in Clients, PushToQueue(c) \/ SyncPushFlush(c)
        PROVE  TypeOK'
    <2>1. cur[c] \in Items /\ Flush \in Items
      BY DEF Items, Flush
    <2>2. Append(queue, cur[c]) \in Seq(Items) /\ Append(queue, Flush) \in Seq(Items)
      BY <2>1, AppendProperties
    <2>3. queue' \in Seq(Items)
      BY <1>4, <2>2 DEF PushToQueue, SyncPushFlush
    <2> QED BY <1>4, <2>3 DEF PushToQueue, SyncPushFlush, ClientPC
  <1>5. ASSUME NEW c \in Clients, NotifyPush(c) \/ SyncNotify(c) \/ StopNotify(c)
        PROVE  TypeOK'
    BY <1>5, SMTT(30) DEF NotifyPush, SyncNotify, StopNotify, Wake, ClientPC, WorkerPC
  <1>6. ASSUME NEW c \in Clients, SetWorkerModeAsync(c) \/ SetWorkerModeSync(c) \/ CallReset(c)
        PROVE  TypeOK'
    BY <1>6 DEF SetWorkerModeAsync, SetWorkerModeSync, CallReset, ClientPC
  <1>7. ASSUME NEW c \in Clients, StartSpawn(c)
        PROVE  TypeOK'
    BY <1>7 DEF StartSpawn, ClientPC, WorkerPC
  <1>8. ASSUME WorkerWaitTest \/ WorkerSleep \/ SpuriousWake \/ WorkerTestTerminate
        PROVE  TypeOK'
    BY <1>8 DEF WorkerWaitTest, WorkerSleep, SpuriousWake, WorkerTestTerminate, clientVars,
                WorkerPC
  <1>9. ASSUME WorkerPop
        PROVE  TypeOK'
    <2>1. CASE queue = <<>>
      BY <1>9, <2>1 DEF WorkerPop, clientVars, WorkerPC
    <2>2. CASE queue # <<>>
      <3>1. func' = Head(queue) /\ queue' = Tail(queue) /\ wpc' \in WorkerPC
        BY <1>9, <2>2 DEF WorkerPop, WorkerPC
      <3>2. func' \in Items /\ queue' \in Seq(Items)
        BY <2>2, <3>1
      <3> QED BY <1>9, <3>1, <3>2 DEF WorkerPop, clientVars
    <2> QED BY <2>1, <2>2
  <1>10. ASSUME WorkerNestedPush
         PROVE  TypeOK'
    <2>1. wpc = "run" /\ Child(func) \in Items /\ Flush \in Items
      BY <1>10 DEF WorkerNestedPush, WorkerSeesWork, Child, Items, Flush
    <2>2. <<Child(func), Flush>> \in Seq(Items)
      BY <2>1
    <2>3. Append(ran, Child(func)) \in Seq(Items) /\ queue \o <<Child(func), Flush>> \in Seq(Items)
      BY <2>1, <2>2, AppendProperties, ConcatProperties
    <2>4. queue' \in Seq(Items) /\ ran' \in Seq(Items)
      BY <1>10, <2>3 DEF WorkerNestedPush
    <2> QED BY <1>10, <2>4 DEF WorkerNestedPush, clientVars, WorkerPC
  <1>11. ASSUME WorkerFinish
         PROVE  TypeOK'
    BY <1>11 DEF WorkerFinish, clientVars, WorkerPC
  <1>12. ASSUME NEW c \in Clients, CallSynchronize(c)
         PROVE  TypeOK'
    BY <1>12 DEF CallSynchronize, ClientPC
  <1>13. ASSUME UNCHANGED vars
         PROVE  TypeOK'
    BY <1>13 DEF vars
  <1> QED
    BY <1>1, <1>2, <1>3, <1>4, <1>5, <1>6, <1>7, <1>8, <1>9, <1>10, <1>11, <1>12, <1>13
       DEF Next, WorkerStep, ClientStep

-----------------------------------------------------------------------------
Control == PhasesOfSwitch /\ StateOfWorker /\ WorkerSeesWork

\* Every step keeps the phases of the clients, the state of the executor and the place of the
\* worker consistent.
LEMMA ControlStep == IInv /\ [Next]_vars => Control'
  <1> SUFFICES ASSUME IInv, [Next]_vars PROVE Control'
    OBVIOUS
  <1>0. /\ TypeOK /\ PhasesOfSwitch /\ StateOfWorker /\ WorkerSeesWork
    BY DEF IInv
  <1> USE <1>0 DEF Control, TypeOK, Goto, PhasesOfSwitch, Switching, OthersIdle, UsesWorker,
                   StateOfWorker, WorkerSeesWork
  <1>1. ASSUME NEW c \in Clients, NEW b \in BOOLEAN, CallPushWork(c, b)
        PROVE  Control'
    BY <1>1 DEF CallPushWork
  <1>2. ASSUME NEW c \in Clients, PushRunsInline(c)
        PROVE  Control'
    BY <1>2 DEF PushRunsInline
  <1>3. ASSUME NEW c \in Clients, PushSeesRunning(c)
        PROVE  Control'
    BY <1>3 DEF PushSeesRunning
  <1>4. ASSUME NEW c \in Clients, PushToQueue(c)
        PROVE  Control'
    BY <1>4 DEF PushToQueue
  <1>5. ASSUME NEW c \in Clients, NotifyPush(c)
        PROVE  Control'
    BY <1>5 DEF NotifyPush, Wake
  <1>6. ASSUME NEW c \in Clients, SyncPushFlush(c)
        PROVE  Control'
    BY <1>6 DEF SyncPushFlush
  <1>7. ASSUME NEW c \in Clients, SyncNotify(c)
        PROVE  Control'
    BY <1>7 DEF SyncNotify, Wake
  <1>8. ASSUME NEW c \in Clients, SyncReturn(c)
        PROVE  Control'
    BY <1>8 DEF SyncReturn
  <1>9. ASSUME NEW c \in Clients, StartRunning(c)
        PROVE  Control'
    BY <1>9 DEF StartRunning
  <1>10. ASSUME NEW c \in Clients, StartSpawn(c)
        PROVE  Control'
    BY <1>10 DEF StartSpawn
  <1>11. ASSUME NEW c \in Clients, StartStoreId(c)
        PROVE  Control'
    BY <1>11 DEF StartStoreId
  <1>12. ASSUME NEW c \in Clients, StopTerminate(c)
        PROVE  Control'
    BY <1>12 DEF StopTerminate
  <1>13. ASSUME NEW c \in Clients, StopNotify(c)
        PROVE  Control'
    BY <1>13 DEF StopNotify, Wake
  <1>14. ASSUME NEW c \in Clients, StopJoin(c)
        PROVE  Control'
    BY <1>14 DEF StopJoin
  <1>15. ASSUME NEW c \in Clients, CallSynchronize(c)
        PROVE  Control'
    BY <1>15 DEF CallSynchronize
  <1>16. ASSUME NEW c \in Clients, SetWorkerModeAsync(c)
        PROVE  Control'
    BY <1>16 DEF SetWorkerModeAsync
  <1>17. ASSUME NEW c \in Clients, SetWorkerModeSync(c)
        PROVE  Control'
    BY <1>17 DEF SetWorkerModeSync
  <1>18. ASSUME NEW c \in Clients, CallReset(c)
        PROVE  Control'
    BY <1>18 DEF CallReset
  <1>19. ASSUME WorkerWaitTest
        PROVE  Control'
    BY <1>19 DEF WorkerWaitTest, clientVars
  <1>20. ASSUME WorkerSleep
        PROVE  Control'
    BY <1>20 DEF WorkerSleep, clientVars
  <1>21. ASSUME SpuriousWake
        PROVE  Control'
    BY <1>21 DEF SpuriousWake, clientVars
  <1>22. ASSUME WorkerTestTerminate
        PROVE  Control'
    BY <1>22 DEF WorkerTestTerminate, clientVars
  <1>23. ASSUME WorkerPop
        PROVE  Control'
    BY <1>23 DEF WorkerPop, clientVars
  <1>24. ASSUME WorkerNestedPush
        PROVE  Control'
    BY <1>24 DEF WorkerNestedPush, clientVars
  <1>25. ASSUME WorkerFinish
        PROVE  Control'
    BY <1>25 DEF WorkerFinish, clientVars
  <1>26. ASSUME UNCHANGED vars
        PROVE  Control'
    BY <1>26 DEF vars
  <1> QED
    BY <1>1, <1>2, <1>3, <1>4, <1>5, <1>6, <1>7, <1>8, <1>9, <1>10, <1>11, <1>12, <1>13,
       <1>14, <1>15, <1>16, <1>17, <1>18, <1>19, <1>20, <1>21, <1>22, <1>23, <1>24, <1>25,
       <1>26
       DEF Next, WorkerStep, ClientStep

-----------------------------------------------------------------------------
Tracked == AllKnown /\ AllInOrder /\ NothingLost /\ FlushBehind

AwaitsFlush(c) == cpc[c] \in {"flushNotify", "waitEmpty"}

\* A step that moves no item keeps track of all of them.
LEMMA NoItemMoves ==
    ASSUME Tracked,
           UNCHANGED <<queue, ran, func, cur, submitted, owner>>,
           Working' <=> Working,
           \A c \in Clients : /\ Pending(c)' <=> Pending(c)
                              /\ AwaitsFlush(c)' => AwaitsFlush(c)
    PROVE  Tracked'
  <1>1. \A i : Known(i)' <=> Known(i)
    BY DEF Known
  <1>2. \A i, j : Ahead(i, j)' <=> Ahead(i, j)
    BY DEF Ahead
  <1>3. \A i : (Queued(i)' <=> Queued(i)) /\ (HasRun(i)' <=> HasRun(i))
    BY DEF Queued, HasRun
  <1>4. AllKnown'
    BY <1>1 DEF Tracked, AllKnown
  <1>5. AllInOrder'
    BY <1>2 DEF Tracked, AllInOrder
  <1>6. NothingLost'
    BY <1>3 DEF Tracked, NothingLost
  <1>7. FlushBehind'
    BY <1>3 DEF Tracked, FlushBehind, AwaitsFlush
  <1> QED BY <1>4, <1>5, <1>6, <1>7 DEF Tracked

\* A new item is behind everything its client submitted before.
LEMMA CallPushWorkTracked ==
    ASSUME IInv, NEW c \in Clients, NEW b \in BOOLEAN, CallPushWork(c, b)
    PROVE  Tracked'
  <1> USE WorkAssumption
  <1>1. TypeOK /\ AllKnown /\ AllInOrder /\ NothingLost /\ FlushBehind
    BY DEF IInv
  <1>2. /\ submitted' = submitted + 1 /\ submitted \in Nat /\ submitted + 1 <= MaxWork
        /\ owner'[submitted + 1] = c
        /\ \A i \in 1 .. submitted : owner'[i] = owner[i]
        /\ cur'[c] = submitted + 1 /\ Pending(c)' /\ ~AwaitsFlush(c)'
        /\ \A d \in Clients \ {c} : /\ cur'[d] = cur[d]
                                    /\ Pending(d)' <=> Pending(d)
                                    /\ AwaitsFlush(d)' <=> AwaitsFlush(d)
        /\ ~Pending(c)
        /\ queue' = queue /\ ran' = ran /\ func' = func /\ (Working' <=> Working)
    BY <1>1 DEF CallPushWork, Goto, TypeOK, Pending, AwaitsFlush, Working
  <1>3. \A i : Known(i) => /\ Known(i)'
                           /\ i \in 1 .. MaxWork => owner'[i] = owner[i]
                           /\ Ahead(i, cur[c])'
    BY <1>2 DEF Known, Ahead
  <1>4. \A i, j : Known(i) /\ Known(j) /\ Ahead(i, j) => Ahead(i, j)'
    BY <1>3 DEF Ahead
  <1>5. AllKnown'
    BY <1>1, <1>2, <1>3 DEF AllKnown
  <1>6. AllInOrder'
    <2>1. \A d \in Clients \ {c} : Pending(d) => Known(cur[d])
      BY <1>1, <1>2 DEF AllKnown, Known
    <2>2. (/\ \A p, q \in 1 .. Len(ran) : p < q => Ahead(ran[p], ran[q])
           /\ \A p, q \in 1 .. Len(queue) : p < q => Ahead(queue[p], queue[q])
           /\ \A p \in 1 .. Len(ran), q \in 1 .. Len(queue) : Ahead(ran[p], queue[q]))'
      BY <1>1, <1>2, <1>4 DEF AllKnown, AllInOrder
    <2>3. (Working => /\ \A p \in 1 .. Len(ran) : Ahead(ran[p], func)
                      /\ \A q \in 1 .. Len(queue) : Ahead(func, queue[q]))'
      BY <1>1, <1>2, <1>4 DEF AllKnown, AllInOrder
    <2>4. ASSUME NEW d \in Clients, Pending(d)'
          PROVE  (/\ \A p \in 1 .. Len(ran) : Ahead(ran[p], cur[d])
                  /\ \A q \in 1 .. Len(queue) : Ahead(queue[q], cur[d])
                  /\ Working => Ahead(func, cur[d]))'
      <3>1. CASE d = c
        BY <1>1, <1>2, <1>3, <3>1 DEF AllKnown
      <3>2. CASE d # c
        BY <1>1, <1>2, <1>4, <2>1, <2>4, <3>2 DEF AllKnown, AllInOrder
      <3> QED BY <3>1, <3>2
    <2> QED BY <2>2, <2>3, <2>4 DEF AllInOrder
  <1>7. NothingLost'
    <2>1. \A i : (HasRun(i)' <=> HasRun(i)) /\ (Queued(i)' <=> Queued(i))
      BY <1>2 DEF HasRun, Queued
    <2> QED BY <1>1, <1>2, <2>1 DEF NothingLost
  <1>8. FlushBehind'
    BY <1>1, <1>2, <1>3 DEF FlushBehind, AllKnown, AwaitsFlush, Queued
  <1> QED BY <1>5, <1>6, <1>7, <1>8 DEF Tracked

\* Work that runs in the calling thread finds no worker and an empty queue.
LEMMA PushRunsInlineTracked ==
    ASSUME IInv, NEW c \in Clients, PushRunsInline(c)
    PROVE  Tracked'
  <1> USE WorkAssumption
  <1>1. TypeOK /\ AllKnown /\ AllInOrder /\ NothingLost /\ FlushBehind
    BY DEF IInv
  <1>2. queue = <<>> /\ ~Working /\ Pending(c) /\ ~Pending(c)' /\ ~Working' /\ queue' = queue
    BY DEF PushRunsInline, IInv, TypeOK, PhasesOfSwitch, StateOfWorker, Working, Pending, Goto,
           Switching, OthersIdle
  <1>3. /\ submitted' = submitted /\ owner' = owner /\ cur' = cur
        /\ \A d \in Clients \ {c} : /\ Pending(d)' <=> Pending(d)
                                    /\ AwaitsFlush(d)' <=> AwaitsFlush(d)
        /\ ~AwaitsFlush(c)'
    BY <1>1 DEF PushRunsInline, Goto, TypeOK, Pending, AwaitsFlush
  <1>4. cur[c] \in 1 .. submitted /\ submitted \in Nat /\ submitted <= MaxWork /\ owner[cur[c]] = c
    BY <1>1, <1>2 DEF AllKnown, TypeOK
  \* the items that are new in ran: the client's own, after the child if it has one
  <1>5. /\ ran' \in Seq(Items) /\ Len(ran') >= Len(ran) + 1
        /\ \A p \in 1 .. Len(ran) : ran'[p] = ran[p]
        /\ ran'[Len(ran')] = cur[c]
        /\ \A p \in Len(ran) + 1 .. Len(ran') - 1 : ran'[p] \notin 1 .. MaxWork
    <2>1. CASE cur[c] \in Nesting
      <3>1. Child(cur[c]) \in Items /\ Child(cur[c]) \notin 1 .. MaxWork /\ cur[c] \in Items
        BY <1>1, <1>4, <2>1 DEF Child, Items, TypeOK
      <3>2. ran' = ran \o <<Child(cur[c]), cur[c]>>
        BY <2>1 DEF PushRunsInline, RunInline
      <3> DEFINE new == <<Child(cur[c]), cur[c]>>
      <3>3. new \in Seq(Items) /\ Len(new) = 2 /\ new[1] = Child(cur[c]) /\ new[2] = cur[c]
        BY <3>1
      <3> HIDE DEF new
      <3>4. /\ ran' \in Seq(Items) /\ Len(ran') = Len(ran) + 2
            /\ \A p \in 1 .. Len(ran) : ran'[p] = ran[p]
            /\ ran'[Len(ran) + 1] = Child(cur[c]) /\ ran'[Len(ran) + 2] = cur[c]
        BY <1>1, <3>2, <3>3, ConcatProperties, LenProperties DEF TypeOK, new
      <3> QED BY <1>1, <3>1, <3>4, LenProperties DEF TypeOK
    <2>2. CASE cur[c] \notin Nesting
      <3>1. ran' = ran \o <<cur[c]>> /\ cur[c] \in Items
        BY <1>1, <2>2 DEF PushRunsInline, RunInline, TypeOK
      <3>2. ran' = Append(ran, cur[c])
        BY <1>1, <3>1, AppendIsConcat DEF TypeOK
      <3> QED BY <1>1, <3>1, <3>2, AppendProperties, LenProperties DEF TypeOK
    <2> QED BY <2>1, <2>2
  <1>6. \A p \in 1 .. Len(ran') :
            p \in 1 .. Len(ran) \/ p = Len(ran') \/ ran'[p] \notin 1 .. MaxWork
    BY <1>1, <1>5, LenProperties DEF TypeOK
  <1>7. \A i, j : Ahead(i, j)' <=> Ahead(i, j)
    BY <1>3 DEF Ahead
  <1>8. AllKnown'
    BY <1>1, <1>2, <1>3, <1>4, <1>5, <1>6, SMTT(30) DEF AllKnown, Known
  <1>9. AllInOrder'
    <2>1. ASSUME NEW p \in 1 .. Len(ran'), NEW q \in 1 .. Len(ran'), p < q
          PROVE  Ahead(ran'[p], ran'[q])
      <3>1. CASE q \in 1 .. Len(ran)
        <4>1. p \in 1 .. Len(ran)
          BY <1>1, <1>5, <2>1, <3>1, LenProperties DEF TypeOK
        <4> QED BY <1>1, <1>5, <2>1, <3>1, <4>1 DEF AllInOrder
      <3>2. CASE q = Len(ran')
        <4>1. CASE p \in 1 .. Len(ran)
          BY <1>1, <1>2, <1>5, <3>2, <4>1 DEF AllInOrder
        <4>2. CASE ran'[p] \notin 1 .. MaxWork
          BY <4>2 DEF Ahead
        <4> QED BY <1>6, <2>1, <3>2, <4>1, <4>2, <1>1, LenProperties DEF TypeOK
      <3>3. CASE ran'[q] \notin 1 .. MaxWork
        BY <3>3 DEF Ahead
      <3> QED BY <1>6, <3>1, <3>2, <3>3
    <2>2. ASSUME NEW d \in Clients, Pending(d)', NEW p \in 1 .. Len(ran')
          PROVE  Ahead(ran'[p], cur'[d])
      <3>0. d # c /\ Pending(d) /\ cur'[d] = cur[d] /\ owner[cur[d]] = d
        BY <1>1, <1>2, <1>3, <2>2 DEF AllKnown
      <3>1. CASE p \in 1 .. Len(ran)
        BY <1>1, <1>5, <3>0, <3>1 DEF AllInOrder
      <3>2. CASE p = Len(ran')
        BY <1>4, <1>5, <3>0, <3>2 DEF Ahead
      <3>3. CASE ran'[p] \notin 1 .. MaxWork
        BY <3>3 DEF Ahead
      <3> QED BY <1>6, <3>1, <3>2, <3>3
    <2> QED BY <1>2, <1>7, <2>1, <2>2 DEF AllInOrder
  <1>10. NothingLost'
    <2>0. 1 .. Len(ran) \subseteq 1 .. Len(ran') /\ Len(ran') \in 1 .. Len(ran')
      BY <1>1, <1>5, LenProperties DEF TypeOK
    <2>1. \A i : HasRun(i) => HasRun(i)'
      BY <1>5, <2>0 DEF HasRun
    <2>2. HasRun(cur[c])'
      BY <1>3, <1>5, <2>0 DEF HasRun
    <2> QED BY <1>1, <1>2, <1>3, <2>1, <2>2 DEF NothingLost, Queued
  <1>11. FlushBehind'
    BY <1>2, <1>3 DEF FlushBehind, AwaitsFlush
  <1> QED BY <1>8, <1>9, <1>10, <1>11 DEF Tracked

\* What Append does to the queue: the new item is last, the others stay where they are.
LEMMA AppendFacts ==
    ASSUME NEW s \in Seq(Items), NEW x \in Items
    PROVE  /\ Len(s) \in Nat /\ Len(Append(s, x)) = Len(s) + 1
           /\ \A p \in 1 .. Len(s) : Append(s, x)[p] = s[p]
           /\ Append(s, x)[Len(s) + 1] = x
           /\ \A p \in 1 .. Len(s) + 1 : p \in 1 .. Len(s) \/ p = Len(s) + 1
           /\ 1 .. Len(s) \subseteq 1 .. Len(s) + 1
           /\ Len(s) + 1 \in 1 .. Len(s) + 1
  BY AppendProperties, LenProperties

\* The pushed item goes behind everything its client pushed before.
LEMMA PushToQueueTracked ==
    ASSUME IInv, NEW c \in Clients, PushToQueue(c)
    PROVE  Tracked'
  <1> USE WorkAssumption
  <1>1. TypeOK /\ AllKnown /\ AllInOrder /\ NothingLost /\ FlushBehind
    BY DEF IInv
  <1>2. /\ Pending(c) /\ ~Pending(c)' /\ ~AwaitsFlush(c)'
        /\ \A d \in Clients \ {c} : /\ Pending(d)' <=> Pending(d)
                                    /\ AwaitsFlush(d)' <=> AwaitsFlush(d)
        /\ queue' = Append(queue, cur[c]) /\ queue \in Seq(Items) /\ cur[c] \in Items
        /\ submitted' = submitted /\ owner' = owner /\ cur' = cur /\ ran' = ran /\ func' = func
        /\ Working' <=> Working
    BY <1>1 DEF PushToQueue, Goto, TypeOK, Pending, AwaitsFlush, Working
  <1> DEFINE n == Len(queue)
  <1>3. /\ n \in Nat /\ Len(queue') = n + 1
        /\ \A p \in 1 .. n : queue'[p] = queue[p]
        /\ queue'[n + 1] = cur[c]
        /\ \A p \in 1 .. n + 1 : p \in 1 .. n \/ p = n + 1
        /\ 1 .. n \subseteq 1 .. n + 1 /\ n + 1 \in 1 .. n + 1
    BY <1>2, AppendFacts
  <1>4. cur[c] \in 1 .. submitted /\ submitted \in Nat /\ submitted <= MaxWork /\ owner[cur[c]] = c
    BY <1>1, <1>2 DEF AllKnown, TypeOK
  <1>5. (\A i, j : Ahead(i, j)' <=> Ahead(i, j)) /\ (\A i : Known(i)' <=> Known(i))
    BY <1>2 DEF Ahead, Known
  <1> HIDE DEF n
  <1>6. AllKnown'
    BY <1>1, <1>2, <1>3, <1>4, <1>5 DEF AllKnown, Known
  <1>7. AllInOrder'
    <2>1. \A p, q \in 1 .. n + 1 : p < q => Ahead(queue'[p], queue'[q])
      <3> SUFFICES ASSUME NEW p \in 1 .. n + 1, NEW q \in 1 .. n + 1, p < q
                   PROVE  Ahead(queue'[p], queue'[q])
        OBVIOUS
      <3>1. p \in 1 .. n /\ (q \in 1 .. n \/ q = n + 1)
        BY <1>3
      <3> QED BY <1>1, <1>2, <1>3, <3>1 DEF AllInOrder, n
    <2>2. \A p \in 1 .. Len(ran), q \in 1 .. n + 1 : Ahead(ran[p], queue'[q])
      BY <1>1, <1>2, <1>3 DEF AllInOrder, n
    <2>3. Working => \A q \in 1 .. n + 1 : Ahead(func, queue'[q])
      BY <1>1, <1>2, <1>3 DEF AllInOrder, n
    <2>4. ASSUME NEW d \in Clients \ {c}, Pending(d)
          PROVE  \A q \in 1 .. n + 1 : Ahead(queue'[q], cur[d])
      <3>1. Ahead(cur[c], cur[d])
        BY <1>1, <1>4, <2>4 DEF Ahead, AllKnown
      <3> QED BY <1>1, <1>3, <2>4, <3>1 DEF AllInOrder, n
    <2> QED BY <1>1, <1>2, <1>3, <1>5, <2>1, <2>2, <2>3, <2>4 DEF AllInOrder
  <1>8. NothingLost'
    <2>1. \A i : (Queued(i) => Queued(i)') /\ (HasRun(i)' <=> HasRun(i))
      BY <1>2, <1>3 DEF Queued, HasRun, n
    <2>2. Queued(cur[c])'
      BY <1>2, <1>3 DEF Queued
    <2> QED BY <1>1, <1>2, <2>1, <2>2 DEF NothingLost
  <1>9. FlushBehind'
    <2> SUFFICES ASSUME NEW d \in Clients \ {c}, AwaitsFlush(d)
                 PROVE  /\ \A p \in 1 .. n + 1 : queue'[p] \in 1 .. MaxWork /\ owner[queue'[p]] = d
                             => \E k \in 1 .. n + 1 : p < k /\ queue'[k] = Flush
                        /\ Working /\ func \in 1 .. MaxWork /\ owner[func] = d => Queued(Flush)'
      BY <1>2, <1>3 DEF FlushBehind, AwaitsFlush, Flush, Queued
    <2>1. ASSUME NEW p \in 1 .. n + 1, queue'[p] \in 1 .. MaxWork, owner[queue'[p]] = d
          PROVE  \E k \in 1 .. n + 1 : p < k /\ queue'[k] = Flush
      <3>1. p \in 1 .. n /\ queue'[p] = queue[p]
        BY <1>3, <1>4, <2>1
      <3>2. PICK k \in 1 .. n : p < k /\ queue[k] = Flush
        BY <1>1, <2>1, <3>1 DEF FlushBehind, AwaitsFlush, n
      <3> QED BY <1>3, <3>2
    <2>2. \A i : Queued(i) => Queued(i)'
      BY <1>2, <1>3 DEF Queued, n
    <2> QED BY <1>1, <2>1, <2>2 DEF FlushBehind, AwaitsFlush
  <1> QED BY <1>6, <1>7, <1>8, <1>9 DEF Tracked

\* The flush goes behind all the work of the client that synchronizes.
LEMMA SyncPushFlushTracked ==
    ASSUME IInv, NEW c \in Clients, SyncPushFlush(c)
    PROVE  Tracked'
  <1> USE WorkAssumption
  <1>1. TypeOK /\ AllKnown /\ AllInOrder /\ NothingLost /\ FlushBehind
    BY DEF IInv
  <1>2. /\ \A d \in Clients : Pending(d)' <=> Pending(d)
        /\ \A d \in Clients \ {c} : AwaitsFlush(d)' <=> AwaitsFlush(d)
        /\ queue' = Append(queue, Flush) /\ queue \in Seq(Items) /\ Flush \in Items
        /\ submitted' = submitted /\ owner' = owner /\ cur' = cur /\ ran' = ran /\ func' = func
        /\ Working' <=> Working
    BY <1>1 DEF SyncPushFlush, Goto, TypeOK, Pending, AwaitsFlush, Working, Items, Flush
  <1> DEFINE n == Len(queue)
  <1>3. /\ n \in Nat /\ Len(queue') = n + 1
        /\ \A p \in 1 .. n : queue'[p] = queue[p]
        /\ queue'[n + 1] = Flush
        /\ \A p \in 1 .. n + 1 : p \in 1 .. n \/ p = n + 1
        /\ 1 .. n \subseteq 1 .. n + 1 /\ n + 1 \in 1 .. n + 1
    BY <1>2, AppendFacts
  <1>4. Flush \notin 1 .. MaxWork /\ Known(Flush) /\ \A i : Ahead(i, Flush) /\ Ahead(Flush, i)
    BY DEF Flush, Known, Ahead
  <1>5. (\A i, j : Ahead(i, j)' <=> Ahead(i, j)) /\ (\A i : Known(i)' <=> Known(i))
    BY <1>2 DEF Ahead, Known
  <1> HIDE DEF n
  <1>6. AllKnown'
    BY <1>1, <1>2, <1>3, <1>4, <1>5 DEF AllKnown, n
  <1>7. AllInOrder'
    <2>1. \A p, q \in 1 .. n + 1 : p < q => Ahead(queue'[p], queue'[q])
      <3> SUFFICES ASSUME NEW p \in 1 .. n + 1, NEW q \in 1 .. n + 1, p < q
                   PROVE  Ahead(queue'[p], queue'[q])
        OBVIOUS
      <3>1. p \in 1 .. n /\ (q \in 1 .. n \/ q = n + 1)
        BY <1>3
      <3> QED BY <1>1, <1>3, <1>4, <3>1 DEF AllInOrder, n
    <2>2. \A p \in 1 .. Len(ran), q \in 1 .. n + 1 : Ahead(ran[p], queue'[q])
      BY <1>1, <1>3, <1>4 DEF AllInOrder, n
    <2>3. Working => \A q \in 1 .. n + 1 : Ahead(func, queue'[q])
      BY <1>1, <1>3, <1>4 DEF AllInOrder, n
    <2>4. ASSUME NEW d \in Clients, Pending(d)
          PROVE  \A q \in 1 .. n + 1 : Ahead(queue'[q], cur[d])
      BY <1>1, <1>3, <1>4, <2>4 DEF AllInOrder, n
    <2> QED BY <1>1, <1>2, <1>3, <1>5, <2>1, <2>2, <2>3, <2>4 DEF AllInOrder
  <1>8. \A i : (Queued(i) => Queued(i)') /\ (HasRun(i)' <=> HasRun(i))
    BY <1>2, <1>3 DEF Queued, HasRun, n
  <1>9. NothingLost'
    BY <1>1, <1>2, <1>8 DEF NothingLost
  <1>10. FlushBehind'
    <2>1. Queued(Flush)'
      BY <1>3 DEF Queued, Flush
    <2>2. ASSUME NEW p \in 1 .. n + 1, queue'[p] \in 1 .. MaxWork
          PROVE  \E k \in 1 .. n + 1 : p < k /\ queue'[k] = Flush
      <3>1. p \in 1 .. n
        BY <1>3, <1>4, <2>2
      <3> QED BY <1>3, <3>1
    <2> QED BY <1>2, <1>3, <2>1, <2>2 DEF FlushBehind, Flush
  <1> QED BY <1>6, <1>7, <1>9, <1>10 DEF Tracked

\* The popped item was the first of the queue: all others of its client are behind it, and a
\* client that waits for it still has its flush in the queue.
LEMMA WorkerPopTracked ==
    ASSUME IInv, WorkerPop
    PROVE  Tracked'
  <1> USE WorkAssumption
  <1>1. TypeOK /\ AllKnown /\ AllInOrder /\ NothingLost /\ FlushBehind
    BY DEF IInv
  <1>2. /\ queue # <<>> /\ ~Working /\ Working'
        /\ func' = Head(queue) /\ queue' = Tail(queue) /\ queue \in Seq(Items)
        /\ submitted' = submitted /\ owner' = owner /\ cur' = cur /\ ran' = ran /\ cpc' = cpc
    BY <1>1 DEF WorkerPop, IInv, WorkerSeesWork, TypeOK, Working, clientVars
  <1>3. \A d \in Clients : (Pending(d)' <=> Pending(d)) /\ (AwaitsFlush(d)' <=> AwaitsFlush(d))
    BY <1>2 DEF Pending, AwaitsFlush
  <1> DEFINE n == Len(queue)
  <1>4. /\ n \in Nat /\ n >= 1 /\ Len(queue') = n - 1 /\ func' = queue[1]
        /\ \A p \in 1 .. n - 1 : queue'[p] = queue[p + 1] /\ p + 1 \in 1 .. n /\ 1 < p + 1
        /\ 1 \in 1 .. n
        /\ \A p \in 1 .. n : p = 1 \/ (p - 1 \in 1 .. n - 1 /\ queue'[p - 1] = queue[p])
    <2>1. n \in Nat /\ n >= 1
      BY <1>2, LenProperties, EmptySeq
    <2>2. Len(Tail(queue)) = n - 1 /\ Head(queue) = queue[1]
          /\ \A p \in 1 .. n - 1 : Tail(queue)[p] = queue[p + 1]
      BY <1>2, HeadTailProperties
    <2> QED BY <1>2, <2>1, <2>2
  <1>5. (\A i, j : Ahead(i, j)' <=> Ahead(i, j)) /\ (\A i : Known(i)' <=> Known(i))
    BY <1>2 DEF Ahead, Known
  <1> HIDE DEF n
  <1>6. AllKnown'
    BY <1>1, <1>2, <1>3, <1>4, <1>5 DEF AllKnown, n
  <1>7. AllInOrder'
    <2>1. \A p, q \in 1 .. n - 1 : p < q => Ahead(queue'[p], queue'[q])
      <3> SUFFICES ASSUME NEW p \in 1 .. n - 1, NEW q \in 1 .. n - 1, p < q
                   PROVE  Ahead(queue'[p], queue'[q])
        OBVIOUS
      <3>1. p + 1 < q + 1
        BY <1>4
      <3> QED BY <1>1, <1>4, <3>1 DEF AllInOrder, n
    <2>2. \A p \in 1 .. Len(ran), q \in 1 .. n - 1 : Ahead(ran[p], queue'[q])
      BY <1>1, <1>4 DEF AllInOrder, n
    <2>3. \A p \in 1 .. Len(ran) : Ahead(ran[p], func')
      BY <1>1, <1>4 DEF AllInOrder, n
    <2>4. \A q \in 1 .. n - 1 : Ahead(func', queue'[q])
      BY <1>1, <1>4 DEF AllInOrder, n
    <2>5. ASSUME NEW d \in Clients, Pending(d)
          PROVE  Ahead(func', cur[d]) /\ \A q \in 1 .. n - 1 : Ahead(queue'[q], cur[d])
      BY <1>1, <1>4, <2>5 DEF AllInOrder, n
    <2> QED BY <1>1, <1>2, <1>3, <1>4, <1>5, <2>1, <2>2, <2>3, <2>4, <2>5 DEF AllInOrder
  <1>8. NothingLost'
    <2>1. \A i : HasRun(i)' <=> HasRun(i)
      BY <1>2 DEF HasRun
    <2>2. \A i : Queued(i) => Queued(i)' \/ func' = i
      BY <1>4 DEF Queued, n
    <2> QED BY <1>1, <1>2, <1>3, <2>1, <2>2 DEF NothingLost
  <1>9. FlushBehind'
    <2> SUFFICES ASSUME NEW d \in Clients, AwaitsFlush(d)
                 PROVE  /\ \A p \in 1 .. n - 1 : queue'[p] \in 1 .. MaxWork /\ owner[queue'[p]] = d
                             => \E k \in 1 .. n - 1 : p < k /\ queue'[k] = Flush
                        /\ func' \in 1 .. MaxWork /\ owner[func'] = d => Queued(Flush)'
      BY <1>2, <1>3, <1>4 DEF FlushBehind, AwaitsFlush
    <2>0. \A p \in 1 .. n : queue[p] \in 1 .. MaxWork /\ owner[queue[p]] = d
             => \E k \in 1 .. n : p < k /\ queue[k] = Flush
      BY <1>1 DEF FlushBehind, AwaitsFlush, n
    <2>1. ASSUME NEW p \in 1 .. n - 1, queue'[p] \in 1 .. MaxWork, owner[queue'[p]] = d
          PROVE  \E k \in 1 .. n - 1 : p < k /\ queue'[k] = Flush
      <3>1. PICK k \in 1 .. n : p + 1 < k /\ queue[k] = Flush
        BY <1>4, <2>0, <2>1
      <3>2. k - 1 \in 1 .. n - 1 /\ p < k - 1 /\ queue'[k - 1] = Flush
        BY <1>4, <3>1
      <3> QED BY <3>2
    <2>2. ASSUME func' \in 1 .. MaxWork, owner[func'] = d
          PROVE  Queued(Flush)'
      <3>1. PICK k \in 1 .. n : 1 < k /\ queue[k] = Flush
        BY <1>4, <2>0, <2>2
      <3>2. k - 1 \in 1 .. n - 1 /\ queue'[k - 1] = Flush
        BY <1>4, <3>1
      <3> QED BY <1>4, <3>2 DEF Queued
    <2> QED BY <2>1, <2>2
  <1> QED BY <1>6, <1>7, <1>8, <1>9 DEF Tracked

\* The item that finishes, or the nested child that runs before it, is the next of ran.
LEMMA RanGrowsTracked ==
    ASSUME IInv, NEW x \in Items, ran' = Append(ran, x),
           Working, x \in 1 .. MaxWork => x = func,
           UNCHANGED <<queue, func, cur, submitted, owner, cpc>>,
           Working' => x \notin 1 .. MaxWork,
           ~Working' => x = func
    PROVE  Tracked'
  <1> USE WorkAssumption
  <1>1. TypeOK /\ AllKnown /\ AllInOrder /\ NothingLost /\ FlushBehind
    BY DEF IInv
  <1>2. \A d \in Clients : (Pending(d)' <=> Pending(d)) /\ (AwaitsFlush(d)' <=> AwaitsFlush(d))
    BY DEF Pending, AwaitsFlush
  <1> DEFINE n == Len(ran)
  <1>3. /\ n \in Nat /\ Len(ran') = n + 1
        /\ \A p \in 1 .. n : ran'[p] = ran[p]
        /\ ran'[n + 1] = x
        /\ \A p \in 1 .. n + 1 : p \in 1 .. n \/ p = n + 1
        /\ 1 .. n \subseteq 1 .. n + 1 /\ n + 1 \in 1 .. n + 1
    BY <1>1, AppendFacts DEF TypeOK
  <1>4. (\A i, j : Ahead(i, j)' <=> Ahead(i, j)) /\ (\A i : Known(i)' <=> Known(i))
    BY DEF Ahead, Known
  <1> HIDE DEF n
  <1>5. /\ \A p \in 1 .. n : Ahead(ran[p], x)
        /\ \A q \in 1 .. Len(queue) : Ahead(x, queue[q])
        /\ \A d \in Clients : Pending(d) => Ahead(x, cur[d])
        /\ Known(x)
    BY <1>1 DEF AllInOrder, AllKnown, Ahead, Known, n
  <1>6. Working' => Ahead(x, func)
    BY DEF Ahead
  <1>7. AllKnown'
    BY <1>1, <1>2, <1>3, <1>4, <1>5 DEF AllKnown, n
  <1>8. AllInOrder'
    <2>1. \A p, q \in 1 .. n + 1 : p < q => Ahead(ran'[p], ran'[q])
      <3> SUFFICES ASSUME NEW p \in 1 .. n + 1, NEW q \in 1 .. n + 1, p < q
                   PROVE  Ahead(ran'[p], ran'[q])
        OBVIOUS
      <3>1. p \in 1 .. n /\ (q \in 1 .. n \/ q = n + 1)
        BY <1>3
      <3> QED BY <1>1, <1>3, <1>5, <3>1 DEF AllInOrder, n
    <2>2. \A p \in 1 .. n + 1, q \in 1 .. Len(queue) : Ahead(ran'[p], queue[q])
      BY <1>1, <1>3, <1>5 DEF AllInOrder, n
    <2>3. Working' => \A p \in 1 .. n + 1 : Ahead(ran'[p], func)
      BY <1>1, <1>3, <1>6 DEF AllInOrder, n
    <2>4. ASSUME NEW d \in Clients, Pending(d)
          PROVE  \A p \in 1 .. n + 1 : Ahead(ran'[p], cur[d])
      BY <1>1, <1>3, <1>5, <2>4 DEF AllInOrder, n
    <2> QED BY <1>1, <1>2, <1>3, <1>4, <2>1, <2>2, <2>3, <2>4 DEF AllInOrder
  <1>9. NothingLost'
    <2>1. \A i : (HasRun(i) => HasRun(i)') /\ (Queued(i)' <=> Queued(i))
      BY <1>3 DEF HasRun, Queued, n
    <2>2. ~Working' => HasRun(func)'
      BY <1>3 DEF HasRun
    <2> QED BY <1>1, <1>2, <2>1, <2>2 DEF NothingLost
  <1>10. FlushBehind'
    BY <1>1, <1>2 DEF FlushBehind, AwaitsFlush, Queued
  <1> QED BY <1>7, <1>8, <1>9, <1>10 DEF Tracked

\* Nested work runs at once, in the worker thread.
LEMMA WorkerNestedPushTracked ==
    ASSUME IInv, WorkerNestedPush
    PROVE  Tracked'
  <1>1. wpc = "run" /\ func \in Nesting /\ (threadId \/ state # "RUNNING")
    BY DEF WorkerNestedPush, IInv, WorkerSeesWork, StateOfWorker, PhasesOfSwitch
  <1>2. Child(func) \in Items /\ Child(func) \notin 1 .. MaxWork
    BY <1>1, WorkAssumption DEF Child, Items
  <1>3. /\ ran' = Append(ran, Child(func)) /\ Working /\ Working'
        /\ UNCHANGED <<queue, func, cur, submitted, owner, cpc>>
    BY <1>1 DEF WorkerNestedPush, Working, clientVars
  <1> QED BY <1>2, <1>3, RanGrowsTracked

\* The worker is done with an item.
LEMMA WorkerFinishTracked ==
    ASSUME IInv, WorkerFinish
    PROVE  Tracked'
  <1>1. /\ Working /\ ~Working' /\ UNCHANGED <<queue, func, cur, submitted, owner, cpc>>
        /\ func \in Items
    BY DEF WorkerFinish, Working, clientVars, IInv, TypeOK
  <1>2. CASE func # Flush
    BY <1>1, <1>2, RanGrowsTracked DEF WorkerFinish
  <1>3. CASE func = Flush
    <2>1. ran' = ran /\ Tracked
      BY <1>3 DEF WorkerFinish, IInv, Tracked
    <2>2. /\ \A d \in Clients : (Pending(d)' <=> Pending(d)) /\ (AwaitsFlush(d)' <=> AwaitsFlush(d))
          /\ \A i : (Known(i)' <=> Known(i)) /\ (HasRun(i)' <=> HasRun(i)) /\ (Queued(i)' <=> Queued(i))
          /\ \A i, j : Ahead(i, j)' <=> Ahead(i, j)
      BY <1>1, <2>1 DEF Pending, AwaitsFlush, Known, HasRun, Queued, Ahead
    <2>3. AllKnown' /\ AllInOrder'
      BY <1>1, <2>1, <2>2 DEF Tracked, AllKnown, AllInOrder
    <2>4. NothingLost'
      BY <1>1, <1>3, <2>1, <2>2, WorkAssumption DEF Tracked, NothingLost, IInv, TypeOK, Flush
    <2>5. FlushBehind'
      BY <1>1, <2>1, <2>2 DEF Tracked, FlushBehind, AwaitsFlush
    <2> QED BY <2>3, <2>4, <2>5 DEF Tracked
  <1> QED BY <1>2, <1>3

\* Every step keeps track of all the items.
LEMMA TrackedStep == IInv /\ [Next]_vars => Tracked'
  <1> SUFFICES ASSUME IInv, [Next]_vars PROVE Tracked'
    OBVIOUS
  <1>0. Tracked /\ TypeOK
    BY DEF IInv, Tracked
  <1>1. ASSUME NEW c \in Clients,
               PushSeesRunning(c) \/ NotifyPush(c) \/ SyncNotify(c) \/ SyncReturn(c)
               \/ StartRunning(c) \/ StartSpawn(c) \/ StartStoreId(c)
               \/ StopTerminate(c) \/ StopNotify(c) \/ StopJoin(c)
        PROVE  Tracked'
    <2>1. UNCHANGED <<queue, ran, func, cur, submitted, owner>>
      BY <1>1 DEF PushSeesRunning, NotifyPush, SyncNotify, SyncReturn, StartRunning, StartSpawn,
                  StartStoreId, StopTerminate, StopNotify, StopJoin
    <2>2. Working' <=> Working
      BY <1>1 DEF PushSeesRunning, NotifyPush, SyncNotify, SyncReturn, StartRunning, StartSpawn,
                  StartStoreId, StopTerminate, StopNotify, StopJoin, Wake, Working, IInv,
                  PhasesOfSwitch
    <2>3. \A d \in Clients : (Pending(d)' <=> Pending(d)) /\ (AwaitsFlush(d)' => AwaitsFlush(d))
      BY <1>0, <1>1 DEF PushSeesRunning, NotifyPush, SyncNotify, SyncReturn, StartRunning,
                  StartSpawn, StartStoreId, StopTerminate, StopNotify, StopJoin, Goto, TypeOK,
                  Pending, AwaitsFlush
    <2> QED BY <1>0, <2>1, <2>2, <2>3, NoItemMoves
  <1>2. ASSUME NEW c \in Clients,
               CallSynchronize(c) \/ SetWorkerModeAsync(c) \/ SetWorkerModeSync(c) \/ CallReset(c)
        PROVE  Tracked'
    <2>1. UNCHANGED <<queue, ran, func, cur, submitted, owner, wpc>>
      BY <1>2 DEF CallSynchronize, SetWorkerModeAsync, SetWorkerModeSync, CallReset
    <2>2. \A d \in Clients : (Pending(d)' <=> Pending(d)) /\ (AwaitsFlush(d)' => AwaitsFlush(d))
      BY <1>0, <1>2 DEF CallSynchronize, SetWorkerModeAsync, SetWorkerModeSync, CallReset, Goto,
                  TypeOK, Pending, AwaitsFlush
    <2> QED BY <1>0, <2>1, <2>2, NoItemMoves DEF Working
  <1>3. ASSUME WorkerWaitTest \/ WorkerSleep \/ SpuriousWake \/ WorkerTestTerminate
        PROVE  Tracked'
    <2>1. UNCHANGED <<queue, ran, func, cur, submitted, owner, cpc>> /\ (Working' <=> Working)
      BY <1>3 DEF WorkerWaitTest, WorkerSleep, SpuriousWake, WorkerTestTerminate, clientVars,
                  Working
    <2> QED BY <1>0, <2>1, NoItemMoves DEF Pending, AwaitsFlush
  <1>4. ASSUME UNCHANGED vars
        PROVE  Tracked'
    BY <1>0, <1>4, NoItemMoves DEF vars, Working, Pending, AwaitsFlush
  <1> QED
    BY <1>1, <1>2, <1>3, <1>4, CallPushWorkTracked, PushRunsInlineTracked, PushToQueueTracked,
       SyncPushFlushTracked, WorkerPopTracked, WorkerNestedPushTracked, WorkerFinishTracked
       DEF Next, WorkerStep, ClientStep

-----------------------------------------------------------------------------
\* The inductive invariant holds in every reachable state of the executor.
THEOREM ExecutorInvariant == Spec => []IInv
  <1>1. IInv /\ [Next]_vars => IInv'
    BY TypeStep, ControlStep, TrackedStep DEF IInv, Control, Tracked
  <1> QED BY InitIInv, <1>1, PTL DEF Spec

\* TypeOK: every variable of the executor keeps its type.
THEOREM TypeCorrect == Spec => []TypeOK
  <1>1. IInv => TypeOK
    BY DEF IInv
  <1> QED BY <1>1, ExecutorInvariant, PTL

\* RunsInOrder: the work of one client runs in the order of its push_work calls, at most once,
\* whether the worker or, in synchronous mode, the client itself runs it.
THEOREM RunsInOrderHolds == Spec => []RunsInOrder
  <1>1. IInv => RunsInOrder
    BY DEF IInv, AllInOrder, Ahead, RunsInOrder
  <1> QED BY <1>1, ExecutorInvariant, PTL

\* StoppedIsDrained: once stop_worker returned, no thread and no queued work is left.
THEOREM StoppedIsDrainedHolds == Spec => []StoppedIsDrained
  <1>1. IInv => StoppedIsDrained
    BY DEF IInv, StateOfWorker, StoppedIsDrained
  <1> QED BY <1>1, ExecutorInvariant, PTL

\* NeverPopsEmpty: run_worker never dereferences the null pointer of an empty queue.
THEOREM NeverPopsEmptyHolds == Spec => []NeverPopsEmpty
  <1>1. IInv => NeverPopsEmpty
    BY DEF IInv, WorkerSeesWork, NeverPopsEmpty
  <1> QED BY <1>1, ExecutorInvariant, PTL

\* SynchronizeDrains: synchronize() returns only when all the work its client submitted has
\* run to its end, although it only looks at the queue being empty.
THEOREM SynchronizeDrainsHolds == Spec => SynchronizeDrains
  <1>1. ASSUME IInv, [Next]_vars, NEW c \in Clients, cpc[c] = "waitEmpty", cpc'[c] = "idle"
        PROVE  \A i \in 1 .. submitted : owner[i] = c => HasRun(i)
    <2>1. queue = <<>>
      BY <1>1 DEF Next, vars, WorkerStep, ClientStep, CallPushWork, PushRunsInline,
           PushSeesRunning, PushToQueue, NotifyPush, CallSynchronize, SyncPushFlush, SyncNotify,
           SyncReturn, SetWorkerModeAsync, StartRunning, StartSpawn, StartStoreId,
           SetWorkerModeSync, CallReset, StopTerminate, StopNotify, StopJoin, WorkerWaitTest,
           WorkerSleep, SpuriousWake, WorkerTestTerminate, WorkerPop, WorkerNestedPush,
           WorkerFinish, clientVars, Goto, IInv, TypeOK
    <2>2. \A i : ~Queued(i)
      BY <2>1 DEF Queued
    <2>3. \A i \in 1 .. submitted : i \in 1 .. MaxWork
      BY <1>1, WorkAssumption DEF IInv, TypeOK
    <2>4. ASSUME NEW i \in 1 .. submitted, owner[i] = c, ~HasRun(i)
          PROVE  FALSE
      <3>1. ~(Working /\ func = i)
        BY <1>1, <2>2, <2>3, <2>4 DEF IInv, FlushBehind
      <3>2. PICK d \in Clients : Pending(d) /\ cur[d] = i
        BY <1>1, <2>2, <2>4, <3>1 DEF IInv, NothingLost
      <3>3. d = c
        BY <1>1, <2>4, <3>2 DEF IInv, AllKnown
      <3> QED BY <1>1, <3>2, <3>3 DEF Pending
    <2> QED BY <2>4
  <1>2. IInv /\ [Next]_vars =>
          [\A c \in Clients : cpc[c] = "waitEmpty" /\ cpc'[c] = "idle"
             => \A i \in 1 .. submitted : owner[i] = c => HasRun(i)]_vars
    BY <1>1
  <1> QED BY <1>2, ExecutorInvariant, PTL DEF Spec, SynchronizeDrains

-----------------------------------------------------------------------------
(* The safety behind WorkRuns: no wake-up is lost *)

\* A worker that is asleep, or about to be, with work in the queue or a stop requested, has a
\* client that has yet to notify it.
NoLostWakeUp ==
    wpc \in {"toSleep", "asleep"} =>
      /\ queue # <<>> => \E c \in Clients : cpc[c] \in {"notify", "flushNotify"}
      /\ state = "TERMINATE" => \E c \in Clients : cpc[c] = "stopNotify"

\* The worker holds cv_mutex from the test of cv.wait's predicate to its sleep.
HoldsCvMutex == wpc = "toSleep" => mutex

WakeInv == NoLostWakeUp /\ HoldsCvMutex

\* Every step of the clients and of the worker preserves it: a client stores its work or its
\* stop before it takes cv_mutex to notify.
LEMMA WakeStep == IInv /\ WakeInv /\ [Next]_vars => WakeInv'
  <1> SUFFICES ASSUME IInv, WakeInv, [Next]_vars PROVE WakeInv'
    OBVIOUS
  <1>0. TypeOK /\ PhasesOfSwitch /\ StateOfWorker /\ WorkerSeesWork
    BY DEF IInv
  <1> USE <1>0 DEF WakeInv, NoLostWakeUp, HoldsCvMutex, TypeOK, Goto
  <1>1. ASSUME NEW c \in Clients, NEW b \in BOOLEAN, CallPushWork(c, b)
        PROVE  WakeInv'
    BY <1>1 DEF CallPushWork
  <1>2. ASSUME NEW c \in Clients, PushRunsInline(c)
        PROVE  WakeInv'
    BY <1>2 DEF PushRunsInline
  <1>3. ASSUME NEW c \in Clients, PushSeesRunning(c)
        PROVE  WakeInv'
    BY <1>3 DEF PushSeesRunning
  <1>4. ASSUME NEW c \in Clients, PushToQueue(c)
        PROVE  WakeInv'
    BY <1>4 DEF PushToQueue
  <1>5. ASSUME NEW c \in Clients, NotifyPush(c)
        PROVE  WakeInv'
    BY <1>5 DEF NotifyPush, Wake
  <1>6. ASSUME NEW c \in Clients, SyncPushFlush(c)
        PROVE  WakeInv'
    BY <1>6 DEF SyncPushFlush
  <1>7. ASSUME NEW c \in Clients, SyncNotify(c)
        PROVE  WakeInv'
    BY <1>7 DEF SyncNotify, Wake
  <1>8. ASSUME NEW c \in Clients, SyncReturn(c)
        PROVE  WakeInv'
    BY <1>8 DEF SyncReturn
  <1>9. ASSUME NEW c \in Clients, StartRunning(c)
        PROVE  WakeInv'
    BY <1>9 DEF StartRunning
  <1>10. ASSUME NEW c \in Clients, StartSpawn(c)
        PROVE  WakeInv'
    BY <1>10 DEF StartSpawn
  <1>11. ASSUME NEW c \in Clients, StartStoreId(c)
        PROVE  WakeInv'
    BY <1>11 DEF StartStoreId
  <1>12. ASSUME NEW c \in Clients, StopTerminate(c)
        PROVE  WakeInv'
    BY <1>12 DEF StopTerminate
  <1>13. ASSUME NEW c \in Clients, StopNotify(c)
        PROVE  WakeInv'
    BY <1>13 DEF StopNotify, Wake
  <1>14. ASSUME NEW c \in Clients, StopJoin(c)
        PROVE  WakeInv'
    BY <1>14 DEF StopJoin
  <1>15. ASSUME NEW c \in Clients, CallSynchronize(c)
        PROVE  WakeInv'
    BY <1>15 DEF CallSynchronize
  <1>16. ASSUME NEW c \in Clients, SetWorkerModeAsync(c)
        PROVE  WakeInv'
    BY <1>16 DEF SetWorkerModeAsync
  <1>17. ASSUME NEW c \in Clients, SetWorkerModeSync(c)
        PROVE  WakeInv'
    BY <1>17 DEF SetWorkerModeSync
  <1>18. ASSUME NEW c \in Clients, CallReset(c)
        PROVE  WakeInv'
    BY <1>18 DEF CallReset
  <1>19. ASSUME WorkerWaitTest
        PROVE  WakeInv'
    BY <1>19 DEF WorkerWaitTest, clientVars
  <1>20. ASSUME WorkerSleep
        PROVE  WakeInv'
    BY <1>20 DEF WorkerSleep, clientVars
  <1>21. ASSUME SpuriousWake
        PROVE  WakeInv'
    BY <1>21 DEF SpuriousWake, clientVars
  <1>22. ASSUME WorkerTestTerminate
        PROVE  WakeInv'
    BY <1>22 DEF WorkerTestTerminate, clientVars
  <1>23. ASSUME WorkerPop
        PROVE  WakeInv'
    BY <1>23 DEF WorkerPop, clientVars
  <1>24. ASSUME WorkerNestedPush
        PROVE  WakeInv'
    BY <1>24 DEF WorkerNestedPush, clientVars
  <1>25. ASSUME WorkerFinish
        PROVE  WakeInv'
    BY <1>25 DEF WorkerFinish, clientVars
  <1>26. ASSUME UNCHANGED vars
        PROVE  WakeInv'
    BY <1>26 DEF vars
  <1> QED
    BY <1>1, <1>2, <1>3, <1>4, <1>5, <1>6, <1>7, <1>8, <1>9, <1>10, <1>11, <1>12, <1>13,
       <1>14, <1>15, <1>16, <1>17, <1>18, <1>19, <1>20, <1>21, <1>22, <1>23, <1>24, <1>25,
       <1>26
       DEF Next, WorkerStep, ClientStep

\* No wake-up is lost, whenever the push falls between the worker's test and its sleep.
THEOREM NoLostWakeUpHolds == Spec => []NoLostWakeUp
  <1>1. Init => WakeInv
    BY DEF Init, WakeInv, NoLostWakeUp, HoldsCvMutex
  <1>2. WakeInv => NoLostWakeUp
    BY DEF WakeInv
  <1> QED BY <1>1, <1>2, WakeStep, ExecutorInvariant, PTL DEF Spec
==============================================================================
