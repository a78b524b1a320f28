-------------------------- MODULE FetchQueueProofs --------------------------
(***************************************************************************)
(* Proofs about FetchQueue, for queues of every size that the assertions   *)
(* of SystemMemoryManager and dispatch_constants allow: types are kept,    *)
(* the prefetcher processes the units in order and intact, the host does   *)
(* not overwrite a command that is still to be read, and an exec_buf has   *)
(* the cmddat queue for itself.                                            *)
(*                                                                         *)
(* The host has no pointer to compare issue_fifo_wr_ptr with, so the       *)
(* argument is one of counting.  The commands in the issue queue are the   *)
(* entries of the prefetch queue, at most one that the host has written    *)
(* and not entered, and at most one whose read is in flight.  The host's   *)
(* and the prefetcher's pointers walk over them in the same way (V, with   *)
(* a second lap counted from IssueSize on) and lose less than a command    *)
(* at the end of the queue, once.  That the entry just read is published   *)
(* instead of the next one keeps the prefetch queue from being full again, *)
(* which is what makes Entries + 2 commands enough.                        *)
(***************************************************************************)
EXTENDS FetchQueue, Integers, TLAPS

-----------------------------------------------------------------------------
(* The prefetch queue *)

\* The i-th slot from r on.
Slot(r, i) == IF r + i >= Entries THEN r + i - Entries ELSE r + i

\* How many entries the host may still write before it must look at the fence again.
Room ==
    IF devFence = Entries THEN Entries - devPtr
    ELSE IF devPtr <= devFence THEN devFence - devPtr ELSE Entries - devPtr + devFence

\* There are m entries, from rdPtr on. Together with what the host may write they fill the queue only as long as
\* nothing has been read.
EntriesInRing(m) ==
    /\ \A i \in 0 .. Entries - 1 :
         IF i < m THEN fetchQ[Slot(rdPtr, i)].size >= 1 ELSE fetchQ[Slot(rdPtr, i)] = Empty
    /\ (IF devPtr = Entries THEN 0 ELSE devPtr) = Slot(rdPtr, m)
    /\ m + Room <= IF rdAddr = Entries THEN Entries ELSE Entries - 1
    /\ IF rdAddr = Entries THEN rdPtr = 0 /\ devFence = Entries /\ inflight = None
                           ELSE NextEntry(rdAddr) = rdPtr
    /\ hpc # "idle" => hcmd.size >= 1

-----------------------------------------------------------------------------
(* The cmddat queue *)

\* The units that are ready, and those of the pending read behind its header, which a concatenated exec_buf has not.
Ready == IF cmdPtr < fence THEN fence - cmdPtr - preamble ELSE 0
Header == IF ppc = "stallBarrier" /\ cmdPtr < fence THEN 0 ELSE preamble
Coming == IF pending = 0 THEN 0 ELSE pending - Header
InCmddat == Ready + Coming

PlacesInCmddat ==
    /\ fence + pending <= CmddatSize
    /\ cmdPtr < fence => cmdPtr + preamble < fence
    /\ pending # 0 => Coming \in 1 .. MaxCmd
    /\ inflight # None => /\ pending # 0 /\ inflight.size = Coming /\ inflight.dst = fence + Header
                          /\ inflight.src + inflight.size = pcieRd

\* The tags continue from the units that are ready to those of the pending read, landed or not.
UnitsInCmddat ==
    /\ \A i \in cmdPtr + preamble .. fence - 1 : cmddat[i] = i - (cmdPtr + preamble)
    /\ pending # 0 /\ inflight = None => \A k \in 0 .. Coming - 1 : cmddat[fence + Header + k] = Ready + k
    /\ inflight # None => \A k \in 0 .. inflight.size - 1 : issueQ[inflight.src + k] = Ready + k

\* Where the prefetcher may be: the pointer is ahead of the fence only after a wrap, until the read has landed.
PrefetcherAt ==
    /\ ppc = "fetch" => cmdPtr <= fence /\ (preamble = 1 => cmdPtr = fence)
    /\ ppc = "hostWait" => cmdPtr = fence /\ pending = 0
    /\ ppc = "process" => cmdPtr < fence
    /\ ppc = "barrier" => cmdPtr >= fence /\ pending # 0
    /\ ppc = "stallBarrier" => pending # 0
    /\ stall = "STALLED" => ppc \in {"fetch", "process"} /\ pending = 0 /\ cmdPtr < fence

Cmddat == PlacesInCmddat /\ UnitsInCmddat /\ PrefetcherAt

-----------------------------------------------------------------------------
(* The issue queue *)

\* The commands that are not read yet: the m entries and the one the host is about to enter.
Issued(m) == IF hpc = "idle" THEN m ELSE m + 1
Cmd(m, i) == IF i < m THEN fetchQ[Slot(rdPtr, i)] ELSE hcmd

\* Where a command of s units begins if the one before it ends at v, and the position in the queue. Addresses go on
\* at IssueSize when the queue wraps.
Begin(v, s) == IF v <= IssueSize /\ v + s > IssueSize THEN IssueSize ELSE v
Real(v) == IF v >= IssueSize THEN v - IssueSize ELSE v

\* V[i] is where command i may begin, T[i] its first tag.
UnitsInIssueQ(m, V, T) ==
    \A i \in 0 .. Issued(m) - 1 :
       LET s == Cmd(m, i).size
       IN /\ V[i + 1] = Begin(V[i], s) + s
          /\ T[i + 1] = T[i] + s
          /\ \A k \in 0 .. s - 1 : issueQ[Real(Begin(V[i], s)) + k] = T[i] + k

\* The space that k commands take at most, without what is lost at the end of the queue.
Budget(k) == k * MaxCmd

Spread(m, V, T) ==
    \A i, j \in 0 .. Issued(m) : i <= j =>
       /\ V[i] <= V[j] /\ T[i] <= T[j] /\ T[j] - T[i] <= V[j] - V[i]
       /\ V[j] - V[i] <= Budget(j - i) + (IF V[i] <= IssueSize /\ V[j] > IssueSize THEN MaxCmd - 1 ELSE 0)

\* The walk goes from the prefetcher's pointer to the host's.
Ends(m, V, T) ==
    /\ V[0] = pcieRd /\ Real(V[Issued(m)]) = issueWr
    /\ T[0] = InCmddat /\ T[Issued(m)] = outstanding

\* The exec_bufs are the last units of the stalling commands; the last one in the cmddat queue is one if the
\* prefetcher stalls.
ExecInCmddat == stall = "STALLED" \/ ppc = "stallBarrier"
ExecsMarked(m, T) ==
    \A t \in Nat : t \in execs <=>
        \/ \E i \in 0 .. Issued(m) - 1 : Cmd(m, i).stall /\ t = T[i + 1] - 1
        \/ ExecInCmddat /\ t = InCmddat - 1

Along(m, V, T) == UnitsInIssueQ(m, V, T) /\ Spread(m, V, T) /\ Ends(m, V, T) /\ ExecsMarked(m, T)

Queues == \E m \in 0 .. Entries : EntriesInRing(m) /\ \E V, T \in [0 .. Entries + 1 -> Nat] : Along(m, V, T)

IInv == TypeOK /\ Cmddat /\ Queues

-----------------------------------------------------------------------------
(* Lemmas on sizes and positions *)

\* What the assumptions on the sizes of the queues say, without a product.
LEMMA Constants ==
    /\ Entries \in Nat /\ Entries >= 2 /\ MaxCmd \in Nat /\ MaxCmd >= 1
    /\ CmddatSize \in Nat /\ CmddatSize >= MaxCmd + MaxCmd
    /\ IssueSize \in Nat /\ MaxCmd <= IssueSize
    /\ TagSpan \in Nat /\ TagSpan = IssueSize + CmddatSize + MaxCmd
    /\ Junk = TagSpan
<1>1. MaxCmd <= MaxCmd * (Entries + 2)
  BY SizeAssumption
<1> QED
  BY <1>1, SizeAssumption DEF TagSpan, Junk

\* The space for k commands grows by one command at a time, and Entries + 2 of them fit into the issue queue.
LEMMA Budgets ==
    /\ \A k \in Nat : Budget(k) \in Nat /\ Budget(k + 1) = Budget(k) + MaxCmd
    /\ \A k, l \in Nat : k <= l => Budget(k) <= Budget(l)
    /\ Budget(0) = 0 /\ Budget(1) = MaxCmd
    /\ Budget(Entries + 2) <= IssueSize
<1>1. ASSUME NEW k \in Nat PROVE Budget(k) \in Nat /\ Budget(k + 1) = Budget(k) + MaxCmd
  BY SizeAssumption DEF Budget
<1>2. ASSUME NEW k \in Nat, NEW l \in Nat, k <= l PROVE Budget(k) <= Budget(l)
  <2>1. l - k \in Nat /\ l = k + (l - k)
    BY <1>2
  <2>2. \A d \in Nat : k * MaxCmd <= (k + d) * MaxCmd
    BY SizeAssumption
  <2> QED
    BY <2>1, <2>2 DEF Budget
<1>3. Budget(0) = 0 /\ Budget(1) = MaxCmd
  BY SizeAssumption DEF Budget
<1>4. Budget(Entries + 2) <= IssueSize
  BY SizeAssumption DEF Budget
<1> QED
  BY <1>1, <1>2, <1>3, <1>4

\* The slots from r on are different places of the prefetch queue, and those from the next entry on are the same ones later.
LEMMA Slots ==
    ASSUME NEW r \in 0 .. Entries - 1
    PROVE  /\ NextEntry(r) \in 0 .. Entries - 1
           /\ \A i \in 0 .. Entries - 1 : Slot(r, i) \in 0 .. Entries - 1
           /\ \A i, j \in 0 .. Entries - 1 : Slot(r, i) = Slot(r, j) => i = j
           /\ Slot(r, 0) = r
           /\ \A i \in 0 .. Entries - 1 : Slot(NextEntry(r), i) = IF i = Entries - 1 THEN r ELSE Slot(r, i + 1)
  BY Constants DEF Slot, NextEntry

\* Two addresses less than a round apart are different positions.
LEMMA RealApart ==
    ASSUME NEW x \in Nat, NEW y \in Nat, x < y, y < x + IssueSize, y < IssueSize + IssueSize
    PROVE  Real(x) # Real(y)
  BY Constants DEF Real

\* The units of a command lie in the queue without a break.
LEMMA RealBlock ==
    ASSUME NEW v \in Nat, NEW s \in Nat, NEW k \in 0 .. s - 1, s <= MaxCmd, Begin(v, s) + s <= IssueSize + IssueSize
    PROVE  /\ Real(Begin(v, s)) + k = Real(Begin(v, s) + k)
           /\ Real(Begin(v, s)) + k \in 0 .. IssueSize - 1
           /\ Begin(v, s) >= v /\ Begin(v, s) \in Nat
           /\ Begin(v, s) + s <= v + s + (IF v <= IssueSize /\ v + s > IssueSize THEN MaxCmd - 1 ELSE 0)
  BY Constants DEF Real, Begin

-----------------------------------------------------------------------------
(* The commands in the issue queue take less than a round *)

\* The first unit that is still to be read, in flight or not.
Origin == IF inflight = None THEN pcieRd ELSE inflight.src

\* A read in flight ends where pcie_read_ptr stands, within the issue queue.
LEMMA Inflight ==
    ASSUME TypeOK, PlacesInCmddat, inflight # None
    PROVE  /\ inflight.src \in 0 .. IssueSize /\ inflight.dst \in 0 .. CmddatSize /\ inflight.size \in 1 .. MaxCmd
           /\ inflight.src + inflight.size = pcieRd /\ pcieRd \in 0 .. IssueSize
  BY DEF TypeOK, PlacesInCmddat, Read

\* Every command is an entry of one unit or more.
LEMMA Sizes ==
    ASSUME TypeOK, NEW m \in 0 .. Entries, EntriesInRing(m)
    PROVE  /\ Issued(m) \in 0 .. Entries + 1
           /\ \A i \in 0 .. Issued(m) - 1 : Cmd(m, i) \in Entry /\ Cmd(m, i).size \in 1 .. MaxCmd
<1>1. Issued(m) \in 0 .. Entries + 1
  BY Constants DEF Issued
<1>2. ASSUME NEW i \in 0 .. Issued(m) - 1
      PROVE  Cmd(m, i) \in Entry /\ Cmd(m, i).size >= 1
  <2>1. CASE i < m
    <3>1. i \in 0 .. Entries - 1 /\ rdPtr \in 0 .. Entries - 1
      BY <1>1, <2>1, Constants DEF TypeOK
    <3>2. Slot(rdPtr, i) \in 0 .. Entries - 1
      BY <3>1, Slots
    <3>3. fetchQ[Slot(rdPtr, i)] \in Entry
      BY <3>2 DEF TypeOK
    <3>4. fetchQ[Slot(rdPtr, i)].size >= 1
      BY <2>1, <3>1 DEF EntriesInRing
    <3> QED
      BY <2>1, <3>3, <3>4 DEF Cmd
  <2>2. CASE ~(i < m)
    <3>1. hpc # "idle"
      BY <1>1, <2>2 DEF Issued
    <3>2. hcmd.size >= 1 /\ hcmd \in Entry
      BY <3>1 DEF EntriesInRing, TypeOK
    <3> QED
      BY <2>2, <3>2 DEF Cmd
  <2> QED
    BY <2>1, <2>2
<1>3. ASSUME NEW e \in Entry, e.size >= 1 PROVE e.size \in 1 .. MaxCmd
  BY <1>3, Constants DEF Entry
<1> QED
  BY <1>1, <1>2, <1>3

\* All that is still to be read, the read in flight included, takes less than a round of the issue queue.
LEMMA Window ==
    ASSUME TypeOK, PlacesInCmddat, NEW m \in 0 .. Entries, EntriesInRing(m),
           NEW V \in [0 .. Entries + 1 -> Nat], NEW T \in [0 .. Entries + 1 -> Nat], Along(m, V, T)
    PROVE  /\ Origin \in 0 .. IssueSize /\ Origin <= V[0] /\ V[0] <= IssueSize /\ V[0] = pcieRd
           /\ V[Issued(m)] - Origin <= Budget(IF hpc = "idle" THEN Entries ELSE Entries + 1)
                                       + (IF V[Issued(m)] > IssueSize THEN MaxCmd - 1 ELSE 0)
           /\ V[Issued(m)] < Origin + IssueSize
           /\ \A i \in 0 .. Issued(m) : V[0] <= V[i] /\ V[i] <= V[Issued(m)] /\ T[0] <= T[i]
           /\ T[Issued(m)] - T[0] <= V[Issued(m)] - V[0]
<1> DEFINE n == Issued(m)
<1>1. n \in 0 .. Entries + 1 /\ Entries \in Nat
  BY Sizes, Constants
<1>2. \A i \in 0 .. n : V[i] \in Nat /\ T[i] \in Nat
  BY <1>1
<1>3. V[0] = pcieRd /\ pcieRd \in 0 .. IssueSize
  BY DEF Along, Ends, TypeOK
<1>4. /\ V[0] <= V[n] /\ T[0] <= T[n] /\ T[n] - T[0] <= V[n] - V[0]
      /\ V[n] - V[0] <= Budget(n - 0) + (IF V[0] <= IssueSize /\ V[n] > IssueSize THEN MaxCmd - 1 ELSE 0)
  <2>1. 0 \in 0 .. n /\ n \in 0 .. n /\ 0 <= n
    BY <1>1
  <2> QED
    BY <2>1 DEF Along, Spread
<1>5. \A i \in 0 .. n : V[0] <= V[i] /\ V[i] <= V[n] /\ T[0] <= T[i]
  <2> SUFFICES ASSUME NEW i \in 0 .. n PROVE V[0] <= V[i] /\ V[i] <= V[n] /\ T[0] <= T[i]
    OBVIOUS
  <2>1. 0 \in 0 .. n /\ n \in 0 .. n /\ 0 <= i /\ i <= n
    BY <1>1
  <2> QED
    BY <2>1 DEF Along, Spread
<1> DEFINE K == IF hpc = "idle" THEN Entries ELSE Entries + 1
           lost == IF V[n] > IssueSize THEN MaxCmd - 1 ELSE 0
<1>6. Origin \in 0 .. IssueSize /\ Origin <= V[0] /\ V[n] - Origin <= Budget(K) + lost
  <2>1. V[n] - V[0] <= Budget(n) + lost
    <3>1. n - 0 = n
      BY <1>1
    <3> QED
      BY <1>3, <1>4, <3>1, Constants
  <2>0. K \in Nat /\ n \in Nat /\ lost \in Nat
    BY <1>1, Constants
  <2>2. Budget(n) \in Nat /\ Budget(K) \in Nat
    <3> HIDE DEF n, K
    <3> QED
      BY <2>0, Budgets
  <2>3. CASE inflight = None
    <3>1. n <= K
      BY <1>1 DEF Issued
    <3>2. Budget(n) <= Budget(K)
      <4> HIDE DEF n, K
      <4> QED
        BY <2>0, <3>1, Budgets
    <3>3. Origin = V[0]
      BY <1>3, <2>3 DEF Origin
    <3>4. V[0] \in Nat /\ V[n] \in Nat /\ Origin \in 0 .. IssueSize
      BY <1>1, <1>2, <1>3, <3>3
    <3> HIDE DEF n, K, lost
    <3>5. V[n] - V[0] <= Budget(K) + lost
      BY <2>0, <2>1, <2>2, <3>2, <3>4
    <3> QED
      BY <3>3, <3>4, <3>5
  <2>4. CASE inflight # None
    <3>1. n + 1 <= K
      <4>1. rdAddr # Entries
        BY <2>4 DEF EntriesInRing
      <4>2. m + Room <= Entries - 1 /\ Room \in Nat
        <5>1. devPtr \in 0 .. Entries /\ devFence \in 0 .. Entries
          BY DEF TypeOK
        <5> QED
          BY <4>1, <5>1, Constants DEF EntriesInRing, Room
      <4> QED
        BY <4>2, <1>1 DEF Issued
    <3>2. Budget(n) + MaxCmd <= Budget(K)
      <4> HIDE DEF n, K
      <4>1. Budget(n + 1) = Budget(n) + MaxCmd
        BY <2>0, Budgets
      <4>2. Budget(n + 1) <= Budget(K)
        BY <2>0, <3>1, Budgets
      <4> QED
        BY <4>1, <4>2
    <3>3. Origin = inflight.src /\ Origin + inflight.size = V[0] /\ inflight.size \in 1 .. MaxCmd
          /\ inflight.src \in 0 .. IssueSize
      BY <1>3, <2>4, Inflight DEF Origin
    <3>4. V[0] \in Nat /\ V[n] \in Nat /\ Origin \in Nat
      BY <1>1, <1>2, <3>3
    <3> HIDE DEF n, K, lost
    <3>5. /\ inflight.size \in Nat /\ inflight.size <= MaxCmd /\ MaxCmd \in Nat
          /\ Origin \in 0 .. IssueSize /\ Origin + inflight.size = V[0]
      BY <3>3, Constants
    <3> DEFINE o == Origin
               z == inflight.size
               v == V[0]
               w == V[n]
               b == Budget(n)
               c == Budget(K)
    <3>6. /\ o \in Nat /\ z \in Nat /\ v \in Nat /\ w \in Nat /\ b \in Nat /\ c \in Nat /\ lost \in Nat
          /\ o + z = v /\ z <= MaxCmd /\ w - v <= b + lost /\ b + MaxCmd <= c /\ MaxCmd \in Nat
      BY <2>0, <2>1, <2>2, <3>2, <3>4, <3>5
    <3>7. o <= v /\ w - o <= c + lost
      <4> HIDE DEF o, z, v, w, b, c
      <4> QED
        BY <3>6
    <3> QED
      BY <3>5, <3>7
  <2> QED
    BY <2>3, <2>4
<1>7. V[n] < Origin + IssueSize
  <2>1. Budget(K) + MaxCmd <= IssueSize /\ Budget(K) \in Nat
    <3>1. K + 1 \in Nat /\ K \in Nat /\ K + 1 <= Entries + 2 /\ Entries + 2 \in Nat
      BY <1>1
    <3>2. Budget(K + 1) = Budget(K) + MaxCmd /\ Budget(K) \in Nat
      BY <3>1, Budgets
    <3>3. Budget(K + 1) <= Budget(Entries + 2) /\ Budget(Entries + 2) \in Nat
      BY <3>1, Budgets
    <3>4. Budget(Entries + 2) <= IssueSize
      BY Budgets
    <3> HIDE DEF K
    <3> QED
      BY <3>2, <3>3, <3>4, Constants, SMTT(30)
  <2>2. V[n] \in Nat /\ lost \in 0 .. MaxCmd - 1
    BY <1>1, <1>2, Constants
  <2>3. Origin \in Nat /\ V[n] - Origin <= Budget(K) + lost
    BY <1>6
  <2>4. MaxCmd \in Nat /\ IssueSize \in Nat
    BY Constants
  <2> HIDE DEF n, K, lost
  <2> QED
    BY <2>1, <2>2, <2>3, <2>4
<1> QED
  BY <1>3, <1>4, <1>5, <1>6, <1>7

\* Where the units of a command are: at addresses from V[0] up to V[Issued(m)], in one piece.
LEMMA UnitPlaces ==
    ASSUME TypeOK, PlacesInCmddat, NEW m \in 0 .. Entries, EntriesInRing(m),
           NEW V \in [0 .. Entries + 1 -> Nat], NEW T \in [0 .. Entries + 1 -> Nat], Along(m, V, T),
           NEW i \in 0 .. Issued(m) - 1, NEW k \in 0 .. Cmd(m, i).size - 1
    PROVE  LET x == Begin(V[i], Cmd(m, i).size) + k
           IN  /\ Real(Begin(V[i], Cmd(m, i).size)) + k = Real(x)
               /\ Real(x) \in 0 .. IssueSize - 1
               /\ x \in Nat /\ V[i] <= x /\ x < V[i + 1] /\ V[0] <= x /\ x < V[Issued(m)]
<1> DEFINE s == Cmd(m, i).size
           n == Issued(m)
<1>1. n \in 0 .. Entries + 1 /\ s \in 1 .. MaxCmd /\ Entries \in Nat
  BY Sizes, Constants
<1>2. i \in 0 .. n /\ i + 1 \in 0 .. n /\ i \in 0 .. Entries + 1 /\ i + 1 \in 0 .. Entries + 1 /\ n \in 0 .. Entries + 1
  <2>1. i \in 0 .. n - 1
    OBVIOUS
  <2> HIDE DEF n
  <2> QED
    BY <1>1, <2>1
<1>3. V[i] \in Nat /\ V[i + 1] \in Nat /\ V[n] \in Nat /\ V[0] \in Nat
  <2> HIDE DEF n
  <2>1. 0 \in 0 .. Entries + 1
    BY <1>1
  <2> QED
    BY <1>2, <2>1
<1>4. V[i + 1] = Begin(V[i], s) + s
  BY DEF Along, UnitsInIssueQ
<1>5. V[0] <= V[i] /\ V[i + 1] <= V[n]
  BY <1>2, Window
<1>6. V[n] <= IssueSize + IssueSize
  <2>1. V[n] < Origin + IssueSize /\ Origin \in 0 .. IssueSize
    BY Window
  <2> HIDE DEF n
  <2> QED
    BY <2>1, <1>3, Constants
<1>7. Begin(V[i], s) \in Nat
  BY <1>1, <1>3, Constants DEF Begin
<1>8. Begin(V[i], s) + s <= IssueSize + IssueSize
  <2> HIDE DEF n, s
  <2> QED
    BY <1>3, <1>4, <1>5, <1>6, Constants, SMTT(30)
<1>9. /\ Real(Begin(V[i], s)) + k = Real(Begin(V[i], s) + k)
      /\ Real(Begin(V[i], s)) + k \in 0 .. IssueSize - 1
      /\ Begin(V[i], s) >= V[i]
  <2> HIDE DEF s, n
  <2>1. s \in Nat /\ s <= MaxCmd
    BY <1>1, Constants
  <2>2. k \in 0 .. s - 1
    BY DEF s
  <2> QED
    BY <1>3, <1>8, <2>1, <2>2, RealBlock
<1> HIDE DEF s, n
<1>10. k \in 0 .. s - 1
  BY DEF s
<1>11. /\ Begin(V[i], s) + k \in Nat /\ V[i] <= Begin(V[i], s) + k /\ Begin(V[i], s) + k < V[i + 1]
       /\ V[0] <= Begin(V[i], s) + k /\ Begin(V[i], s) + k < V[n]
  <2>1. s \in Nat
    BY <1>1, Constants
  <2> QED
    BY <1>3, <1>4, <1>5, <1>7, <1>9, <1>10, <2>1, SMTT(30)
<1> QED
  BY <1>9, <1>11 DEF s, n

\* The units in flight lie in front of them, in one piece as well.
LEMMA FlightPlaces ==
    ASSUME TypeOK, PlacesInCmddat, inflight # None, NEW k \in 0 .. inflight.size - 1
    PROVE  LET x == inflight.src + k
           IN  /\ Real(x) = x /\ x \in 0 .. IssueSize - 1 /\ Origin <= x /\ x < pcieRd
  BY Inflight, Constants DEF Real, Origin

-----------------------------------------------------------------------------
(* Steps that leave the issue queue and the prefetch queue alone *)

pathVars == <<issueQ, issueWr, devPtr, devFence, hpc, hcmd, outstanding, fetchQ, execs, rdAddr, rdPtr, pcieRd>>

\* A step that changes neither of the two queues nor the number of units in the cmddat queue keeps the walk.
LEMMA QueuesKept ==
    ASSUME IInv, UNCHANGED pathVars, inflight' = inflight \/ inflight' = None,
           InCmddat' = InCmddat, ExecInCmddat' <=> ExecInCmddat
    PROVE  Queues'
<1>1. PICK m \in 0 .. Entries : EntriesInRing(m) /\ \E V, T \in [0 .. Entries + 1 -> Nat] : Along(m, V, T)
  BY DEF IInv, Queues
<1>2. PICK V \in [0 .. Entries + 1 -> Nat], T \in [0 .. Entries + 1 -> Nat] : Along(m, V, T)
  BY <1>1
<1>3. EntriesInRing(m)'
  BY <1>1 DEF EntriesInRing, pathVars, Room, NextEntry, Slot
<1>4. Issued(m)' = Issued(m) /\ \A i : Cmd(m, i)' = Cmd(m, i)
  BY DEF pathVars, Issued, Cmd, Slot
<1>5. UnitsInIssueQ(m, V, T)'
  <2>1. issueQ' = issueQ
    BY DEF pathVars
  <2> QED
    BY <1>2, <1>4, <2>1 DEF Along, UnitsInIssueQ, Real, Begin
<1>6. Spread(m, V, T)'
  BY <1>2, <1>4 DEF Along, Spread, Budget
<1>7. Ends(m, V, T)'
  BY <1>2, <1>4 DEF Along, Ends, Real, pathVars
<1>8. ExecsMarked(m, T)'
  BY <1>2, <1>4 DEF Along, ExecsMarked, pathVars
<1>9. Along(m, V, T)'
  BY <1>5, <1>6, <1>7, <1>8 DEF Along
<1> QED
  BY <1>3, <1>9 DEF Queues

\* The prefetcher's steps that issue and process nothing: the units only change from coming to ready.
LEMMA QuietStep ==
    ASSUME IInv, FetchWhileStalled \/ FetchNothing \/ BarrierDone \/ BarrierAndStall \/ StallOnHost
    PROVE  IInv'
<1>1. /\ TypeOK /\ PlacesInCmddat /\ UnitsInCmddat /\ PrefetcherAt
  BY DEF IInv, Cmddat
<1>2. UNCHANGED pathVars /\ UNCHANGED <<cmddat, inflight, preamble>>
  BY DEF FetchWhileStalled, FetchNothing, BarrierDone, BarrierAndStall, StallOnHost, pathVars, hostVars
<1>3. /\ cmdPtr \in 0 .. CmddatSize /\ fence \in 0 .. CmddatSize /\ pending \in Nat /\ preamble \in {0, 1}
      /\ pending <= MaxCmd + preamble
  BY <1>1, Constants DEF TypeOK
<1>4. CASE UNCHANGED <<cmdPtr, fence, pending>> /\ ppc # "stallBarrier" /\ ppc' # "stallBarrier" /\ ppc # "barrier"
           /\ (stall' = "STALLED" <=> stall = "STALLED")
           /\ stall' \in {"NOT_STALLED", "STALL_NEXT", "STALLED"}
           /\ ppc' \in {"fetch", "process", "barrier", "hostWait"}
           /\ PrefetcherAt'
  <2>1. Ready' = Ready /\ Header' = Header /\ Coming' = Coming
    BY <1>2, <1>4 DEF Ready, Header, Coming
  <2>2. PlacesInCmddat' /\ UnitsInCmddat'
    BY <1>1, <1>2, <1>4, <2>1 DEF PlacesInCmddat, UnitsInCmddat, pathVars
  <2>3. TypeOK'
    BY <1>1, <1>2, <1>4 DEF TypeOK, pathVars, Tags, Entry
  <2>4. Queues'
    BY <1>2, <1>4, <2>1, QueuesKept DEF InCmddat, ExecInCmddat
  <2> QED
    BY <1>4, <2>2, <2>3, <2>4 DEF IInv, Cmddat
<1>5. CASE FetchWhileStalled
  BY <1>1, <1>4, <1>5 DEF FetchWhileStalled, PrefetcherAt
<1>6. CASE StallOnHost
  <2>1. UNCHANGED <<cmdPtr, fence, pending, stall>> /\ ppc = "hostWait" /\ ppc' = "fetch"
    BY <1>6 DEF StallOnHost
  <2>2. cmdPtr = fence /\ stall # "STALLED" /\ stall \in {"NOT_STALLED", "STALL_NEXT", "STALLED"}
    BY <1>1, <2>1 DEF PrefetcherAt, TypeOK
  <2>3. PrefetcherAt'
    BY <1>3, <2>1, <2>2 DEF PrefetcherAt
  <2> QED
    BY <1>4, <2>1, <2>2, <2>3
<1>7. CASE FetchNothing
  <2>1. UNCHANGED <<cmdPtr, fence, pending>> /\ ppc = "fetch" /\ stall # "STALLED"
    BY <1>7 DEF FetchNothing
  <2>2. stall' \in {"NOT_STALLED", "STALL_NEXT"}
    BY <1>7 DEF FetchNothing, StallFlag
  <2>3. /\ ppc' \in {"process", "barrier", "hostWait"}
        /\ ppc' = "process" => cmdPtr # fence
        /\ ppc' # "process" => cmdPtr = fence
        /\ ppc' = "barrier" => pending # 0
        /\ ppc' = "hostWait" => pending = 0
    BY <1>7 DEF FetchNothing, cmd_ready
  <2>4. PrefetcherAt'
    BY <1>1, <1>3, <2>1, <2>2, <2>3 DEF PrefetcherAt
  <2> QED
    BY <1>4, <2>1, <2>2, <2>3, <2>4
<1>8. CASE BarrierDone \/ BarrierAndStall
  <2>1. /\ ppc \in {"barrier", "stallBarrier"} /\ inflight = None /\ pending # 0
        /\ cmdPtr' = WrapCmdPtr /\ fence' = fence + pending /\ pending' = 0 /\ ppc' = "process"
    BY <1>1, <1>8 DEF BarrierDone, BarrierAndStall, PrefetcherAt
  <2>2. fence + pending <= CmddatSize /\ Coming = pending - Header /\ Coming \in 1 .. MaxCmd
        /\ (cmdPtr < fence => cmdPtr + preamble < fence)
    BY <1>1, <2>1 DEF PlacesInCmddat, Coming
  <2> DEFINE C == /\ cmdPtr' \in 0 .. CmddatSize /\ cmdPtr' + preamble < fence' /\ Ready' = Ready + Coming
                  /\ \A i \in cmdPtr' + preamble .. fence' - 1 : cmddat[i] = i - (cmdPtr' + preamble)
  <2>3. ASSUME cmdPtr < fence PROVE C
    <3>1. cmdPtr' = cmdPtr /\ ppc = "stallBarrier" /\ Header = 0 /\ Coming = pending
          /\ Ready = fence - cmdPtr - preamble
      BY <1>1, <1>3, <2>1, <2>2, <2>3 DEF WrapCmdPtr, PrefetcherAt, Header, Ready
    <3>2. Ready' = Ready + Coming /\ Coming' = 0 /\ cmdPtr' < fence' /\ cmdPtr' + preamble < fence'
      BY <1>2, <1>3, <2>1, <2>2, <2>3, <3>1 DEF Ready, Coming
    <3>3. \A i \in cmdPtr + preamble .. fence + pending - 1 : cmddat[i] = i - (cmdPtr + preamble)
      <4> SUFFICES ASSUME NEW i \in cmdPtr + preamble .. fence + pending - 1
                   PROVE  cmddat[i] = i - (cmdPtr + preamble)
        OBVIOUS
      <4>1. CASE i < fence
        BY <1>1, <1>3, <4>1 DEF UnitsInCmddat
      <4>2. CASE i >= fence
        <5>1. i - fence \in 0 .. Coming - 1 /\ i = fence + Header + (i - fence)
          BY <1>3, <3>1, <4>2
        <5>2. cmddat[fence + Header + (i - fence)] = Ready + (i - fence)
          BY <1>1, <2>1, <5>1 DEF UnitsInCmddat
        <5>3. cmddat[i] = Ready + (i - fence)
          BY <5>1, <5>2
        <5> QED
          BY <1>3, <3>1, <5>3
      <4> QED
        BY <1>3, <4>1, <4>2
    <3>4. ASSUME NEW i \in cmdPtr' + preamble .. fence' - 1
          PROVE  cmddat[i] = i - (cmdPtr' + preamble)
      <4>1. i \in cmdPtr + preamble .. fence + pending - 1
        BY <1>3, <2>1, <3>1
      <4> QED
        BY <3>1, <3>3, <4>1
    <3> QED
      BY <3>1, <3>2, <3>3, <3>4, <1>3
  <2>4. ASSUME ~(cmdPtr < fence) PROVE C
    <3>1. cmdPtr' = fence /\ Header = preamble /\ Coming = pending - preamble /\ Ready = 0
      BY <1>3, <2>1, <2>2, <2>4 DEF WrapCmdPtr, Header, Ready
    <3>2. Ready' = Ready + Coming /\ cmdPtr' + preamble < fence'
      BY <1>2, <1>3, <2>1, <2>2, <3>1 DEF Ready
    <3>3. ASSUME NEW i \in fence + preamble .. fence + pending - 1
          PROVE  cmddat[i] = i - (fence + preamble)
      <4>1. i - (fence + preamble) \in 0 .. Coming - 1 /\ i = fence + Header + (i - (fence + preamble))
        BY <1>3, <3>1
      <4>2. cmddat[fence + Header + (i - (fence + preamble))] = Ready + (i - (fence + preamble))
        BY <1>1, <2>1, <4>1 DEF UnitsInCmddat
      <4>3. cmddat[i] = Ready + (i - (fence + preamble))
        BY <4>1, <4>2
      <4> QED
        BY <1>3, <3>1, <4>3
    <3>4. ASSUME NEW i \in cmdPtr' + preamble .. fence' - 1
          PROVE  cmddat[i] = i - (cmdPtr' + preamble)
      <4>1. i \in fence + preamble .. fence + pending - 1
        BY <1>3, <2>1, <3>1
      <4> QED
        BY <3>1, <3>3, <4>1
    <3> QED
      BY <3>1, <3>2, <3>3, <3>4, <1>3
  <2>5. C
    BY <2>3, <2>4
  <2>6. fence' \in 0 .. CmddatSize /\ cmdPtr' < fence' /\ Coming' = 0
    BY <1>3, <2>1, <2>2, <2>5, Constants DEF Coming
  <2>7. PlacesInCmddat' /\ UnitsInCmddat'
    <3>1. fence' + pending' <= CmddatSize /\ inflight' = None
      BY <2>1, <2>6, <1>2, Constants
    <3> QED
      BY <1>2, <2>1, <2>5, <2>6, <3>1 DEF PlacesInCmddat, UnitsInCmddat
  <2>8. /\ stall' \in {"NOT_STALLED", "STALL_NEXT", "STALLED"}
        /\ ExecInCmddat' <=> ExecInCmddat
    <3>1. CASE BarrierDone
      <4>1. ppc = "barrier" /\ stall \in {"NOT_STALLED", "STALL_NEXT"}
        BY <1>1, <3>1 DEF BarrierDone, PrefetcherAt, TypeOK
      <4>2. stall' \in {"NOT_STALLED", "STALL_NEXT"}
        BY <3>1, <4>1 DEF BarrierDone, StallFlag
      <4> QED
        BY <2>1, <4>1, <4>2 DEF ExecInCmddat
    <3>2. CASE BarrierAndStall
      BY <3>2 DEF BarrierAndStall, ExecInCmddat
    <3> QED
      BY <1>8, <3>1, <3>2
  <2>9. PrefetcherAt'
    BY <2>1, <2>6 DEF PrefetcherAt
  <2>10. TypeOK'
    BY <1>1, <1>2, <1>3, <2>1, <2>5, <2>6, <2>8, Constants DEF TypeOK, pathVars, Tags, Entry
  <2>11. Queues'
    <3>1. Ready \in Nat /\ Coming \in Nat
      BY <1>3, <2>2, Constants DEF Ready
    <3>2. InCmddat' = InCmddat
      BY <2>5, <2>6, <3>1 DEF InCmddat
    <3> QED
      BY <1>2, <2>8, <3>2, QueuesKept
  <2> QED
    BY <2>7, <2>9, <2>10, <2>11 DEF IInv, Cmddat
<1> QED
  BY <1>5, <1>6, <1>7, <1>8

-----------------------------------------------------------------------------
(* The host enters a command *)

\* A step that leaves the prefetcher alone leaves the cmddat queue as it is.
LEMMA CmddatKept ==
    ASSUME Cmddat, UNCHANGED <<issueQ, pcieRd, cmddat, fence, cmdPtr, pending, inflight, stall, ppc, preamble>>
    PROVE  Cmddat'
  BY DEF Cmddat, PlacesInCmddat, UnitsInCmddat, PrefetcherAt, Ready, Header, Coming

\* wait_for_fetch_q_space and fetch_queue_write: the command the host had in hand becomes the last entry.
LEMMA HostStepKeeps ==
    ASSUME IInv, HostStep
    PROVE  IInv'
<1>1. TypeOK /\ Cmddat
  BY DEF IInv
<1>2. UNCHANGED <<issueQ, issueWr, outstanding, preamble, execs>> /\ UNCHANGED deviceVars
  BY DEF HostStep, HostReadFence, HostWrap, HostFetchWrite
<1>3. Cmddat'
  BY <1>1, <1>2, CmddatKept DEF deviceVars
<1>4. PICK m \in 0 .. Entries : EntriesInRing(m) /\ \E V, T \in [0 .. Entries + 1 -> Nat] : Along(m, V, T)
  BY DEF IInv, Queues
<1>5. PICK V \in [0 .. Entries + 1 -> Nat], T \in [0 .. Entries + 1 -> Nat] : Along(m, V, T)
  BY <1>4
<1>6. /\ devPtr \in 0 .. Entries /\ devFence \in 0 .. Entries /\ rdAddr \in 0 .. Entries /\ rdPtr \in 0 .. Entries - 1
      /\ fetchQ \in [0 .. Entries - 1 -> Entry] /\ hcmd \in Entry
  BY <1>1 DEF TypeOK
<1>7. InCmddat' = InCmddat /\ ExecInCmddat' = ExecInCmddat
  BY <1>2 DEF deviceVars, InCmddat, Ready, Header, Coming, ExecInCmddat
\* The walk over the commands is the same if the commands are.
<1>8. ASSUME NEW l \in 0 .. Entries, Issued(l)' = Issued(m),
             \A i \in 0 .. Issued(m) - 1 : Cmd(l, i)' = Cmd(m, i)
      PROVE  Along(l, V, T)'
  <2>1. UnitsInIssueQ(l, V, T)'
    BY <1>2, <1>5, <1>8 DEF Along, UnitsInIssueQ, Real, Begin
  <2>2. Spread(l, V, T)'
    BY <1>5, <1>8 DEF Along, Spread, Budget
  <2>3. Ends(l, V, T)'
    BY <1>2, <1>5, <1>7, <1>8 DEF Along, Ends, Real, deviceVars
  <2>4. ExecsMarked(l, T)'
    BY <1>2, <1>5, <1>7, <1>8 DEF Along, ExecsMarked
  <2> QED
    BY <2>1, <2>2, <2>3, <2>4 DEF Along
<1>9. CASE HostReadFence \/ HostWrap
  <2>1. UNCHANGED <<fetchQ, hcmd, rdPtr, rdAddr, inflight>> /\ hpc # "idle" /\ hpc' \in {"reserve", "wrapped"}
    BY <1>2, <1>9 DEF HostReadFence, HostWrap, deviceVars
  <2>2. Issued(m)' = Issued(m) /\ \A i \in 0 .. Issued(m) - 1 : Cmd(m, i)' = Cmd(m, i)
    BY <2>1 DEF Issued, Cmd, Slot
  <2>3. /\ m + Room <= IF rdAddr = Entries THEN Entries ELSE Entries - 1
        /\ (IF devPtr = Entries THEN 0 ELSE devPtr) = Slot(rdPtr, m)
        /\ rdAddr = Entries => rdPtr = 0 /\ devFence = Entries
        /\ rdAddr # Entries => NextEntry(rdAddr) = rdPtr
        /\ hcmd.size >= 1
    BY <1>4, <2>1 DEF EntriesInRing
  <2>4. /\ devPtr' \in 0 .. Entries /\ devFence' \in 0 .. Entries
        /\ (IF devPtr' = Entries THEN 0 ELSE devPtr') = Slot(rdPtr, m)
        /\ m + Room' <= IF rdAddr = Entries THEN Entries ELSE Entries - 1
        /\ rdAddr = Entries => devFence' = Entries
    <3>1. CASE HostReadFence
      BY <1>6, <2>3, <3>1, Constants DEF HostReadFence, Room, Slot, NextEntry
    <3>2. CASE HostWrap
      BY <1>6, <2>3, <3>2, Constants DEF HostWrap, Room, Slot, NextEntry
    <3> QED
      BY <1>9, <3>1, <3>2
  <2>5. EntriesInRing(m)'
    BY <1>4, <2>1, <2>3, <2>4 DEF EntriesInRing, Slot, NextEntry
  <2>6. Along(m, V, T)'
    BY <1>8, <2>2
  <2>7. TypeOK'
    BY <1>1, <1>2, <2>1, <2>4 DEF TypeOK, deviceVars, Tags, Entry
  <2> QED
    BY <1>3, <2>5, <2>6, <2>7 DEF IInv, Queues
<1>10. CASE HostFetchWrite
  <2>1. /\ hpc # "idle" /\ hpc' = "idle" /\ devPtr # devFence /\ devPtr < Entries /\ devPtr' = devPtr + 1
        /\ fetchQ' = [fetchQ EXCEPT ![devPtr] = hcmd] /\ devFence' = devFence /\ hcmd' = Empty
        /\ UNCHANGED <<rdPtr, rdAddr, inflight>>
    BY <1>2, <1>10 DEF HostFetchWrite, deviceVars
  <2>2. /\ m + Room <= IF rdAddr = Entries THEN Entries ELSE Entries - 1
        /\ devPtr = Slot(rdPtr, m) /\ hcmd.size >= 1
    <3>1. devPtr # Entries
      BY <1>6, <2>1, Constants
    <3> QED
      BY <1>4, <2>1, <3>1 DEF EntriesInRing
  <2>3. /\ m + 1 \in 0 .. Entries /\ m \in 0 .. Entries - 1 /\ Room >= 1
        /\ (IF devPtr + 1 = Entries THEN 0 ELSE devPtr + 1) = Slot(rdPtr, m + 1)
        /\ Room' = Room - 1 /\ Room \in Nat
    BY <1>6, <2>1, <2>2, Constants DEF Room, Slot
  <2>4. \A i \in 0 .. Entries - 1 : fetchQ'[Slot(rdPtr, i)] = IF i = m THEN hcmd ELSE fetchQ[Slot(rdPtr, i)]
    <3> SUFFICES ASSUME NEW i \in 0 .. Entries - 1
                 PROVE  fetchQ'[Slot(rdPtr, i)] = IF i = m THEN hcmd ELSE fetchQ[Slot(rdPtr, i)]
      OBVIOUS
    <3>1. Slot(rdPtr, i) \in 0 .. Entries - 1 /\ (Slot(rdPtr, i) = devPtr <=> i = m)
      <4>1. /\ \A j \in 0 .. Entries - 1 : Slot(rdPtr, j) \in 0 .. Entries - 1
            /\ \A j, l \in 0 .. Entries - 1 : Slot(rdPtr, j) = Slot(rdPtr, l) => j = l
        BY <1>6, Slots
      <4>2. Slot(rdPtr, i) \in 0 .. Entries - 1
        BY <4>1
      <4>3. Slot(rdPtr, i) = Slot(rdPtr, m) => i = m
        BY <2>3, <4>1
      <4> QED
        BY <2>2, <4>2, <4>3
    <3> QED
      BY <1>6, <2>1, <3>1
  <2>5. EntriesInRing(m + 1)'
    <3>1. ASSUME NEW i \in 0 .. Entries - 1
          PROVE  IF i < m + 1 THEN fetchQ'[Slot(rdPtr, i)].size >= 1 ELSE fetchQ'[Slot(rdPtr, i)] = Empty
      <4>1. IF i < m THEN fetchQ[Slot(rdPtr, i)].size >= 1 ELSE fetchQ[Slot(rdPtr, i)] = Empty
        BY <1>4 DEF EntriesInRing
      <4>2. (i < m + 1) <=> (i < m \/ i = m)
        OBVIOUS
      <4> QED
        BY <4>1, <4>2, <2>2, <2>4
    <3>2. m + 1 + Room' = m + Room
      BY <2>3
    <3> QED
      BY <1>4, <2>1, <2>2, <2>3, <3>1, <3>2 DEF EntriesInRing, Slot, NextEntry
  <2>6. Issued(m + 1)' = Issued(m) /\ \A i \in 0 .. Issued(m) - 1 : Cmd(m + 1, i)' = Cmd(m, i)
    <3>1. Issued(m + 1)' = m + 1 /\ Issued(m) = m + 1
      BY <2>1 DEF Issued
    <3>2. ASSUME NEW i \in 0 .. m PROVE Cmd(m + 1, i)' = Cmd(m, i)
      <4>1. Cmd(m + 1, i)' = fetchQ'[Slot(rdPtr, i)]
        BY <2>1 DEF Cmd, Slot
      <4>2. Cmd(m, i) = IF i = m THEN hcmd ELSE fetchQ[Slot(rdPtr, i)]
        BY DEF Cmd
      <4> QED
        <5>1. i \in 0 .. Entries - 1
          BY <2>3, Constants
        <5> QED
          BY <2>4, <4>1, <4>2, <5>1
    <3>3. \A i \in 0 .. Issued(m) - 1 : i \in 0 .. m
      BY <3>1
    <3> QED
      BY <3>1, <3>2, <3>3
  <2>7. Along(m + 1, V, T)'
    BY <1>8, <2>3, <2>6
  <2>8. TypeOK'
    <3>1. fetchQ' \in [0 .. Entries - 1 -> Entry] /\ hcmd' \in Entry /\ devPtr' \in 0 .. Entries
      BY <1>6, <2>1, Constants, SMTT(30) DEF Entry, Empty
    <3> QED
      BY <1>1, <1>2, <2>1, <3>1 DEF TypeOK, deviceVars, Tags
  <2> QED
    BY <1>3, <2>3, <2>5, <2>7, <2>8 DEF IInv, Queues
<1> QED
  BY <1>9, <1>10 DEF HostStep

-----------------------------------------------------------------------------
(* The read lands *)

\* A read that lands moves the units to the cmddat queue, and what it leaves behind is no command.
LEMMA LandsKeeps ==
    ASSUME IInv, PcieReadLands
    PROVE  IInv'
<1>1. TypeOK /\ PlacesInCmddat /\ UnitsInCmddat /\ PrefetcherAt
  BY DEF IInv, Cmddat
<1>2. /\ inflight # None /\ inflight' = None
      /\ UNCHANGED <<preamble, issueWr, devPtr, devFence, hpc, hcmd, outstanding, fetchQ, execs, rdAddr, rdPtr, pcieRd,
                     fence, cmdPtr, pending, stall, ppc>>
  BY DEF PcieReadLands
<1> DEFINE src == inflight.src
           dst == inflight.dst
           size == inflight.size
<1>3. /\ cmddat' = [i \in 0 .. CmddatSize - 1 |->
                      IF i >= dst /\ i < dst + size THEN issueQ[(src + i) - dst] ELSE cmddat[i]]
      /\ issueQ' = [i \in 0 .. IssueSize - 1 |-> IF i >= src /\ i < src + size THEN Junk ELSE issueQ[i]]
  BY <1>1 DEF PcieReadLands, TypeOK
<1>4. /\ src \in 0 .. IssueSize /\ dst \in 0 .. CmddatSize /\ size \in 1 .. MaxCmd /\ src + size = pcieRd
      /\ pcieRd \in 0 .. IssueSize /\ src + size <= IssueSize
  BY <1>1, <1>2, Inflight, Constants
<1>5. /\ size = Coming /\ dst = fence + Header /\ pending # 0 /\ Coming = pending - Header /\ fence + pending <= CmddatSize
      /\ Header \in {0, 1} /\ cmdPtr \in 0 .. CmddatSize /\ fence \in 0 .. CmddatSize /\ pending \in Nat
      /\ preamble \in {0, 1}
  BY <1>1, <1>2, Constants DEF PlacesInCmddat, TypeOK, Coming, Header
<1>6. Ready' = Ready /\ Header' = Header /\ Coming' = Coming /\ ExecInCmddat' = ExecInCmddat
  BY <1>2 DEF Ready, Header, Coming, ExecInCmddat
<1>7. TypeOK'
  <2>1. ASSUME NEW i \in 0 .. CmddatSize - 1 PROVE cmddat'[i] \in Tags \cup {Junk}
    <3>1. CASE i >= dst /\ i < dst + size
      <4>1. (src + i) - dst \in 0 .. IssueSize - 1
        <5> HIDE DEF src, dst, size
        <5> QED
          BY <1>4, <3>1, Constants
      <4>2. issueQ[(src + i) - dst] \in Tags \cup {Junk}
        BY <1>1, <4>1 DEF TypeOK
      <4> QED
        BY <1>3, <3>1, <4>2
    <3>2. CASE ~(i >= dst /\ i < dst + size)
      BY <1>1, <1>3, <3>2 DEF TypeOK
    <3> QED
      BY <3>1, <3>2
  <2>2. cmddat' \in [0 .. CmddatSize - 1 -> Tags \cup {Junk}]
    BY <1>3, <2>1
  <2>3. issueQ' \in [0 .. IssueSize - 1 -> Tags \cup {Junk}]
    BY <1>1, <1>3 DEF TypeOK
  <2> QED
    BY <1>1, <1>2, <2>2, <2>3 DEF TypeOK, Tags, Entry
<1>8. UnitsInCmddat'
  <2>1. ASSUME NEW i \in cmdPtr + preamble .. fence - 1 PROVE cmddat'[i] = i - (cmdPtr + preamble)
    <3>1. i \in 0 .. CmddatSize - 1 /\ ~(i >= dst)
      <4> HIDE DEF dst
      <4> QED
        BY <1>5, Constants
    <3>2. cmddat'[i] = cmddat[i]
      BY <1>3, <3>1
    <3> QED
      BY <1>1, <3>2 DEF UnitsInCmddat
  <2>2. ASSUME NEW k \in 0 .. Coming - 1 PROVE cmddat'[fence + Header + k] = Ready + k
    <3>1. fence + Header + k \in 0 .. CmddatSize - 1 /\ fence + Header + k = dst + k /\ k \in 0 .. size - 1
      <4> HIDE DEF dst, size
      <4> QED
        BY <1>5, Constants
    <3>2. dst + k >= dst /\ dst + k < dst + size /\ (src + (dst + k)) - dst = src + k
      <4> HIDE DEF src, dst, size
      <4> QED
        BY <1>4, <3>1
    <3>3. cmddat'[dst + k] = issueQ[src + k]
      BY <1>3, <3>1, <3>2
    <3>4. issueQ[src + k] = Ready + k
      BY <1>1, <1>2, <3>1 DEF UnitsInCmddat
    <3> QED
      BY <3>1, <3>3, <3>4
  <2> QED
    BY <1>2, <1>6, <2>1, <2>2 DEF UnitsInCmddat
<1>9. PlacesInCmddat' /\ PrefetcherAt'
  BY <1>1, <1>2, <1>6 DEF PlacesInCmddat, PrefetcherAt
<1>10. PICK m \in 0 .. Entries : EntriesInRing(m) /\ \E V, T \in [0 .. Entries + 1 -> Nat] : Along(m, V, T)
  BY DEF IInv, Queues
<1>11. PICK V \in [0 .. Entries + 1 -> Nat], T \in [0 .. Entries + 1 -> Nat] : Along(m, V, T)
  BY <1>10
<1>12. EntriesInRing(m)'
  BY <1>2, <1>10 DEF EntriesInRing, Room, NextEntry, Slot
<1>13. Issued(m)' = Issued(m) /\ \A i : Cmd(m, i)' = Cmd(m, i)
  BY <1>2 DEF Issued, Cmd, Slot
<1>14. UnitsInIssueQ(m, V, T)'
  <2> SUFFICES ASSUME NEW i \in 0 .. Issued(m) - 1, NEW k \in 0 .. Cmd(m, i).size - 1
               PROVE  issueQ'[Real(Begin(V[i], Cmd(m, i).size)) + k] = T[i] + k
    BY <1>11, <1>13 DEF Along, UnitsInIssueQ, Real, Begin
  <2> DEFINE x == Begin(V[i], Cmd(m, i).size) + k
  <2>1. /\ Real(Begin(V[i], Cmd(m, i).size)) + k = Real(x) /\ Real(x) \in 0 .. IssueSize - 1
        /\ x \in Nat /\ V[0] <= x /\ x < V[Issued(m)]
    BY <1>1, <1>10, <1>11, UnitPlaces
  <2>2. /\ V[0] = pcieRd /\ V[Issued(m)] < src + IssueSize
    BY <1>1, <1>2, <1>10, <1>11, Window DEF Origin
  <2>3. V[Issued(m)] \in Nat
    BY <1>1, <1>10, Sizes
  <2>4. ~(Real(x) >= src /\ Real(x) < src + size)
    <3> SUFFICES ASSUME Real(x) >= src, Real(x) < src + size PROVE FALSE
      OBVIOUS
    <3> HIDE DEF x, src, size
    <3>1. Real(x) \in Nat /\ src \in Nat /\ size \in Nat /\ src + size <= IssueSize /\ src + size = V[0]
      BY <1>4, <2>1, <2>2, Constants
    <3>2. x < src + IssueSize /\ src + size <= x
      <4> DEFINE w == V[Issued(m)]
      <4>1. w \in Nat /\ x \in Nat /\ x < w /\ w < src + IssueSize /\ V[0] <= x
        BY <2>1, <2>2, <2>3
      <4> HIDE DEF w
      <4> QED
        BY <3>1, <4>1, Constants
    <3> QED
      BY <2>1, <3>1, <3>2, Constants DEF Real
  <2>5. issueQ'[Real(x)] = issueQ[Real(x)]
    BY <1>3, <2>1, <2>4
  <2>6. issueQ[Real(Begin(V[i], Cmd(m, i).size)) + k] = T[i] + k
    BY <1>11 DEF Along, UnitsInIssueQ
  <2> QED
    BY <2>1, <2>5, <2>6
<1>15. Along(m, V, T)'
  <2>1. Spread(m, V, T)'
    BY <1>11, <1>13 DEF Along, Spread, Budget
  <2>2. Ends(m, V, T)'
    BY <1>2, <1>6, <1>11, <1>13 DEF Along, Ends, Real, InCmddat
  <2>3. ExecsMarked(m, T)'
    BY <1>2, <1>6, <1>11, <1>13 DEF Along, ExecsMarked, InCmddat
  <2> QED
    BY <1>14, <2>1, <2>2, <2>3 DEF Along
<1> QED
  BY <1>7, <1>8, <1>9, <1>12, <1>15 DEF IInv, Cmddat, Queues

-----------------------------------------------------------------------------
(* The host writes a command *)

\* A new command fits between the last one and the first unit that is still to be read.
LEMMA Fits ==
    ASSUME TypeOK, PlacesInCmddat, NEW m \in 0 .. Entries, EntriesInRing(m), hpc = "idle",
           NEW V \in [0 .. Entries + 1 -> Nat], NEW T \in [0 .. Entries + 1 -> Nat], Along(m, V, T),
           NEW s \in 1 .. MaxCmd
    PROVE  LET v == V[m]
               w == Begin(V[m], s) + s
           IN  /\ v \in Nat /\ w \in Nat /\ Begin(V[m], s) \in Nat /\ v <= Begin(V[m], s)
               /\ w < Origin + IssueSize /\ w < IssueSize + IssueSize
               /\ Real(Begin(V[m], s)) = issue_queue_reserve(s)
               /\ Real(w) = IF issue_queue_reserve(s) + s >= IssueSize THEN 0 ELSE issue_queue_reserve(s) + s
               /\ issue_queue_reserve(s) \in 0 .. IssueSize - 1 /\ issue_queue_reserve(s) + s <= IssueSize
               /\ v - V[0] + s <= IssueSize
<1> DEFINE v == V[m]
           b == Begin(V[m], s)
           o == Origin
           B == Budget(Entries)
<1>1. Issued(m) = m /\ m \in 0 .. Entries + 1
  BY Constants DEF Issued
<1>2. /\ o \in 0 .. IssueSize /\ o <= V[0] /\ V[0] <= IssueSize
      /\ v - o <= B + (IF v > IssueSize THEN MaxCmd - 1 ELSE 0)
      /\ V[0] <= v
  <2>1. 0 \in 0 .. Issued(m) /\ Issued(m) \in 0 .. Issued(m)
    BY <1>1
  <2> QED
    BY <1>1, <2>1, Window
<1>3. v \in Nat /\ V[0] \in Nat
  BY <1>1, Constants
<1>4. B \in Nat /\ B + MaxCmd + MaxCmd <= IssueSize
  <2>1. Budget(Entries + 1) = B + MaxCmd /\ B \in Nat
    BY Constants, Budgets
  <2>2. Budget(Entries + 1 + 1) = Budget(Entries + 1) + MaxCmd
    <3>1. Entries + 1 \in Nat
      BY Constants
    <3> QED
      BY <3>1, Budgets
  <2>3. Entries + 1 + 1 = Entries + 2
    BY Constants
  <2> QED
    BY <2>1, <2>2, <2>3, Budgets, Constants
<1>5. Real(v) = issueWr /\ issueWr \in 0 .. IssueSize - 1
  BY <1>1 DEF Along, Ends, TypeOK
<1>6. MaxCmd \in Nat /\ IssueSize \in Nat /\ s \in Nat /\ 1 <= s /\ s <= MaxCmd /\ MaxCmd <= IssueSize
  BY Constants
<1>7. b = IF v <= IssueSize /\ v + s > IssueSize THEN IssueSize ELSE v
  BY DEF Begin
<1>8. b \in Nat /\ v <= b /\ b + s < o + IssueSize /\ v - V[0] + s <= IssueSize
  <2> HIDE DEF v, b, o, B
  <2>1. v + s <= o + B + MaxCmd + MaxCmd - 1 /\ (v <= IssueSize => v + s <= o + B + MaxCmd)
    BY <1>2, <1>3, <1>4, <1>6
  <2>2. CASE v <= IssueSize /\ v + s > IssueSize
    BY <1>2, <1>3, <1>4, <1>6, <1>7, <2>1, <2>2
  <2>3. CASE ~(v <= IssueSize /\ v + s > IssueSize)
    BY <1>2, <1>3, <1>4, <1>6, <1>7, <2>1, <2>3
  <2> QED
    BY <2>2, <2>3
<1>9. b + s < IssueSize + IssueSize
  <2> HIDE DEF b, o
  <2> QED
    BY <1>2, <1>6, <1>8
<1>10. Real(b) = issue_queue_reserve(s)
  <2>1. issueWr = IF v >= IssueSize THEN v - IssueSize ELSE v
    BY <1>5 DEF Real
  <2>2. Real(b) = IF b >= IssueSize THEN b - IssueSize ELSE b
    BY DEF Real
  <2> HIDE DEF v, b
  <2> QED
    BY <1>3, <1>6, <1>7, <1>8, <1>9, <2>1, <2>2 DEF issue_queue_reserve
<1>11. /\ Real(b + s) = IF Real(b) + s >= IssueSize THEN 0 ELSE Real(b) + s
       /\ Real(b) \in 0 .. IssueSize - 1 /\ Real(b) + s <= IssueSize
  <2> HIDE DEF v, b
  <2> QED
    BY <1>3, <1>6, <1>7, <1>8, <1>9 DEF Real
<1> QED
  BY <1>3, <1>6, <1>8, <1>9, <1>10, <1>11

\* The units in the cmddat queue, ready or coming, are no more than it has places for.
LEMMA InCmddatFits ==
    ASSUME TypeOK, PlacesInCmddat
    PROVE  /\ InCmddat \in 0 .. CmddatSize /\ Ready \in Nat /\ Coming \in Nat /\ InCmddat = Ready + Coming
           /\ Header \in {0, 1}
<1>1. /\ cmdPtr \in 0 .. CmddatSize /\ fence \in 0 .. CmddatSize /\ pending \in Nat /\ preamble \in {0, 1}
      /\ fence + pending <= CmddatSize /\ (pending # 0 => Coming \in 1 .. MaxCmd)
      /\ (cmdPtr < fence => cmdPtr + preamble < fence)
  BY Constants DEF TypeOK, PlacesInCmddat
<1>2. Ready \in 0 .. fence
  BY <1>1 DEF Ready
<1>3. Header \in {0, 1}
  BY <1>1 DEF Header
<1>4. Coming \in 0 .. pending
  <2>1. Coming = IF pending = 0 THEN 0 ELSE pending - Header
    BY DEF Coming
  <2> QED
    BY <1>1, <1>3, <2>1, Constants
<1> QED
  BY <1>1, <1>2, <1>3, <1>4, Constants DEF InCmddat

\* issue_queue_reserve and issue_queue_push_back: the walk is one command longer and nothing on it is overwritten.
LEMMA IssueKeeps ==
    ASSUME IInv, NEW size \in 1 .. MaxCmd, NEW st \in BOOLEAN, HostIssue(size, st)
    PROVE  IInv'
<1>1. TypeOK /\ PlacesInCmddat /\ UnitsInCmddat /\ PrefetcherAt
  BY DEF IInv, Cmddat
<1>2. PICK m \in 0 .. Entries : EntriesInRing(m) /\ \E V, T \in [0 .. Entries + 1 -> Nat] : Along(m, V, T)
  BY DEF IInv, Queues
<1>3. PICK V \in [0 .. Entries + 1 -> Nat], T \in [0 .. Entries + 1 -> Nat] : Along(m, V, T)
  BY <1>2
<1> DEFINE wr == issue_queue_reserve(size)
           b == Begin(V[m], size)
           w == b + size
           new == [size |-> size, stall |-> st]
<1>4. /\ hpc = "idle" /\ hpc' = "reserve" /\ hcmd' = new
      /\ outstanding' = outstanding + size /\ outstanding + size <= TagSpan
      /\ issueQ' = [i \in 0 .. IssueSize - 1 |-> IF i >= wr /\ i < wr + size THEN outstanding + (i - wr) ELSE issueQ[i]]
      /\ issueWr' = (IF wr + size >= IssueSize THEN 0 ELSE wr + size)
      /\ execs' = (IF st THEN execs \cup {outstanding + size - 1} ELSE execs)
      /\ UNCHANGED <<preamble, fetchQ, devPtr, devFence>> /\ UNCHANGED deviceVars
  BY <1>1 DEF HostIssue, TypeOK
<1>5. /\ V[m] \in Nat /\ w \in Nat /\ b \in Nat /\ V[m] <= b
      /\ w < Origin + IssueSize /\ w < IssueSize + IssueSize
      /\ Real(b) = wr /\ Real(w) = (IF wr + size >= IssueSize THEN 0 ELSE wr + size)
      /\ wr \in 0 .. IssueSize - 1 /\ wr + size <= IssueSize
      /\ V[m] - V[0] + size <= IssueSize
  BY <1>1, <1>2, <1>3, <1>4, Fits
<1>6. /\ Issued(m) = m /\ Issued(m)' = m + 1 /\ m + 1 \in 0 .. Entries + 1 /\ m \in 0 .. Entries + 1
      /\ 0 \in 0 .. Entries + 1 /\ size \in Nat
  BY <1>4, Constants DEF Issued
<1>7. \A i \in 0 .. m : Cmd(m, i)' = IF i = m THEN new ELSE Cmd(m, i)
  BY <1>4 DEF Cmd, Slot, deviceVars
<1>8a. PICK V2 \in [0 .. Entries + 1 -> Nat] : (\A i \in 0 .. m : V2[i] = V[i]) /\ V2[m + 1] = w
  <2>1. \A i \in 0 .. m : i \in 0 .. Entries + 1 /\ i # m + 1
    BY <1>6, Constants
  <2> HIDE DEF w
  <2>2. [V EXCEPT ![m + 1] = w] \in [0 .. Entries + 1 -> Nat]
    BY <1>5
  <2> WITNESS [V EXCEPT ![m + 1] = w] \in [0 .. Entries + 1 -> Nat]
  <2> QED
    BY <1>6, <2>1
<1>8b. PICK T2 \in [0 .. Entries + 1 -> Nat] : (\A i \in 0 .. m : T2[i] = T[i]) /\ T2[m + 1] = outstanding + size
  <2>1. \A i \in 0 .. m : i \in 0 .. Entries + 1 /\ i # m + 1
    BY <1>6, Constants
  <2>2. outstanding + size \in Nat
    BY <1>1, <1>6, Constants DEF TypeOK
  <2>3. [T EXCEPT ![m + 1] = outstanding + size] \in [0 .. Entries + 1 -> Nat]
    BY <2>2
  <2> WITNESS [T EXCEPT ![m + 1] = outstanding + size] \in [0 .. Entries + 1 -> Nat]
  <2> QED
    BY <1>6, <2>1
<1>8. /\ \A i \in 0 .. m : V2[i] = V[i] /\ T2[i] = T[i]
      /\ V2[m + 1] = w /\ T2[m + 1] = outstanding + size
  BY <1>8a, <1>8b
<1>9. Ready' = Ready /\ Header' = Header /\ Coming' = Coming /\ (ExecInCmddat' <=> ExecInCmddat) /\ InCmddat' = InCmddat
  BY <1>4 DEF deviceVars, Ready, Header, Coming, ExecInCmddat, InCmddat
<1>10. /\ V[0] = pcieRd /\ pcieRd \in 0 .. IssueSize /\ Origin \in 0 .. IssueSize /\ Origin <= V[0] /\ V[0] <= V[m]
       /\ T[m] = outstanding /\ outstanding \in Nat /\ T[0] = InCmddat /\ V[0] \in Nat
       /\ T[m] - T[0] <= V[m] - V[0] /\ T[m] \in Nat /\ T[0] \in Nat
  <2>1. 0 \in 0 .. Issued(m) /\ Issued(m) \in 0 .. Issued(m)
    BY <1>6, Constants
  <2>2. V[0] = pcieRd /\ T[m] = outstanding /\ T[0] = InCmddat
    BY <1>3, <1>6 DEF Along, Ends
  <2>3. outstanding \in Nat /\ pcieRd \in 0 .. IssueSize
    BY <1>1, Constants DEF TypeOK
  <2>4. Origin \in 0 .. IssueSize /\ Origin <= V[0] /\ V[0] <= V[m] /\ T[m] - T[0] <= V[m] - V[0]
    BY <1>1, <1>2, <1>3, <1>6, <2>1, Window
  <2> QED
    BY <1>6, <2>2, <2>3, <2>4
\* What is still to be read is not overwritten.
<1>11. ASSUME NEW x \in Nat, Origin <= x, x < V[m], Real(x) \in 0 .. IssueSize - 1
       PROVE  issueQ'[Real(x)] = issueQ[Real(x)]
  <2>1. ~(Real(x) >= wr /\ Real(x) < wr + size)
    <3> SUFFICES ASSUME Real(x) >= wr, Real(x) < wr + size PROVE FALSE
      OBVIOUS
    <3> DEFINE y == b + (Real(x) - wr)
               r == Real(x)
               o == Origin
               v == V[m]
    <3>1. w = b + size
      OBVIOUS
    <3>2. y \in Nat /\ b <= y /\ y < w /\ Real(y) = r
      <4> HIDE DEF wr, b, w, r
      <4>1. r \in Nat /\ r >= wr /\ r < wr + size /\ wr \in Nat /\ b \in Nat /\ w = b + size /\ size \in Nat
        BY <1>5, <1>6, <1>11, <3>1 DEF r
      <4>2. wr = IF b >= IssueSize THEN b - IssueSize ELSE b
        BY <1>5 DEF Real
      <4>3. y = b + (r - wr)
        BY DEF r
      <4>4. r < IssueSize /\ IssueSize \in Nat
        BY <1>11, Constants DEF r
      <4> HIDE DEF y
      <4>5. CASE b >= IssueSize
        <5>1. wr = b - IssueSize
          BY <4>2, <4>5
        <5>2. y = r + IssueSize
          BY <4>1, <4>3, <4>4, <5>1
        <5>3. y \in Nat /\ y >= IssueSize /\ y - IssueSize = r
          BY <4>1, <4>4, <5>2
        <5>4. b <= y /\ y < w
          BY <4>1, <4>4, <5>1, <5>2
        <5> QED
          BY <5>3, <5>4 DEF Real
      <4>6. CASE ~(b >= IssueSize)
        <5>1. wr = b /\ y = r
          BY <4>1, <4>2, <4>3, <4>6
        <5>2. ~(y >= IssueSize)
          BY <4>1, <4>4, <5>1
        <5> QED
          BY <4>1, <5>1, <5>2 DEF Real
      <4> QED
        BY <4>5, <4>6
    <3>3. x < y /\ y < x + IssueSize /\ y < IssueSize + IssueSize
      <4>1. o \in Nat /\ o <= x /\ x < v /\ v \in Nat /\ v <= b /\ b \in Nat /\ w < o + IssueSize /\ w \in Nat
            /\ w < IssueSize + IssueSize
        BY <1>5, <1>10, <1>11
      <4> HIDE DEF o, v, b, w, y
      <4> QED
        BY <3>2, <4>1, <1>11, Constants
    <3> QED
      BY <3>2, <3>3, <1>11, RealApart
  <2> QED
    BY <1>4, <1>11, <2>1
<1>12. UnitsInIssueQ(m, V2, T2)'
  <2>1. ASSUME NEW i \in 0 .. m - 1
        PROVE  LET s == Cmd(m, i)'.size
               IN /\ V2[i + 1] = Begin(V2[i], s) + s
                  /\ T2[i + 1] = T2[i] + s
                  /\ \A k \in 0 .. s - 1 : issueQ'[Real(Begin(V2[i], s)) + k] = T2[i] + k
    <3>1. Cmd(m, i)' = Cmd(m, i) /\ V2[i] = V[i] /\ T2[i] = T[i] /\ V2[i + 1] = V[i + 1] /\ T2[i + 1] = T[i + 1]
      <4>1. i \in 0 .. m /\ i + 1 \in 0 .. m /\ i # m
        OBVIOUS
      <4> QED
        BY <1>7, <1>8, <4>1
    <3> DEFINE s == Cmd(m, i).size
    <3>2. /\ V[i + 1] = Begin(V[i], s) + s /\ T[i + 1] = T[i] + s
          /\ \A k \in 0 .. s - 1 : issueQ[Real(Begin(V[i], s)) + k] = T[i] + k
      BY <1>3, <1>6 DEF Along, UnitsInIssueQ
    <3>3. ASSUME NEW k \in 0 .. s - 1
          PROVE  issueQ'[Real(Begin(V[i], s)) + k] = issueQ[Real(Begin(V[i], s)) + k]
      <4> DEFINE x == Begin(V[i], s) + k
      <4>1. /\ Real(Begin(V[i], s)) + k = Real(x) /\ Real(x) \in 0 .. IssueSize - 1
            /\ x \in Nat /\ V[0] <= x /\ x < V[m]
        <5>1. i \in 0 .. Issued(m) - 1 /\ V[Issued(m)] = V[m]
          BY <1>6
        <5> QED
          BY <1>1, <1>2, <1>3, <5>1, UnitPlaces
      <4>2. Origin <= x
        <5> HIDE DEF x
        <5> QED
          BY <1>10, <4>1, Constants
      <4>3. issueQ'[Real(x)] = issueQ[Real(x)]
        BY <1>11, <4>1, <4>2
      <4> QED
        BY <4>1, <4>3
    <3> QED
      BY <3>1, <3>2, <3>3
  <2>2. LET s == Cmd(m, m)'.size
        IN /\ V2[m + 1] = Begin(V2[m], s) + s
           /\ T2[m + 1] = T2[m] + s
           /\ \A k \in 0 .. s - 1 : issueQ'[Real(Begin(V2[m], s)) + k] = T2[m] + k
    <3>1. Cmd(m, m)'.size = size
      <4>1. m \in 0 .. m
        OBVIOUS
      <4>2. Cmd(m, m)' = new
        BY <1>7, <4>1
      <4> QED
        BY <4>2
    <3>2. V2[m] = V[m] /\ T2[m] = outstanding
      BY <1>8, <1>10
    <3>3. ASSUME NEW k \in 0 .. size - 1 PROVE issueQ'[wr + k] = outstanding + k
      <4>1. wr + k \in 0 .. IssueSize - 1 /\ wr + k >= wr /\ wr + k < wr + size /\ (wr + k) - wr = k
        <5> HIDE DEF wr
        <5> QED
          BY <1>5, <1>6, Constants
      <4> HIDE DEF wr
      <4> QED
        BY <1>4, <4>1
    <3>4. Real(Begin(V2[m], size)) = wr
      BY <1>5, <3>2
    <3> QED
      BY <1>8, <3>1, <3>2, <3>3, <3>4
  <2>3. ASSUME NEW i \in 0 .. Issued(m)' - 1
        PROVE  LET s == Cmd(m, i)'.size
               IN /\ V2[i + 1] = Begin(V2[i], s) + s
                  /\ T2[i + 1] = T2[i] + s
                  /\ \A k \in 0 .. s - 1 : issueQ'[Real(Begin(V2[i], s)) + k] = T2[i] + k
    <3>1. i \in 0 .. m - 1 \/ i = m
      BY <1>6
    <3> QED
      BY <2>1, <2>2, <3>1
  <2> QED
    BY <2>3 DEF UnitsInIssueQ, Real, Begin
<1>13. Spread(m, V2, T2)'
  <2>1. ASSUME NEW i \in 0 .. m + 1, NEW j \in 0 .. m + 1, i <= j
        PROVE  /\ V2[i] <= V2[j] /\ T2[i] <= T2[j] /\ T2[j] - T2[i] <= V2[j] - V2[i]
               /\ V2[j] - V2[i] <= Budget(j - i) + (IF V2[i] <= IssueSize /\ V2[j] > IssueSize THEN MaxCmd - 1 ELSE 0)
    <3>1. CASE j <= m
      <4>1. i \in 0 .. m /\ j \in 0 .. m
        BY <2>1, <3>1
      <4> QED
        BY <1>3, <1>6, <1>8, <2>1, <4>1 DEF Along, Spread
    <3>2. CASE j = m + 1 /\ i = m + 1
      <4>1. V2[m + 1] \in Nat /\ T2[m + 1] \in Nat
        BY <1>6, <1>8a, <1>8b
      <4>2. Budget(j - i) = 0
        <5>1. j - i = 0
          BY <3>2
        <5> QED
          BY <5>1, Budgets
      <4> HIDE DEF w
      <4> QED
        BY <3>2, <4>1, <4>2, Constants, SMTT(30)
    <3>3. CASE j = m + 1 /\ i <= m
      <4>1. i \in 0 .. m /\ m \in 0 .. m /\ i \in 0 .. Entries + 1
        BY <1>6, <3>3, Constants
      <4> DEFINE u == V[i]
                 v == V[m]
                 B == Budget(m - i)
                 tu == T[i]
                 tv == T[m]
                 I == IssueSize
      <4>2. /\ u <= v /\ tu <= tv /\ tv - tu <= v - u
            /\ v - u <= B + (IF u <= I /\ v > I THEN MaxCmd - 1 ELSE 0)
        BY <1>3, <1>6, <4>1 DEF Along, Spread
      <4>3. /\ V2[i] = u /\ T2[i] = tu /\ V2[j] = w /\ T2[j] = tv + size
        BY <1>8, <1>10, <3>3, <4>1
      <4>4. Budget(j - i) = B + MaxCmd /\ B \in Nat
        <5>1. m - i \in Nat /\ j - i = (m - i) + 1
          BY <3>3, <4>1
        <5> QED
          BY <5>1, Budgets
      <4>5. /\ u \in Nat /\ v \in Nat /\ tu \in Nat /\ tv \in Nat /\ I \in Nat /\ size \in Nat /\ size <= MaxCmd
            /\ MaxCmd \in Nat /\ 1 <= size
        <5>1. u \in Nat /\ tu \in Nat
          BY <4>1
        <5>2. v \in Nat /\ tv \in Nat
          BY <1>6
        <5> QED
          BY <5>1, <5>2, Constants
      <4>6. w = (IF v <= I /\ v + size > I THEN I ELSE v) + size
        BY DEF Begin
      <4>7. /\ u <= w /\ tu <= tv + size /\ tv + size - tu <= w - u
            /\ w - u <= B + MaxCmd + (IF u <= I /\ w > I THEN MaxCmd - 1 ELSE 0)
        <5> HIDE DEF u, v, B, tu, tv, I, w
        <5>1. CASE v <= I /\ v + size > I
          BY <4>2, <4>4, <4>5, <4>6, <5>1
        <5>2. CASE ~(v <= I /\ v + size > I)
          BY <4>2, <4>4, <4>5, <4>6, <5>2
        <5> QED
          BY <5>1, <5>2
      <4> HIDE DEF u, v, B, tu, tv, w
      <4> QED
        BY <1>5, <4>3, <4>4, <4>5, <4>7
    <3> QED
      BY <2>1, <3>1, <3>2, <3>3
  <2> QED
    BY <1>6, <2>1 DEF Spread, Budget
<1>14. Ends(m, V2, T2)'
  <2>1. V2[0] = V[0] /\ T2[0] = T[0]
    BY <1>8
  <2>2. pcieRd' = pcieRd
    BY <1>4 DEF deviceVars
  <2> QED
    BY <1>4, <1>5, <1>6, <1>8, <1>9, <1>10, <2>1, <2>2 DEF Ends, Real
<1>15. ExecsMarked(m, T2)'
  <2>1. ASSUME NEW t \in Nat
        PROVE  t \in execs' <=>
                   \/ \E i \in 0 .. m : Cmd(m, i)'.stall /\ t = T2[i + 1] - 1
                   \/ ExecInCmddat /\ t = InCmddat - 1
    <3>1. t \in execs <=>
                   \/ \E i \in 0 .. m - 1 : Cmd(m, i).stall /\ t = T[i + 1] - 1
                   \/ ExecInCmddat /\ t = InCmddat - 1
      BY <1>3, <1>6 DEF Along, ExecsMarked
    <3>2. ASSUME NEW i \in 0 .. m - 1 PROVE Cmd(m, i)' = Cmd(m, i) /\ T2[i + 1] = T[i + 1]
      <4>1. i \in 0 .. m /\ i + 1 \in 0 .. m /\ i # m
        OBVIOUS
      <4> QED
        BY <1>7, <1>8, <4>1
    <3>3. Cmd(m, m)'.stall = st
      <4>1. m \in 0 .. m
        OBVIOUS
      <4>2. Cmd(m, m)' = new
        BY <1>7, <4>1
      <4> QED
        BY <4>2
    <3>4. \A i : i \in 0 .. m <=> i \in 0 .. m - 1 \/ i = m
      OBVIOUS
    <3>5. (\E i \in 0 .. m : Cmd(m, i)'.stall /\ t = T2[i + 1] - 1)
          <=> \/ \E i \in 0 .. m - 1 : Cmd(m, i).stall /\ t = T[i + 1] - 1
              \/ st /\ t = outstanding + size - 1
      <4>1. ASSUME NEW i \in 0 .. m, Cmd(m, i)'.stall, t = T2[i + 1] - 1
            PROVE  \/ \E h \in 0 .. m - 1 : Cmd(m, h).stall /\ t = T[h + 1] - 1
                   \/ st /\ t = outstanding + size - 1
        <5>1. CASE i \in 0 .. m - 1
          BY <3>2, <4>1, <5>1
        <5>2. CASE i = m
          <6>1. st
            BY <3>3, <4>1, <5>2
          <6>2. t = outstanding + size - 1
            BY <1>6, <1>8, <1>10, <4>1, <5>2
          <6> QED
            BY <6>1, <6>2
        <5> QED
          BY <3>4, <5>1, <5>2
      <4>2. ASSUME NEW i \in 0 .. m - 1, Cmd(m, i).stall, t = T[i + 1] - 1
            PROVE  \E h \in 0 .. m : Cmd(m, h)'.stall /\ t = T2[h + 1] - 1
        <5>1. i \in 0 .. m
          OBVIOUS
        <5> QED
          BY <3>2, <4>2, <5>1
      <4>3. ASSUME st, t = outstanding + size - 1
            PROVE  \E h \in 0 .. m : Cmd(m, h)'.stall /\ t = T2[h + 1] - 1
        <5>1. m \in 0 .. m
          OBVIOUS
        <5>2. t = T2[m + 1] - 1
          BY <1>6, <1>8, <1>10, <4>3
        <5>3. Cmd(m, m)'.stall
          BY <3>3, <4>3
        <5> QED
          BY <5>1, <5>2, <5>3
      <4> QED
        BY <4>1, <4>2, <4>3
    <3>6. t \in execs' <=> t \in execs \/ (st /\ t = outstanding + size - 1)
      BY <1>4
    <3> DEFINE A == \E i \in 0 .. m - 1 : Cmd(m, i).stall /\ t = T[i + 1] - 1
               P == \E i \in 0 .. m : Cmd(m, i)'.stall /\ t = T2[i + 1] - 1
               S == st /\ t = outstanding + size - 1
               E == ExecInCmddat /\ t = InCmddat - 1
    <3>7. (t \in execs <=> A \/ E) /\ (P <=> A \/ S) /\ (t \in execs' <=> t \in execs \/ S)
      BY <3>1, <3>5, <3>6
    <3>8. t \in execs' <=> P \/ E
      <4> HIDE DEF A, P, S, E
      <4> QED
        BY <3>7
    <3> QED
      BY <3>8
  <2>2. 0 .. Issued(m)' - 1 = 0 .. m
    BY <1>6
  <2>3. ASSUME NEW t \in Nat
        PROVE  t \in execs' <=>
                   \/ \E i \in 0 .. Issued(m)' - 1 : Cmd(m, i)'.stall /\ t = T2[i + 1] - 1
                   \/ ExecInCmddat' /\ t = InCmddat' - 1
    BY <1>9, <2>1, <2>2
  <2> QED
    BY <2>3 DEF ExecsMarked
<1>16. EntriesInRing(m)'
  <2>1. hcmd'.size = size
    BY <1>4
  <2>2. size >= 1
    OBVIOUS
  <2> QED
    BY <1>2, <1>4, <2>1, <2>2 DEF EntriesInRing, deviceVars, Slot, Room, NextEntry
<1>17. UnitsInCmddat'
  <2>1. ASSUME inflight # None, NEW k \in 0 .. inflight.size - 1
        PROVE  issueQ'[inflight.src + k] = Ready + k
    <3> DEFINE x == inflight.src + k
    <3>1. Real(x) = x /\ x \in 0 .. IssueSize - 1 /\ Origin <= x /\ x < pcieRd
      BY <1>1, <2>1, FlightPlaces
    <3>2. x < V[m] /\ x \in Nat
      <4> DEFINE v == V[m]
      <4>1. v \in Nat /\ pcieRd \in Nat /\ pcieRd <= v
        BY <1>5, <1>10
      <4> HIDE DEF x, v
      <4>2. x < v /\ x \in Nat
        BY <4>1, <3>1
      <4> QED
        BY <4>2 DEF v
    <3>3. issueQ'[x] = issueQ[x]
      BY <1>11, <3>1, <3>2
    <3>4. issueQ[x] = Ready + k
      BY <1>1, <2>1 DEF UnitsInCmddat
    <3> QED
      BY <3>3, <3>4
  <2> QED
    BY <1>1, <1>4, <1>9, <2>1 DEF UnitsInCmddat, deviceVars
<1>18. PlacesInCmddat' /\ PrefetcherAt'
  BY <1>1, <1>4, <1>9 DEF PlacesInCmddat, PrefetcherAt, deviceVars
<1>19. TypeOK'
  <2>1. outstanding' \in 0 .. IssueSize + CmddatSize
    <3> DEFINE c == InCmddat
               v == V[m]
               u == V[0]
    <3>1. c \in 0 .. CmddatSize
      BY <1>1, InCmddatFits
    <3>2. /\ v \in Nat /\ u \in Nat /\ u <= v /\ v - u + size <= IssueSize /\ outstanding \in Nat
          /\ outstanding - c <= v - u /\ outstanding' = outstanding + size
      BY <1>4, <1>5, <1>10
    <3> HIDE DEF c, v, u
    <3> QED
      BY <1>6, <3>1, <3>2, Constants
  <2>2. \A t \in Nat : t < outstanding + size => t \in Tags
    BY <1>4, <1>6, <1>10, Constants DEF Tags
  <2>3. issueQ' \in [0 .. IssueSize - 1 -> Tags \cup {Junk}]
    <3>1. ASSUME NEW i \in 0 .. IssueSize - 1
          PROVE  (IF i >= wr /\ i < wr + size THEN outstanding + (i - wr) ELSE issueQ[i]) \in Tags \cup {Junk}
      <4>1. issueQ[i] \in Tags \cup {Junk}
        BY <1>1 DEF TypeOK
      <4>2. ASSUME i >= wr, i < wr + size PROVE outstanding + (i - wr) \in Tags
        <5>1. outstanding + (i - wr) \in Nat /\ outstanding + (i - wr) < outstanding + size
          <6> HIDE DEF wr
          <6> QED
            BY <1>5, <1>6, <1>10, <4>2, Constants
        <5> QED
          BY <2>2, <5>1
      <4> QED
        BY <4>1, <4>2
    <3> QED
      BY <1>4, <3>1
  <2>4. issueWr' \in 0 .. IssueSize - 1
    <3> HIDE DEF wr
    <3> QED
      BY <1>4, <1>5, <1>6, Constants
  <2>5. hcmd' \in Entry
    BY <1>4, Constants DEF Entry
  <2>6. execs' \subseteq Tags
    <3>1. outstanding + size - 1 \in Nat /\ outstanding + size - 1 < outstanding + size
      BY <1>6, <1>10
    <3>2. outstanding + size - 1 \in Tags
      BY <2>2, <3>1
    <3> QED
      BY <1>1, <1>4, <3>2 DEF TypeOK
  <2> QED
    BY <1>1, <1>4, <2>1, <2>3, <2>4, <2>5, <2>6 DEF TypeOK, deviceVars, Tags, Entry
<1>20. Along(m, V2, T2)'
  BY <1>12, <1>13, <1>14, <1>15 DEF Along
<1> QED
  BY <1>16, <1>17, <1>18, <1>19, <1>20 DEF IInv, Cmddat, Queues

-----------------------------------------------------------------------------
(* The prefetcher reads an entry and issues the read of its command *)

\* The walk starts one command later, and one round lower if the first command was behind the wrap.
LEMMA Lower ==
    ASSUME NEW v \in Nat, NEW s \in Nat, v > IssueSize, Begin(v, s) + s < IssueSize + IssueSize
    PROVE  /\ Begin(v, s) = v /\ Begin(v - IssueSize, s) = v - IssueSize
           /\ Real(v) = v - IssueSize /\ Real(v - IssueSize) = v - IssueSize
  BY Constants DEF Begin, Real

\* read_from_pcie frees the front entry: the walk loses its first command, whose units the cmddat queue takes over.
LEMMA PopKeeps ==
    ASSUME TypeOK, PlacesInCmddat, NEW m \in 0 .. Entries, EntriesInRing(m),
           NEW V \in [0 .. Entries + 1 -> Nat], NEW T \in [0 .. Entries + 1 -> Nat], Along(m, V, T),
           NEW pre, NEW dst, ReadFromPcie(pre, dst), front # Empty, inflight = None, ~ExecInCmddat,
           UNCHANGED hostVars, execs' = execs,
           InCmddat' = InCmddat + front.size, ExecInCmddat' <=> front.stall
    PROVE  Queues'
<1>1. /\ rdPtr \in 0 .. Entries - 1 /\ fetchQ \in [0 .. Entries - 1 -> Entry] /\ pcieRd \in 0 .. IssueSize
      /\ 0 \in 0 .. Entries - 1
  BY Constants DEF TypeOK
<1>2. /\ NextEntry(rdPtr) \in 0 .. Entries - 1 /\ Slot(rdPtr, 0) = rdPtr
      /\ \A i \in 0 .. Entries - 1 : Slot(rdPtr, i) \in 0 .. Entries - 1
      /\ \A i, j \in 0 .. Entries - 1 : Slot(rdPtr, i) = Slot(rdPtr, j) => i = j
      /\ \A i \in 0 .. Entries - 1 : Slot(NextEntry(rdPtr), i) = IF i = Entries - 1 THEN rdPtr ELSE Slot(rdPtr, i + 1)
  BY <1>1, Slots
<1>3. /\ inflight' = [src |-> PcieStart, dst |-> dst + pre, size |-> front.size]
      /\ pcieRd' = PcieStart + front.size /\ fetchQ' = [fetchQ EXCEPT ![rdPtr] = Empty]
      /\ rdAddr' = rdPtr /\ rdPtr' = NextEntry(rdPtr)
      /\ UNCHANGED <<issueQ, issueWr, devPtr, devFence, hpc, hcmd, outstanding, preamble, execs>>
  BY DEF ReadFromPcie, PublishedPtr, hostVars
<1>4. m \in 1 .. Entries
  <2>1. m # 0
    <3>1. IF 0 < m THEN fetchQ[rdPtr].size >= 1 ELSE fetchQ[rdPtr] = Empty
      BY <1>1, <1>2 DEF EntriesInRing
    <3> QED
      BY <3>1 DEF front
  <2> QED
    BY <2>1, Constants
<1> DEFINE n == Issued(m)
           s == front.size
           b == Begin(V[0], s)
<1>5. /\ n \in 1 .. Entries + 1 /\ Issued(m - 1)' = n - 1 /\ m - 1 \in 0 .. Entries /\ n <= m + 1
      /\ 0 \in 0 .. n - 1 /\ n \in Nat /\ 0 \in 0 .. Entries + 1 /\ 1 \in 0 .. Entries + 1
      /\ \A i \in 0 .. n : i \in 0 .. Entries + 1
  BY <1>3, <1>4, Constants DEF Issued
<1>6. Cmd(m, 0) = front
  BY <1>2, <1>4 DEF Cmd, front
<1>7. s \in 1 .. MaxCmd /\ s \in Nat /\ MaxCmd \in Nat
  <2>1. s \in 1 .. MaxCmd
    BY <1>5, <1>6, Sizes
  <2> QED
    BY <2>1, Constants
<1>8. V[1] = b + s /\ T[1] = T[0] + s
  <2>1. LET z == Cmd(m, 0).size IN V[0 + 1] = Begin(V[0], z) + z /\ T[0 + 1] = T[0] + z
    BY <1>5 DEF Along, UnitsInIssueQ
  <2> QED
    BY <1>6, <2>1
<1>9. /\ V[0] = pcieRd /\ V[0] <= IssueSize /\ V[n] < IssueSize + IssueSize /\ T[0] = InCmddat
      /\ V[n] \in Nat /\ V[0] \in Nat /\ T[0] \in Nat /\ T[n] = outstanding /\ Real(V[n]) = issueWr
  <2>1. V[n] \in Nat /\ V[0] \in Nat /\ T[0] \in Nat
    BY <1>5
  <2>2. V[0] = pcieRd /\ V[0] <= IssueSize /\ V[n] < Origin + IssueSize /\ Origin \in 0 .. IssueSize
    BY Window
  <2>3. V[n] < IssueSize + IssueSize
    <3> HIDE DEF n
    <3> QED
      BY <2>1, <2>2, Constants
  <2> QED
    BY <2>1, <2>2, <2>3 DEF Along, Ends
<1> DEFINE sh == IF V[1] > IssueSize THEN IssueSize ELSE 0
<1>10. /\ PcieStart + s = V[1] - sh /\ sh \in Nat /\ V[1] \in Nat /\ sh <= V[1]
       /\ sh # 0 => sh = IssueSize /\ V[1] > IssueSize
  <2>1. PcieStart = IF V[0] + s > IssueSize THEN 0 ELSE V[0]
    BY <1>9 DEF PcieStart
  <2>2. V[1] = (IF V[0] <= IssueSize /\ V[0] + s > IssueSize THEN IssueSize ELSE V[0]) + s
    BY <1>8 DEF Begin
  <2>3. V[1] \in Nat
    BY <1>5
  <2> DEFINE v == V[0]
             u == V[1]
  <2> HIDE DEF s, v, u
  <2>4. /\ PcieStart = (IF v + s > IssueSize THEN 0 ELSE v) /\ v \in Nat /\ v <= IssueSize
        /\ u = (IF v <= IssueSize /\ v + s > IssueSize THEN IssueSize ELSE v) + s /\ u \in Nat
    BY <1>9, <2>1, <2>2, <2>3 DEF v, u
  <2>5. sh = IF u > IssueSize THEN IssueSize ELSE 0
    BY DEF u
  <2> HIDE DEF sh
  <2>6. /\ PcieStart + s = u - sh /\ sh \in Nat /\ sh <= u
        /\ sh # 0 => sh = IssueSize /\ u > IssueSize
    BY <1>7, <2>4, <2>5, Constants
  <2> QED
    BY <2>3, <2>6 DEF u
\* Everything from the second command on lies at or behind the end of the first.
<1>11. ASSUME NEW i \in 1 .. n PROVE V[i] \in Nat /\ T[i] \in Nat /\ V[1] <= V[i] /\ V[i] <= V[n]
  <2>1. 1 \in 0 .. n /\ i \in 0 .. n /\ n \in 0 .. n /\ 1 <= i /\ i <= n /\ i \in 0 .. Entries + 1
    <3> HIDE DEF n
    <3> QED
      BY <1>5, Constants
  <2> QED
    BY <2>1 DEF Along, Spread
<1> DEFINE W(i) == V[i + 1] - sh
<1>12. ASSUME NEW i \in 0 .. n - 1
       PROVE  i + 1 \in 1 .. n /\ W(i) \in Nat /\ T[i + 1] \in Nat
  <2>1. i + 1 \in 1 .. n
    <3> HIDE DEF n
    <3> QED
      BY <1>5
  <2>2. V[i + 1] \in Nat /\ T[i + 1] \in Nat /\ V[1] <= V[i + 1]
    BY <1>11, <2>1
  <2>3. W(i) \in Nat
    <3> DEFINE v == V[i + 1]
               u == V[1]
    <3>1. v \in Nat /\ u \in Nat /\ u <= v /\ sh \in Nat /\ sh <= u
      BY <1>10, <2>2
    <3> HIDE DEF v, u, sh
    <3> QED
      BY <3>1 DEF v
  <2> QED
    BY <2>1, <2>2, <2>3
<1>13. PICK V2 \in [0 .. Entries + 1 -> Nat] : \A i \in 0 .. n - 1 : V2[i] = W(i)
  <2> DEFINE f == [i \in 0 .. Entries + 1 |-> IF i \in 0 .. n - 1 THEN W(i) ELSE 0]
  <2>1. f \in [0 .. Entries + 1 -> Nat]
    <3> HIDE DEF n, W
    <3> QED
      BY <1>12
  <2>2. \A i \in 0 .. n - 1 : f[i] = W(i)
    <3> HIDE DEF n, W
    <3>1. \A i \in 0 .. n - 1 : i \in 0 .. Entries + 1
      BY <1>5, Constants
    <3> QED
      BY <3>1
  <2> HIDE DEF f, W
  <2> QED
    BY <2>1, <2>2
<1>14. PICK T2 \in [0 .. Entries + 1 -> Nat] : \A i \in 0 .. n - 1 : T2[i] = T[i + 1]
  <2> DEFINE f == [i \in 0 .. Entries + 1 |-> IF i \in 0 .. n - 1 THEN T[i + 1] ELSE 0]
  <2>1. f \in [0 .. Entries + 1 -> Nat]
    <3> HIDE DEF n
    <3> QED
      BY <1>12
  <2>2. \A i \in 0 .. n - 1 : f[i] = T[i + 1]
    <3> HIDE DEF n
    <3>1. \A i \in 0 .. n - 1 : i \in 0 .. Entries + 1
      BY <1>5, Constants
    <3> QED
      BY <3>1
  <2> HIDE DEF f
  <2> QED
    BY <2>1, <2>2
\* The entries that are left.
<1>15. ASSUME NEW i \in 0 .. Entries - 1
       PROVE  fetchQ'[Slot(rdPtr', i)] = IF i = Entries - 1 THEN Empty ELSE fetchQ[Slot(rdPtr, i + 1)]
  <2>1. Slot(rdPtr', i) = IF i = Entries - 1 THEN rdPtr ELSE Slot(rdPtr, i + 1)
    BY <1>2, <1>3
  <2>2. CASE i = Entries - 1
    BY <1>1, <1>3, <2>1, <2>2
  <2>3. CASE i # Entries - 1
    <3>1. i + 1 \in 0 .. Entries - 1 /\ i + 1 # 0
      BY <2>3, Constants
    <3>2. Slot(rdPtr, i + 1) \in 0 .. Entries - 1 /\ Slot(rdPtr, i + 1) # rdPtr
      <4>1. Slot(rdPtr, i + 1) = Slot(rdPtr, 0) => i + 1 = 0
        BY <1>1, <1>2, <3>1
      <4> QED
        BY <1>2, <3>1, <4>1
    <3> QED
      BY <1>1, <1>3, <2>1, <2>3, <3>2
  <2> QED
    BY <2>2, <2>3
<1>16. ASSUME NEW i \in 0 .. n - 2
       PROVE  /\ Cmd(m - 1, i)' = Cmd(m, i + 1)
              /\ i + 1 \in 0 .. n - 1 /\ i \in 0 .. n - 1 /\ i + 2 \in 1 .. n /\ i + 1 \in 1 .. n
  <2>1. i + 1 \in 0 .. n - 1 /\ i \in 0 .. n - 1 /\ i + 2 \in 1 .. n /\ i + 1 \in 1 .. n /\ i \in Nat /\ i + 1 <= m
    <3> HIDE DEF n
    <3> QED
      BY <1>4, <1>5
  <2>2. CASE i < m - 1
    <3>1. i + 1 < m /\ i \in 0 .. Entries - 1 /\ i # Entries - 1
      <4>1. i \in Nat /\ m \in Nat /\ Entries \in Nat /\ m <= Entries /\ 1 <= m
        BY <1>4, <2>1, Constants
      <4>2. \A h \in Nat : h < m - 1 => h + 1 < m /\ h \in 0 .. Entries - 1 /\ h # Entries - 1
        BY <4>1
      <4> QED
        BY <2>2, <4>1, <4>2
    <3>2. Cmd(m - 1, i)' = fetchQ'[Slot(rdPtr', i)]
      BY <2>2 DEF Cmd, Slot
    <3>3. Cmd(m, i + 1) = fetchQ[Slot(rdPtr, i + 1)]
      BY <3>1 DEF Cmd
    <3> QED
      BY <1>15, <2>1, <3>1, <3>2, <3>3
  <2>3. CASE ~(i < m - 1)
    <3>1. ~(i + 1 < m)
      BY <1>4, <2>1, <2>3
    <3> QED
      BY <1>3, <2>1, <2>3, <3>1 DEF Cmd
  <2> QED
    BY <2>2, <2>3
<1>17. EntriesInRing(m - 1)'
  <2>1. ASSUME NEW i \in 0 .. Entries - 1
        PROVE  IF i < m - 1 THEN fetchQ'[Slot(rdPtr', i)].size >= 1 ELSE fetchQ'[Slot(rdPtr', i)] = Empty
    <3>1. CASE i = Entries - 1
      <4>1. ~(i < m - 1)
        BY <1>4, <3>1, Constants
      <4> QED
        BY <1>15, <3>1, <4>1
    <3>2. CASE i # Entries - 1
      <4>1. i + 1 \in 0 .. Entries - 1 /\ (i < m - 1 <=> i + 1 < m)
        BY <1>4, <3>2, Constants
      <4>2. IF i + 1 < m THEN fetchQ[Slot(rdPtr, i + 1)].size >= 1 ELSE fetchQ[Slot(rdPtr, i + 1)] = Empty
        BY <4>1 DEF EntriesInRing
      <4> QED
        BY <1>15, <3>2, <4>1, <4>2
    <3> QED
      BY <3>1, <3>2
  <2>2. Slot(NextEntry(rdPtr), m - 1) = Slot(rdPtr, m)
    <3>1. CASE rdPtr + 1 = Entries
      <4>1. NextEntry(rdPtr) = 0
        BY <3>1 DEF NextEntry
      <4> QED
        BY <1>1, <1>4, <3>1, <4>1, Constants DEF Slot
    <3>2. CASE rdPtr + 1 # Entries
      <4>1. NextEntry(rdPtr) = rdPtr + 1
        BY <3>2 DEF NextEntry
      <4> QED
        BY <1>1, <1>4, <3>2, <4>1, Constants DEF Slot
    <3> QED
      BY <3>1, <3>2
  <2>3. Room' = Room /\ m + Room <= Entries /\ Room \in Nat
    <3>1. devPtr \in 0 .. Entries /\ devFence \in 0 .. Entries
      BY DEF TypeOK
    <3>2. Room \in Nat
      BY <3>1, Constants DEF Room
    <3>3. m + Room <= IF rdAddr = Entries THEN Entries ELSE Entries - 1
      BY DEF EntriesInRing
    <3> QED
      <4>1. Room' = Room
        BY <1>3 DEF Room
      <4> QED
        BY <3>2, <3>3, <4>1, Constants, SMTT(30)
  <2>4. m - 1 + Room' <= Entries - 1 /\ rdAddr' # Entries
    BY <1>1, <1>3, <1>4, <2>3, Constants
  <2>5. (IF devPtr = Entries THEN 0 ELSE devPtr) = Slot(rdPtr, m) /\ (hpc # "idle" => hcmd.size >= 1)
    BY DEF EntriesInRing
  <2>6. NextEntry(rdAddr') = rdPtr'
    BY <1>3
  <2> QED
    BY <1>3, <2>1, <2>2, <2>4, <2>5, <2>6 DEF EntriesInRing, Slot, NextEntry
<1>18. UnitsInIssueQ(m - 1, V2, T2)'
  <2>1. ASSUME NEW i \in 0 .. n - 2
        PROVE  LET z == Cmd(m - 1, i)'.size
               IN /\ V2[i + 1] = Begin(V2[i], z) + z
                  /\ T2[i + 1] = T2[i] + z
                  /\ \A k \in 0 .. z - 1 : issueQ'[Real(Begin(V2[i], z)) + k] = T2[i] + k
    <3> DEFINE z == Cmd(m, i + 1).size
               v == V[i + 1]
               u == V[i + 2]
    <3>1. V2[i] = v - sh /\ V2[i + 1] = u - sh /\ T2[i] = T[i + 1] /\ T2[i + 1] = T[i + 2]
      <4>1. i + 1 + 1 = i + 2
        BY <1>16
      <4> QED
        BY <1>13, <1>14, <1>16, <4>1
    <3>2. /\ V[i + 2] = Begin(v, z) + z /\ T[i + 2] = T[i + 1] + z
          /\ \A k \in 0 .. z - 1 : issueQ[Real(Begin(v, z)) + k] = T[i + 1] + k
      <4>1. i + 1 + 1 = i + 2
        BY <1>16
      <4> QED
        BY <1>16, <4>1 DEF Along, UnitsInIssueQ
    <3>3. Begin(v - sh, z) = Begin(v, z) - sh /\ Real(Begin(v - sh, z)) = Real(Begin(v, z))
          /\ Begin(v, z) \in Nat
      <4>1. v \in Nat /\ u \in Nat /\ V[1] <= v /\ u <= V[n] /\ V[1] \in Nat
        BY <1>10, <1>11, <1>16
      <4>2. z \in Nat
        <5>1. i + 1 \in 0 .. Issued(m) - 1
          BY <1>16
        <5>2. Cmd(m, i + 1).size \in 1 .. MaxCmd
          BY <5>1, Sizes
        <5>3. \A x \in 1 .. MaxCmd : x \in Nat
          BY Constants
        <5> QED
          BY <5>2, <5>3
      <4>3. Begin(v, z) \in Nat
        <5> HIDE DEF v, z
        <5> QED
          BY <4>1, <4>2, Constants DEF Begin
      <4>4. CASE sh = 0
        <5>1. v - sh = v /\ Begin(v, z) - sh = Begin(v, z)
          <6> HIDE DEF v, sh, z
          <6> QED
            BY <4>1, <4>3, <4>4
        <5> HIDE DEF v, sh, z
        <5> QED
          BY <4>3, <5>1
      <4>5. CASE sh # 0
        <5> DEFINE x == V[n]
                   y == V[1]
        <5>1. sh = IssueSize /\ y > IssueSize /\ y \in Nat /\ x \in Nat /\ x < IssueSize + IssueSize /\ u <= x /\ y <= v
              /\ u = Begin(v, z) + z
          BY <1>9, <1>10, <3>2, <4>1, <4>5
        <5> HIDE DEF x, y, v, u, z, sh
        <5>2. v > IssueSize /\ Begin(v, z) + z < IssueSize + IssueSize
          BY <4>1, <4>2, <4>3, <5>1, Constants
        <5> QED
          BY <4>1, <4>2, <4>3, <5>1, <5>2, Lower
      <4> QED
        BY <4>4, <4>5
    <3>4. u - sh = Begin(v - sh, z) + z
      <4>1. u = Begin(v, z) + z /\ z \in Nat
        <5>1. i + 1 \in 0 .. Issued(m) - 1
          BY <1>16
        <5>2. Cmd(m, i + 1).size \in 1 .. MaxCmd
          BY <5>1, Sizes
        <5>3. \A x \in 1 .. MaxCmd : x \in Nat
          BY Constants
        <5> QED
          BY <3>2, <5>2, <5>3
      <4> HIDE DEF u, v, z, sh
      <4> QED
        BY <1>10, <3>3, <4>1
    <3>5. Cmd(m - 1, i)'.size = z
      BY <1>16
    <3> HIDE DEF z, v, u, sh
    <3> QED
      BY <1>3, <3>1, <3>2, <3>3, <3>4, <3>5 DEF u, v
  <2>2. 0 .. Issued(m - 1)' - 1 = 0 .. n - 2
    <3> HIDE DEF n
    <3> QED
      BY <1>5
  <2>3. ASSUME NEW i \in 0 .. Issued(m - 1)' - 1
        PROVE  LET z == Cmd(m - 1, i)'.size
               IN /\ V2[i + 1] = Begin(V2[i], z) + z
                  /\ T2[i + 1] = T2[i] + z
                  /\ \A k \in 0 .. z - 1 : issueQ'[Real(Begin(V2[i], z)) + k] = T2[i] + k
    BY <2>1, <2>2
  <2> QED
    BY <2>3 DEF UnitsInIssueQ, Real, Begin
<1>19. Spread(m - 1, V2, T2)'
  <2>1. ASSUME NEW i \in 0 .. n - 1, NEW j \in 0 .. n - 1, i <= j
        PROVE  /\ V2[i] <= V2[j] /\ T2[i] <= T2[j] /\ T2[j] - T2[i] <= V2[j] - V2[i]
               /\ V2[j] - V2[i] <= Budget(j - i) + (IF V2[i] <= IssueSize /\ V2[j] > IssueSize THEN MaxCmd - 1 ELSE 0)
    <3> DEFINE u == V[i + 1]
               v == V[j + 1]
               tu == T[i + 1]
               tv == T[j + 1]
               B == Budget(j - i)
               I == IssueSize
               y == V[1]
    <3>1. V2[i] = u - sh /\ V2[j] = v - sh /\ T2[i] = tu /\ T2[j] = tv
      BY <1>13, <1>14
    <3>2. i + 1 \in 1 .. n /\ j + 1 \in 1 .. n /\ i + 1 \in 0 .. n /\ j + 1 \in 0 .. n /\ i + 1 <= j + 1
          /\ (j + 1) - (i + 1) = j - i /\ j - i \in Nat
      <4> HIDE DEF n
      <4> QED
        BY <1>5, <2>1
    <3>3. /\ u <= v /\ tu <= tv /\ tv - tu <= v - u
          /\ v - u <= Budget((j + 1) - (i + 1)) + (IF u <= I /\ v > I THEN MaxCmd - 1 ELSE 0)
      BY <3>2 DEF Along, Spread
    <3>4. u \in Nat /\ v \in Nat /\ tu \in Nat /\ tv \in Nat /\ y <= u /\ y \in Nat
      BY <1>10, <1>11, <3>2
    <3>5. B \in Nat /\ Budget((j + 1) - (i + 1)) = B
      BY <3>2, Budgets
    <3>6. sh \in Nat /\ (sh # 0 => sh = I /\ y > I) /\ sh <= y
      BY <1>10
    <3>7. V2[i] <= V2[j] /\ T2[i] <= T2[j] /\ T2[j] - T2[i] <= V2[j] - V2[i]
      <4> HIDE DEF u, v, tu, tv, B, I, y, sh
      <4> QED
        BY <3>1, <3>3, <3>4, <3>6
    <3>8. V2[j] - V2[i] <= B + (IF V2[i] <= IssueSize /\ V2[j] > IssueSize THEN MaxCmd - 1 ELSE 0)
      <4>1. I = IssueSize /\ I \in Nat /\ MaxCmd \in Nat /\ MaxCmd >= 1
        BY Constants
      <4> HIDE DEF u, v, tu, tv, B, I, y, sh
      <4>2. CASE sh = 0
        BY <3>1, <3>3, <3>4, <3>5, <4>1, <4>2
      <4>3. CASE sh # 0
        BY <3>1, <3>3, <3>4, <3>5, <3>6, <4>1, <4>3
      <4> QED
        BY <4>2, <4>3
    <3> QED
      BY <3>7, <3>8
  <2>2. 0 .. Issued(m - 1)' = 0 .. n - 1
    BY <1>5
  <2>3. ASSUME NEW i \in 0 .. Issued(m - 1)', NEW j \in 0 .. Issued(m - 1)', i <= j
        PROVE  /\ V2[i] <= V2[j] /\ T2[i] <= T2[j] /\ T2[j] - T2[i] <= V2[j] - V2[i]
               /\ V2[j] - V2[i] <= Budget(j - i) + (IF V2[i] <= IssueSize /\ V2[j] > IssueSize THEN MaxCmd - 1 ELSE 0)
    BY <2>1, <2>2, <2>3
  <2> QED
    BY <2>3 DEF Spread, Budget
<1>20. Ends(m - 1, V2, T2)'
  <2>1. V2[0] = V[1] - sh /\ T2[0] = T[1]
    <3>1. 0 + 1 = 1 /\ 0 \in 0 .. n - 1
      BY <1>5
    <3> QED
      BY <1>13, <1>14, <3>1
  <2>2. V2[n - 1] = V[n] - sh /\ T2[n - 1] = T[n]
    <3>1. (n - 1) + 1 = n /\ n - 1 \in 0 .. n - 1
      <4> HIDE DEF n
      <4> QED
        BY <1>5
    <3> QED
      BY <1>13, <1>14, <3>1
  <2>3. Real(V[n] - sh) = Real(V[n])
    <3> DEFINE x == V[n]
               y == V[1]
    <3>1. x \in Nat /\ x < IssueSize + IssueSize /\ y <= x /\ y \in Nat
      <4>1. n \in 1 .. n
        BY <1>5
      <4> QED
        BY <1>9, <1>10, <1>11, <4>1
    <3>2. sh \in Nat /\ (sh # 0 => sh = IssueSize /\ y > IssueSize)
      BY <1>10
    <3> HIDE DEF x, y, sh
    <3>3. Real(x - sh) = Real(x)
      BY <3>1, <3>2, Constants DEF Real
    <3> QED
      BY <3>3 DEF x
  <2>4. V2[0] = pcieRd' /\ Real(V2[n - 1]) = issueWr
    BY <1>3, <1>9, <1>10, <2>1, <2>2, <2>3
  <2>5. T2[0] = InCmddat' /\ T2[n - 1] = outstanding
    BY <1>8, <1>9, <2>1, <2>2
  <2>6. V2[Issued(m - 1)'] = V2[n - 1] /\ T2[Issued(m - 1)'] = T2[n - 1]
    BY <1>5
  <2> QED
    BY <1>3, <2>4, <2>5, <2>6 DEF Ends, Real
<1>21. ExecsMarked(m - 1, T2)'
  <2>1. ASSUME NEW t \in Nat
        PROVE  t \in execs' <=>
                   \/ \E i \in 0 .. n - 2 : Cmd(m - 1, i)'.stall /\ t = T2[i + 1] - 1
                   \/ front.stall /\ t = InCmddat' - 1
    <3>1. t \in execs <=> \E i \in 0 .. n - 1 : Cmd(m, i).stall /\ t = T[i + 1] - 1
      BY DEF Along, ExecsMarked
    <3>2. \A i \in 0 .. n - 2 : Cmd(m - 1, i)' = Cmd(m, i + 1) /\ T2[i + 1] = T[i + 2]
      <4> SUFFICES ASSUME NEW i \in 0 .. n - 2 PROVE Cmd(m - 1, i)' = Cmd(m, i + 1) /\ T2[i + 1] = T[i + 2]
        OBVIOUS
      <4>1. i + 1 + 1 = i + 2
        BY <1>16
      <4> QED
        BY <1>14, <1>16, <4>1
    <3>3. InCmddat' - 1 = T[0 + 1] - 1
      <4>1. 0 + 1 = 1
        OBVIOUS
      <4> QED
        BY <1>8, <1>9, <4>1
    <3> DEFINE Old(i) == Cmd(m, i).stall /\ t = T[i + 1] - 1
               New(i) == Cmd(m - 1, i)'.stall /\ t = T2[i + 1] - 1
               F == front.stall /\ t = InCmddat' - 1
    <3>4. \A i \in 0 .. n - 2 : New(i) <=> Old(i + 1)
      <4> SUFFICES ASSUME NEW i \in 0 .. n - 2 PROVE New(i) <=> Old(i + 1)
        OBVIOUS
      <4>1. i + 1 + 1 = i + 2
        BY <1>16
      <4> QED
        BY <3>2, <4>1
    <3>5. F <=> Old(0)
      BY <1>6, <3>3
    <3>6. \A i \in 0 .. n - 1 : i = 0 \/ (i - 1 \in 0 .. n - 2 /\ (i - 1) + 1 = i)
      <4> HIDE DEF n
      <4> QED
        BY <1>5
    <3>7. \A i \in 0 .. n - 2 : i + 1 \in 0 .. n - 1
      BY <1>16
    <3>8. (\E i \in 0 .. n - 1 : Old(i)) <=> (\E i \in 0 .. n - 2 : New(i)) \/ F
      <4>1. ASSUME NEW i \in 0 .. n - 1, Old(i) PROVE (\E h \in 0 .. n - 2 : New(h)) \/ F
        <5> HIDE DEF Old, New, F, n
        <5>1. CASE i = 0
          BY <3>5, <4>1, <5>1
        <5>2. CASE i # 0
          <6>1. i - 1 \in 0 .. n - 2 /\ (i - 1) + 1 = i
            BY <3>6, <5>2
          <6>2. Old((i - 1) + 1)
            BY <4>1, <6>1
          <6> QED
            BY <3>4, <6>1, <6>2
        <5> QED
          BY <5>1, <5>2
      <4>2. ASSUME NEW i \in 0 .. n - 2, New(i) PROVE \E h \in 0 .. n - 1 : Old(h)
        <5> HIDE DEF Old, New, F, n
        <5> QED
          BY <3>4, <3>7, <4>2
      <4>3. ASSUME F PROVE \E h \in 0 .. n - 1 : Old(h)
        <5> HIDE DEF Old, New, F, n
        <5> QED
          BY <1>5, <3>5, <4>3
      <4> HIDE DEF Old, New, F, n
      <4> QED
        BY <4>1, <4>2, <4>3
    <3>9. (t \in execs <=> \E i \in 0 .. n - 1 : Old(i)) /\ execs' = execs
      BY <1>3, <3>1
    <3>10. t \in execs' <=> (\E i \in 0 .. n - 2 : New(i)) \/ F
      <4> HIDE DEF Old, New, F, n
      <4> QED
        BY <3>8, <3>9
    <3> QED
      BY <3>10
  <2>2. 0 .. Issued(m - 1)' - 1 = 0 .. n - 2
    <3> HIDE DEF n
    <3> QED
      BY <1>5
  <2>3. ASSUME NEW t \in Nat
        PROVE  t \in execs' <=>
                   \/ \E i \in 0 .. Issued(m - 1)' - 1 : Cmd(m - 1, i)'.stall /\ t = T2[i + 1] - 1
                   \/ ExecInCmddat' /\ t = InCmddat' - 1
    BY <2>1, <2>2
  <2> QED
    BY <2>3 DEF ExecsMarked
<1>22. Along(m - 1, V2, T2)'
  BY <1>18, <1>19, <1>20, <1>21 DEF Along
<1> QED
  BY <1>5, <1>17, <1>22 DEF Queues

\* What a read for the front entry finds: the units that follow those in the cmddat queue.
LEMMA FrontUnits ==
    ASSUME IInv, front # Empty
    PROVE  /\ front \in Entry /\ front.size \in 1 .. MaxCmd
           /\ PcieStart \in 0 .. IssueSize - 1 /\ PcieStart + front.size <= IssueSize
           /\ \A k \in 0 .. front.size - 1 : issueQ[PcieStart + k] = InCmddat + k
<1>1. PICK m \in 0 .. Entries : EntriesInRing(m) /\ \E V, T \in [0 .. Entries + 1 -> Nat] : Along(m, V, T)
  BY DEF IInv, Queues
<1>2. PICK V \in [0 .. Entries + 1 -> Nat], T \in [0 .. Entries + 1 -> Nat] : Along(m, V, T)
  BY <1>1
<1>3. TypeOK /\ PlacesInCmddat /\ rdPtr \in 0 .. Entries - 1 /\ 0 \in 0 .. Entries - 1
  BY Constants DEF IInv, Cmddat, TypeOK
<1>4. Slot(rdPtr, 0) = rdPtr
  BY <1>3, Slots
<1>5. m # 0
  <2>1. IF 0 < m THEN fetchQ[rdPtr].size >= 1 ELSE fetchQ[rdPtr] = Empty
    BY <1>1, <1>3, <1>4 DEF EntriesInRing
  <2> QED
    BY <2>1 DEF front
<1>6. Cmd(m, 0) = front /\ 0 \in 0 .. Issued(m) - 1
  BY <1>4, <1>5, Constants DEF Cmd, front, Issued
<1> DEFINE s == front.size
<1>7. front \in Entry /\ s \in 1 .. MaxCmd
  BY <1>1, <1>3, <1>6, Sizes
<1>8. \A k \in 0 .. s - 1 : issueQ[Real(Begin(V[0], s)) + k] = T[0] + k
  BY <1>2, <1>6 DEF Along, UnitsInIssueQ
<1>9. V[0] = pcieRd /\ T[0] = InCmddat /\ pcieRd \in 0 .. IssueSize
  BY <1>2, <1>3 DEF Along, Ends, TypeOK
<1>10. PcieStart = Real(Begin(V[0], s)) /\ PcieStart \in 0 .. IssueSize - 1 /\ PcieStart + s <= IssueSize
  <2>1. PcieStart = IF pcieRd + s > IssueSize THEN 0 ELSE pcieRd
    BY DEF PcieStart
  <2>2. Begin(V[0], s) = IF pcieRd <= IssueSize /\ pcieRd + s > IssueSize THEN IssueSize ELSE pcieRd
    BY <1>9 DEF Begin
  <2> HIDE DEF s
  <2> QED
    BY <1>7, <1>9, <2>1, <2>2, Constants DEF Real
<1> QED
  BY <1>7, <1>8, <1>9, <1>10

\* The prefetcher's state after a read was issued behind Ready' units.
LEMMA ReadKeeps ==
    ASSUME IInv, NEW pre \in {0, 1}, ReadFromPcie(pre, fence'), front # Empty, inflight = None, ~ExecInCmddat,
           UNCHANGED hostVars, UNCHANGED <<execs, cmddat>>,
           Ready' = InCmddat, Header' = pre, fence' \in 0 .. CmddatSize, cmdPtr' \in 0 .. CmddatSize,
           fence' + front.size + pre <= CmddatSize, pre <= preamble,
           cmdPtr' < fence' => cmdPtr' + preamble < fence',
           \A i \in cmdPtr' + preamble .. fence' - 1 : cmddat[i] = i - (cmdPtr' + preamble),
           stall' \in {"NOT_STALLED", "STALL_NEXT"},
           ppc' \in {"process", "barrier", "stallBarrier"}, ppc' = "stallBarrier" <=> front.stall,
           ppc' = "process" => cmdPtr' < fence', ppc' = "barrier" => cmdPtr' >= fence'
    PROVE  IInv'
<1>1. TypeOK /\ PlacesInCmddat
  BY DEF IInv, Cmddat
<1> DEFINE s == front.size
           p == PcieStart
<1>2. /\ s \in 1 .. MaxCmd /\ p \in 0 .. IssueSize - 1 /\ p + s <= IssueSize
      /\ \A k \in 0 .. s - 1 : issueQ[p + k] = InCmddat + k
  BY FrontUnits
<1>3. /\ inflight' = [src |-> p, dst |-> fence' + pre, size |-> s] /\ pending' = s + pre
      /\ pcieRd' = p + s /\ fetchQ' = [fetchQ EXCEPT ![rdPtr] = Empty]
      /\ rdAddr' = rdPtr /\ rdPtr' = NextEntry(rdPtr)
      /\ UNCHANGED <<issueQ, issueWr, devPtr, devFence, hpc, hcmd, outstanding, preamble, execs, cmddat>>
  BY DEF ReadFromPcie, PublishedPtr, hostVars
<1>4. inflight'.src = p /\ inflight'.dst = fence' + pre /\ inflight'.size = s
  BY <1>3
<1>5. s \in Nat /\ MaxCmd \in Nat /\ s <= MaxCmd /\ 1 <= s /\ pre \in Nat /\ p \in Nat
      /\ IssueSize \in Nat /\ CmddatSize \in Nat /\ preamble \in {0, 1}
  BY <1>1, <1>2, Constants, SMTT(30) DEF TypeOK
<1>6. pending' # 0 /\ pending' \in Nat /\ pending' <= MaxCmd + preamble /\ Coming' = s
  <2>1. pending' # 0 /\ pending' \in Nat /\ pending' <= MaxCmd + preamble /\ pending' - pre = s
    <3> HIDE DEF s, p
    <3> QED
      BY <1>3, <1>5
  <2> QED
    BY <2>1 DEF Coming
<1>7. InCmddat' = InCmddat + s
  BY <1>6 DEF InCmddat
<1>8. ExecInCmddat' <=> front.stall
  BY DEF ExecInCmddat
<1>9. Queues'
  <2>1. PICK m \in 0 .. Entries : EntriesInRing(m) /\ \E V, T \in [0 .. Entries + 1 -> Nat] : Along(m, V, T)
    BY DEF IInv, Queues
  <2>2. PICK V \in [0 .. Entries + 1 -> Nat], T \in [0 .. Entries + 1 -> Nat] : Along(m, V, T)
    BY <2>1
  <2> QED
    BY <1>1, <1>7, <1>8, <2>1, <2>2, PopKeeps
<1>10. PlacesInCmddat'
  <2>1. fence' + pending' <= CmddatSize
    <3> DEFINE f == fence'
    <3>1. f \in Nat /\ f + s + pre <= CmddatSize
      BY Constants
    <3> HIDE DEF s, p, f
    <3>2. f + (s + pre) <= CmddatSize
      BY <1>5, <3>1
    <3> QED
      BY <1>3, <3>2 DEF f
  <2>2. cmdPtr' < fence' => cmdPtr' + preamble' < fence'
    BY <1>3
  <2>3. /\ pending' # 0 /\ inflight'.size = Coming' /\ inflight'.dst = fence' + Header'
        /\ inflight'.src + inflight'.size = pcieRd'
    BY <1>3, <1>4, <1>6
  <2>4. Coming' \in 1 .. MaxCmd
    BY <1>2, <1>6
  <2> QED
    BY <2>1, <2>2, <2>3, <2>4 DEF PlacesInCmddat
<1>11. inflight' \in Read
  <2>1. p \in 0 .. IssueSize /\ fence' + pre \in 0 .. CmddatSize /\ s \in 1 .. MaxCmd
    <3> DEFINE f == fence'
    <3>1. f \in Nat /\ f + s + pre <= CmddatSize
      BY Constants
    <3>2. p \in 0 .. IssueSize - 1 /\ s \in 1 .. MaxCmd
      BY <1>2
    <3> HIDE DEF p, s, f
    <3>3. f + pre \in 0 .. CmddatSize /\ p \in 0 .. IssueSize
      BY <1>5, <3>1, <3>2
    <3> QED
      BY <3>2, <3>3 DEF f
  <2> QED
    BY <1>3, <2>1 DEF Read
<1>12. UnitsInCmddat'
  <2>1. \A i \in cmdPtr' + preamble' .. fence' - 1 : cmddat'[i] = i - (cmdPtr' + preamble')
    BY <1>3
  <2>2. \A k \in 0 .. inflight'.size - 1 : issueQ'[inflight'.src + k] = Ready' + k
    BY <1>2, <1>3, <1>4
  <2>3. inflight' # None
    BY <1>11, NoneAssumption
  <2> QED
    BY <2>1, <2>2, <2>3 DEF UnitsInCmddat
<1>13. PrefetcherAt'
  BY <1>6 DEF PrefetcherAt
<1>14. TypeOK'
  <2>1. fetchQ' \in [0 .. Entries - 1 -> Entry] /\ rdAddr' \in 0 .. Entries /\ rdPtr' \in 0 .. Entries - 1
    <3>1. rdPtr \in 0 .. Entries - 1 /\ fetchQ \in [0 .. Entries - 1 -> Entry]
      BY <1>1 DEF TypeOK
    <3>2. Empty \in Entry
      BY Constants DEF Empty, Entry
    <3> QED
      BY <1>3, <3>1, <3>2, Constants DEF NextEntry
  <2>2. pcieRd' \in 0 .. IssueSize /\ pending' \in 0 .. MaxCmd + preamble
    BY <1>2, <1>3, <1>5, <1>6, Constants
  <2> QED
    BY <1>1, <1>3, <1>11, <2>1, <2>2 DEF TypeOK, Tags, Entry, Read
<1> QED
  BY <1>9, <1>10, <1>12, <1>13, <1>14 DEF IInv, Cmddat

\* fetch_q_get_cmds issues a read with nothing pending.
LEMMA FetchIssueKeeps ==
    ASSUME IInv, FetchIssue
    PROVE  IInv'
<1>1. TypeOK /\ PlacesInCmddat /\ UnitsInCmddat /\ PrefetcherAt
  BY DEF IInv, Cmddat
<1> DEFINE s == front.size
           f == ReadPlace(preamble, fence)
<1>2. /\ ppc = "fetch" /\ stall # "STALLED" /\ front # Empty /\ pending = 0
      /\ (fence + s + preamble <= CmddatSize \/ cmdPtr = fence)
      /\ ReadFromPcie(preamble, fence') /\ fence' = f
      /\ stall' \in {"NOT_STALLED", "STALL_NEXT"}
      /\ UNCHANGED hostVars /\ UNCHANGED <<execs, cmddat, cmdPtr>>
  BY DEF FetchIssue, CanRead, StallFlag
<1>3. /\ ppc' \in {"process", "barrier", "stallBarrier"} /\ (ppc' = "stallBarrier" <=> front.stall)
      /\ (ppc' = "process" => cmdPtr # fence) /\ (ppc' = "barrier" => cmdPtr = fence)
  BY DEF FetchIssue, cmd_ready
<1>4. preamble \in {0, 1} /\ preamble' = preamble /\ s \in 1 .. MaxCmd /\ cmdPtr \in 0 .. CmddatSize
      /\ fence \in 0 .. CmddatSize /\ cmdPtr <= fence /\ (preamble = 1 => cmdPtr = fence)
      /\ (cmdPtr < fence => cmdPtr + preamble < fence)
  BY <1>1, <1>2, FrontUnits DEF TypeOK, hostVars, PrefetcherAt, PlacesInCmddat
<1>5. inflight = None /\ ~ExecInCmddat /\ Coming = 0
  BY <1>1, <1>2 DEF PlacesInCmddat, ExecInCmddat, Coming
\* Only an empty queue wraps.
<1>6. /\ f \in 0 .. CmddatSize /\ f + s + preamble <= CmddatSize
      /\ f = fence \/ (f = 0 /\ cmdPtr = fence)
  <2>1. f = IF fence + s + preamble > CmddatSize THEN 0 ELSE fence
    BY DEF ReadPlace
  <2>2. fence + s + preamble <= CmddatSize \/ cmdPtr = fence
    BY <1>2
  <2> HIDE DEF s, f
  <2> QED
    BY <1>4, <2>1, <2>2, Constants
<1>7. Ready \in Nat /\ InCmddat = Ready
  <2>1. Ready \in Nat /\ Coming \in Nat /\ InCmddat = Ready + Coming
    BY <1>1, InCmddatFits
  <2> QED
    BY <1>5, <2>1
<1>8. Ready' = Ready
  <2>1. Ready' = IF cmdPtr < f THEN f - cmdPtr - preamble ELSE 0
    BY <1>2, <1>4 DEF Ready
  <2>2. Ready = IF cmdPtr < fence THEN fence - cmdPtr - preamble ELSE 0
    BY DEF Ready
  <2> HIDE DEF f
  <2> QED
    BY <1>4, <1>6, <2>1, <2>2
<1>9. Header' = preamble
  <2>1. Header' = IF ppc' = "stallBarrier" /\ cmdPtr < f THEN 0 ELSE preamble
    BY <1>2, <1>4 DEF Header
  <2> HIDE DEF f
  <2> QED
    BY <1>4, <1>6, <2>1
<1>10. /\ (cmdPtr' < fence' => cmdPtr' + preamble < fence')
       /\ (ppc' = "process" => cmdPtr' < fence') /\ (ppc' = "barrier" => cmdPtr' >= fence')
  <2>1. fence' = f /\ cmdPtr' = cmdPtr
    BY <1>2
  <2> HIDE DEF f
  <2> QED
    BY <1>3, <1>4, <1>6, <2>1
<1>11. \A i \in cmdPtr' + preamble .. fence' - 1 : cmddat[i] = i - (cmdPtr' + preamble)
  <2> SUFFICES ASSUME NEW i \in cmdPtr' + preamble .. fence' - 1 PROVE cmddat[i] = i - (cmdPtr' + preamble)
    OBVIOUS
  <2>1. fence' = f /\ cmdPtr' = cmdPtr
    BY <1>2
  <2>2. i \in cmdPtr + preamble .. fence - 1
    <3> HIDE DEF f
    <3> QED
      BY <1>4, <1>6, <2>1
  <2> QED
    BY <1>1, <2>1, <2>2 DEF UnitsInCmddat
<1>12. fence' \in 0 .. CmddatSize /\ fence' + front.size + preamble <= CmddatSize /\ cmdPtr' \in 0 .. CmddatSize
  BY <1>2, <1>4, <1>6
<1>13. preamble <= preamble
  BY <1>4
<1> HIDE DEF s, f
<1> QED
  BY <1>2, <1>3, <1>4, <1>5, <1>7, <1>8, <1>9, <1>10, <1>11, <1>12, <1>13, ReadKeeps

\* fetch_q_get_cmds issues the next read right after the barrier of the one before.
LEMMA BarrierIssueKeeps ==
    ASSUME IInv, BarrierDoneIssue
    PROVE  IInv'
<1>1. TypeOK /\ PlacesInCmddat /\ UnitsInCmddat /\ PrefetcherAt
  BY DEF IInv, Cmddat
<1> DEFINE s == front.size
           p == ConcatPreamble
<1>2. /\ ppc = "barrier" /\ inflight = None /\ front # Empty
      /\ CanRead(p, fence + pending, WrapCmdPtr)
      /\ ReadFromPcie(p, ReadPlace(p, fence + pending)) /\ cmdPtr' = WrapCmdPtr
      /\ fence' = ReadPlace(p, fence + pending)
      /\ stall' \in {"NOT_STALLED", "STALL_NEXT"}
      /\ UNCHANGED hostVars /\ UNCHANGED <<execs, cmddat>>
      /\ ppc' = IF front.stall THEN "stallBarrier" ELSE "process"
  BY DEF BarrierDoneIssue, StallFlag
<1>3. /\ preamble \in {0, 1} /\ preamble' = preamble /\ s \in 1 .. MaxCmd /\ cmdPtr \in 0 .. CmddatSize
      /\ fence \in 0 .. CmddatSize /\ cmdPtr >= fence /\ pending # 0 /\ pending \in Nat
      /\ fence + pending <= CmddatSize
  BY <1>1, <1>2, FrontUnits, Constants DEF TypeOK, hostVars, PrefetcherAt, PlacesInCmddat
<1>4. Header = preamble /\ Coming = pending - preamble /\ Ready = 0 /\ Coming \in 1 .. MaxCmd /\ ~ExecInCmddat
      /\ InCmddat = Coming
  <2>1. Header = preamble /\ Ready = 0
    BY <1>2, <1>3 DEF Header, Ready
  <2>2. Coming = pending - preamble /\ Coming \in 1 .. MaxCmd
    BY <1>1, <1>3, <2>1 DEF Coming, PlacesInCmddat
  <2>3. ~ExecInCmddat
    BY <1>1, <1>2 DEF PrefetcherAt, ExecInCmddat
  <2> QED
    BY <2>1, <2>2, <2>3, Constants DEF InCmddat
<1>5. WrapCmdPtr = fence
  BY <1>3 DEF WrapCmdPtr
<1>6. p \in {0, 1} /\ p <= preamble /\ p = IF front.stall THEN 0 ELSE preamble
  BY <1>3 DEF ConcatPreamble
\* The read that has just landed is in the queue, so that there is no wrap.
<1>7. fence + pending + s + p <= CmddatSize /\ fence' = fence + pending /\ cmdPtr' = fence
  <2>1. fence + pending + s + p <= CmddatSize \/ fence = fence + pending
    BY <1>2, <1>5 DEF CanRead
  <2>2. fence + pending + s + p <= CmddatSize
    BY <1>3, <2>1
  <2>3. fence' = IF fence + pending + s + p > CmddatSize THEN 0 ELSE fence + pending
    BY <1>2 DEF ReadPlace
  <2> HIDE DEF s, p
  <2> QED
    BY <1>2, <1>3, <1>5, <1>6, <2>2, <2>3, Constants
<1>8. fence + preamble < fence + pending
  BY <1>3, <1>4, Constants
<1>9. Ready' = InCmddat
  <2>1. Ready' = IF cmdPtr' < fence' THEN fence' - cmdPtr' - preamble ELSE 0
    BY <1>3 DEF Ready
  <2> QED
    BY <1>3, <1>4, <1>7, <1>8, <2>1
<1>10. Header' = p
  <2>1. Header' = IF ppc' = "stallBarrier" /\ cmdPtr' < fence' THEN 0 ELSE preamble
    BY <1>3 DEF Header
  <2>2. cmdPtr' < fence'
    BY <1>3, <1>7
  <2> QED
    BY <1>2, <1>6, <2>1, <2>2
<1>11. \A i \in cmdPtr' + preamble .. fence' - 1 : cmddat[i] = i - (cmdPtr' + preamble)
  <2> SUFFICES ASSUME NEW i \in cmdPtr' + preamble .. fence' - 1 PROVE cmddat[i] = i - (cmdPtr' + preamble)
    OBVIOUS
  <2> DEFINE k == i - (fence + preamble)
  <2>1. k \in 0 .. Coming - 1 /\ i = fence + Header + k
    BY <1>3, <1>4, <1>7
  <2>2. cmddat[fence + Header + k] = Ready + k
    BY <1>1, <1>2, <1>3, <2>1 DEF UnitsInCmddat
  <2>3. cmddat[i] = Ready + k
    BY <2>1, <2>2
  <2> QED
    BY <1>3, <1>4, <1>7, <2>3
<1>12. /\ fence' \in 0 .. CmddatSize /\ cmdPtr' \in 0 .. CmddatSize /\ fence' + front.size + p <= CmddatSize
       /\ cmdPtr' < fence' /\ cmdPtr' + preamble < fence'
  <2> HIDE DEF p
  <2> QED
    BY <1>3, <1>7, <1>8, Constants
<1>13. /\ ppc' \in {"process", "barrier", "stallBarrier"} /\ (ppc' = "stallBarrier" <=> front.stall)
       /\ ppc' # "barrier"
  BY <1>2
<1>14. ReadFromPcie(p, fence')
  BY <1>2
<1> HIDE DEF s, p
<1> QED
  BY <1>2, <1>4, <1>6, <1>9, <1>10, <1>11, <1>12, <1>13, <1>14, ReadKeeps

-----------------------------------------------------------------------------
(* The prefetcher processes units *)

\* How tags go down: one that is not processed keeps its distance.
LEMMA Advances ==
    ASSUME NEW n \in Nat
    PROVE  /\ \A t \in Tags \cup {Junk} : Advance(t, n) \in Tags \cup {Junk}
           /\ \A t \in Nat : n <= t /\ t < TagSpan => Advance(t, n) = t - n
           /\ \A X \in SUBSET Tags : AdvanceSet(X, n) \in SUBSET Tags /\ \A t \in Nat : t \in AdvanceSet(X, n) <=> t + n \in X
<1>1. \A t \in Tags \cup {Junk} : Advance(t, n) \in Tags \cup {Junk}
  BY Constants DEF Tags, Advance
<1>2. \A t \in Nat : n <= t /\ t < TagSpan => Advance(t, n) = t - n
  BY Constants DEF Advance
<1>3. ASSUME NEW X \in SUBSET Tags PROVE AdvanceSet(X, n) \in SUBSET Tags
  <2>1. ASSUME NEW u \in X, u >= n PROVE u - n \in Tags
    BY <2>1, Constants DEF Tags
  <2> QED
    BY <2>1 DEF AdvanceSet
<1>4. ASSUME NEW X \in SUBSET Tags, NEW t \in Nat PROVE t \in AdvanceSet(X, n) <=> t + n \in X
  <2>1. t + n >= n /\ (t + n) - n = t
    OBVIOUS
  <2>2. \A u \in X : t = u - n => u = t + n
    BY Constants DEF Tags
  <2> QED
    BY <2>1, <2>2 DEF AdvanceSet
<1> QED
  BY <1>1, <1>2, <1>3, <1>4

\* The units in front leave the system and all tags on the walk go down by as many.
LEMMA ProcessedKeeps ==
    ASSUME IInv, NEW n \in Nat, n <= InCmddat, Processed(n), inflight' = inflight, InCmddat' = InCmddat - n,
           UNCHANGED <<issueWr, devPtr, devFence, hpc, hcmd, fetchQ, rdAddr, rdPtr, pcieRd>>,
           (ExecInCmddat' <=> ExecInCmddat) \/ (~ExecInCmddat' /\ InCmddat = n)
    PROVE  /\ Queues'
           /\ issueQ' \in [0 .. IssueSize - 1 -> Tags \cup {Junk}]
           /\ outstanding' \in 0 .. IssueSize + CmddatSize /\ execs' \subseteq Tags
<1>1. TypeOK /\ PlacesInCmddat
  BY DEF IInv, Cmddat
<1>2. PICK m \in 0 .. Entries : EntriesInRing(m) /\ \E V, T \in [0 .. Entries + 1 -> Nat] : Along(m, V, T)
  BY DEF IInv, Queues
<1>3. PICK V \in [0 .. Entries + 1 -> Nat], T \in [0 .. Entries + 1 -> Nat] : Along(m, V, T)
  BY <1>2
<1> DEFINE e == Issued(m)
<1>4. /\ e \in 0 .. Entries + 1 /\ 0 \in 0 .. e /\ e \in 0 .. e /\ Issued(m)' = e
      /\ \A i \in 0 .. e : i \in 0 .. Entries + 1
      /\ \A i \in 0 .. e - 1 : i \in 0 .. e /\ i + 1 \in 0 .. e
  <2>1. e \in 0 .. Entries + 1 /\ Issued(m)' = e
    BY <1>1, <1>2, Sizes DEF Issued
  <2> HIDE DEF e
  <2> QED
    BY <2>1, Constants
<1>5. /\ outstanding \in Nat /\ outstanding <= IssueSize + CmddatSize /\ outstanding < TagSpan /\ InCmddat \in Nat
      /\ T[0] = InCmddat /\ T[e] = outstanding
  <2>1. outstanding \in 0 .. IssueSize + CmddatSize
    BY <1>1 DEF TypeOK
  <2>2. InCmddat \in 0 .. CmddatSize
    BY <1>1, InCmddatFits
  <2>3. T[0] = InCmddat /\ T[e] = outstanding
    BY <1>3 DEF Along, Ends
  <2> QED
    BY <2>1, <2>2, <2>3, Constants
<1>6. ASSUME NEW i \in 0 .. e PROVE T[i] \in Nat /\ n <= T[i] /\ T[i] <= outstanding
  <2>1. T[i] \in Nat /\ T[0] <= T[i] /\ T[i] <= T[e]
    <3>1. 0 <= i /\ i <= e /\ i \in 0 .. Entries + 1
      <4> HIDE DEF e
      <4> QED
        BY <1>4
    <3> QED
      BY <1>3, <1>4, <3>1 DEF Along, Spread
  <2> DEFINE t == T[i]
             c == InCmddat
  <2>2. t \in Nat /\ c <= t /\ c \in Nat /\ n <= c
    BY <1>5, <2>1
  <2>3. n <= t
    <3> HIDE DEF t, c
    <3> QED
      BY <2>2
  <2> QED
    BY <1>5, <2>1, <2>3
<1>7. PICK T2 \in [0 .. Entries + 1 -> Nat] : \A i \in 0 .. e : T2[i] = T[i] - n
  <2> DEFINE f == [i \in 0 .. Entries + 1 |-> IF i \in 0 .. e THEN T[i] - n ELSE 0]
  <2>1. ASSUME NEW i \in 0 .. e PROVE T[i] - n \in Nat
    BY <1>6
  <2>2. f \in [0 .. Entries + 1 -> Nat]
    <3> HIDE DEF e
    <3> QED
      BY <2>1
  <2>3. \A i \in 0 .. e : f[i] = T[i] - n
    BY <1>4
  <2> HIDE DEF f, e
  <2> QED
    BY <2>2, <2>3
<1>8. /\ issueQ' = [j \in 0 .. IssueSize - 1 |-> Advance(issueQ[j], n)]
      /\ issueQ \in [0 .. IssueSize - 1 -> Tags \cup {Junk}]
      /\ outstanding' = outstanding - n /\ execs' = AdvanceSet(execs, n) /\ execs \in SUBSET Tags
  BY <1>1 DEF Processed, AdvanceAll, TypeOK
<1>9. EntriesInRing(m)'
  BY <1>2 DEF EntriesInRing, Room, NextEntry, Slot
<1>10. \A i : Cmd(m, i)' = Cmd(m, i)
  BY DEF Cmd, Slot
<1>11. UnitsInIssueQ(m, V, T2)'
  <2>1. ASSUME NEW i \in 0 .. e - 1
        PROVE  LET s == Cmd(m, i)'.size
               IN /\ V[i + 1] = Begin(V[i], s) + s
                  /\ T2[i + 1] = T2[i] + s
                  /\ \A k \in 0 .. s - 1 : issueQ'[Real(Begin(V[i], s)) + k] = T2[i] + k
    <3> DEFINE s == Cmd(m, i).size
               u == T[i]
               v == T[i + 1]
    <3>1. /\ V[i + 1] = Begin(V[i], s) + s /\ v = u + s
          /\ \A k \in 0 .. s - 1 : issueQ[Real(Begin(V[i], s)) + k] = u + k
      BY <1>3 DEF Along, UnitsInIssueQ
    <3>2. u \in Nat /\ v \in Nat /\ n <= u /\ v <= outstanding /\ T2[i] = u - n /\ T2[i + 1] = v - n
      BY <1>4, <1>6, <1>7
    <3>3. s \in Nat
      <4>1. s \in 1 .. MaxCmd
        BY <1>1, <1>2, Sizes
      <4>2. \A x \in 1 .. MaxCmd : x \in Nat
        BY Constants
      <4> QED
        BY <4>1, <4>2
    <3>4. T2[i + 1] = T2[i] + s
      <4> HIDE DEF s, u, v
      <4> QED
        BY <3>1, <3>2, <3>3
    <3>5. ASSUME NEW k \in 0 .. s - 1
          PROVE  issueQ'[Real(Begin(V[i], s)) + k] = T2[i] + k
      <4> DEFINE x == Real(Begin(V[i], s)) + k
      <4>1. x \in 0 .. IssueSize - 1
        <5>1. /\ Real(Begin(V[i], s)) + k = Real(Begin(V[i], s) + k)
              /\ Real(Begin(V[i], s) + k) \in 0 .. IssueSize - 1
          BY <1>1, <1>2, <1>3, UnitPlaces
        <5> QED
          BY <5>1
      <4>2. issueQ[x] = u + k
        BY <3>1
      <4> DEFINE y == u + k
                 w == T2[i]
      <4>3. y \in Nat /\ n <= y /\ y < TagSpan /\ y - n = w + k
        <5>1. v = u + s /\ k \in 0 .. s - 1
          BY <3>1
        <5>2. w = u - n /\ u \in Nat /\ n <= u /\ v <= outstanding
          BY <3>2
        <5> HIDE DEF s, u, v, w
        <5> QED
          BY <1>5, <3>3, <5>1, <5>2, Constants, SMTT(30)
      <4>4. Advance(y, n) = w + k
        <5>1. \A t \in Nat : n <= t /\ t < TagSpan => Advance(t, n) = t - n
          BY Advances
        <5> HIDE DEF y, w
        <5> QED
          BY <4>3, <5>1
      <4>5. issueQ[x] = y /\ issueQ'[x] = Advance(issueQ[x], n)
        BY <1>8, <4>1, <4>2
      <4> HIDE DEF x, u, s, y
      <4> QED
        BY <4>4, <4>5 DEF x
    <3> QED
      BY <1>10, <3>1, <3>4, <3>5
  <2>2. ASSUME NEW i \in 0 .. Issued(m)' - 1
        PROVE  LET s == Cmd(m, i)'.size
               IN /\ V[i + 1] = Begin(V[i], s) + s
                  /\ T2[i + 1] = T2[i] + s
                  /\ \A k \in 0 .. s - 1 : issueQ'[Real(Begin(V[i], s)) + k] = T2[i] + k
    BY <1>4, <2>1
  <2> QED
    BY <2>2 DEF UnitsInIssueQ, Real, Begin
<1>12. Spread(m, V, T2)'
  <2>1. ASSUME NEW i \in 0 .. Issued(m)', NEW j \in 0 .. Issued(m)', i <= j
        PROVE  /\ V[i] <= V[j] /\ T2[i] <= T2[j] /\ T2[j] - T2[i] <= V[j] - V[i]
               /\ V[j] - V[i] <= Budget(j - i) + (IF V[i] <= IssueSize /\ V[j] > IssueSize THEN MaxCmd - 1 ELSE 0)
    <3> DEFINE tu == T[i]
               tv == T[j]
               u == V[i]
               v == V[j]
    <3>1. i \in 0 .. e /\ j \in 0 .. e
      BY <1>4
    <3>2. /\ u <= v /\ tu <= tv /\ tv - tu <= v - u
          /\ V[j] - V[i] <= Budget(j - i) + (IF V[i] <= IssueSize /\ V[j] > IssueSize THEN MaxCmd - 1 ELSE 0)
      BY <1>3, <2>1, <3>1 DEF Along, Spread
    <3>3. tu \in Nat /\ tv \in Nat /\ T2[i] = tu - n /\ T2[j] = tv - n
      BY <1>6, <1>7, <3>1
    <3>4. T2[i] <= T2[j] /\ T2[j] - T2[i] = tv - tu
      <4> HIDE DEF tu, tv
      <4> QED
        BY <3>2, <3>3
    <3> QED
      BY <3>2, <3>4
  <2> QED
    BY <2>1 DEF Spread, Budget
<1>13. Ends(m, V, T2)'
  <2>1. T2[0] = InCmddat' /\ T2[Issued(m)'] = outstanding'
    BY <1>4, <1>5, <1>7, <1>8
  <2>2. V[0] = pcieRd' /\ Real(V[Issued(m)']) = issueWr'
    BY <1>3, <1>4 DEF Along, Ends
  <2> QED
    BY <2>1, <2>2 DEF Ends, Real
<1>14. ExecsMarked(m, T2)'
  <2>1. ASSUME NEW t \in Nat
        PROVE  t \in execs' <=>
                   \/ \E i \in 0 .. e - 1 : Cmd(m, i).stall /\ t = T2[i + 1] - 1
                   \/ ExecInCmddat' /\ t = InCmddat' - 1
    <3> DEFINE Old(i) == Cmd(m, i).stall /\ t + n = T[i + 1] - 1
               New(i) == Cmd(m, i).stall /\ t = T2[i + 1] - 1
               C == ExecInCmddat /\ t + n = InCmddat - 1
               D == ExecInCmddat' /\ t = InCmddat' - 1
    <3>1. t \in execs' <=> t + n \in execs
      BY <1>8, Advances
    <3>2. t + n \in execs <=> (\E i \in 0 .. e - 1 : Old(i)) \/ C
      <4>1. t + n \in Nat
        OBVIOUS
      <4> QED
        BY <1>3, <4>1 DEF Along, ExecsMarked
    <3>3. \A i \in 0 .. e - 1 : Old(i) <=> New(i)
      <4> SUFFICES ASSUME NEW i \in 0 .. e - 1 PROVE Old(i) <=> New(i)
        OBVIOUS
      <4> DEFINE v == T[i + 1]
      <4>1. v \in Nat /\ T2[i + 1] = v - n
        BY <1>4, <1>6, <1>7
      <4>2. t + n = v - 1 <=> t = T2[i + 1] - 1
        <5> HIDE DEF v
        <5> QED
          BY <4>1
      <4> QED
        BY <4>2
    <3>4. C <=> D
      <4> DEFINE c == InCmddat
      <4>1. c \in Nat /\ n <= c /\ InCmddat' = c - n
        BY <1>5
      <4>2. (t + n = c - 1 <=> t = InCmddat' - 1) /\ (c = n => t + n # c - 1)
        <5> HIDE DEF c
        <5> QED
          BY <4>1
      <4> QED
        BY <4>2
    <3>5. t \in execs' <=> (\E i \in 0 .. e - 1 : New(i)) \/ D
      <4> HIDE DEF Old, New, C, D, e
      <4> QED
        BY <3>1, <3>2, <3>3, <3>4
    <3> QED
      BY <3>5
  <2>2. ASSUME NEW t \in Nat
        PROVE  t \in execs' <=>
                   \/ \E i \in 0 .. Issued(m)' - 1 : Cmd(m, i)'.stall /\ t = T2[i + 1] - 1
                   \/ ExecInCmddat' /\ t = InCmddat' - 1
    BY <1>4, <1>10, <2>1
  <2> QED
    BY <2>2 DEF ExecsMarked
<1>15. Queues'
  <2>1. Along(m, V, T2)'
    BY <1>11, <1>12, <1>13, <1>14 DEF Along
  <2> QED
    BY <1>9, <2>1 DEF Queues
<1>16. issueQ' \in [0 .. IssueSize - 1 -> Tags \cup {Junk}] /\ execs' \subseteq Tags
  BY <1>8, Advances
<1>17. outstanding' \in 0 .. IssueSize + CmddatSize
  <2>1. n <= outstanding
    <3>1. n <= T[e] /\ T[e] = outstanding
      BY <1>4, <1>5, <1>6
    <3> QED
      BY <3>1
  <2> QED
    BY <1>5, <1>8, <2>1, Constants
<1> QED
  BY <1>15, <1>16, <1>17

\* The unit at the front of the cmddat queue is an exec_buf only if the prefetcher is stalled and nothing else is there;
\* while it is stalled, the last unit is one.
LEMMA ExecPlace ==
    ASSUME IInv
    PROVE  /\ ppc = "process" /\ preamble = 0 /\ 0 \in execs =>
                stall = "STALLED" /\ pending = 0 /\ inflight = None /\ cmdPtr + 1 = fence
           /\ stall = "STALLED" => Ready - 1 \in execs
<1>1. TypeOK /\ PlacesInCmddat /\ PrefetcherAt
  BY DEF IInv, Cmddat
<1>2. PICK m \in 0 .. Entries : EntriesInRing(m) /\ \E V, T \in [0 .. Entries + 1 -> Nat] : Along(m, V, T)
  BY DEF IInv, Queues
<1>3. PICK V \in [0 .. Entries + 1 -> Nat], T \in [0 .. Entries + 1 -> Nat] : Along(m, V, T)
  BY <1>2
<1>4. /\ cmdPtr \in 0 .. CmddatSize /\ fence \in 0 .. CmddatSize /\ preamble \in {0, 1}
      /\ (cmdPtr < fence => cmdPtr + preamble < fence)
      /\ Ready = (IF cmdPtr < fence THEN fence - cmdPtr - preamble ELSE 0)
  BY <1>1 DEF TypeOK, PlacesInCmddat, Ready
<1>5. Ready \in Nat /\ Coming \in Nat /\ InCmddat = Ready + Coming
  BY <1>1, InCmddatFits
<1>6. ASSUME ppc = "process", preamble = 0, 0 \in execs
      PROVE  stall = "STALLED" /\ pending = 0 /\ inflight = None /\ cmdPtr + 1 = fence
  <2>1. cmdPtr < fence /\ Ready >= 1
    <3>1. cmdPtr < fence
      BY <1>1, <1>6 DEF PrefetcherAt
    <3> QED
      BY <1>4, <3>1, Constants
  <2>2. ASSUME NEW i \in 0 .. Issued(m) - 1, 0 = T[i + 1] - 1 PROVE FALSE
    <3>1. Cmd(m, i).size \in 1 .. MaxCmd /\ T[i + 1] = T[i] + Cmd(m, i).size
      BY <1>1, <1>2, <1>3, Sizes DEF Along, UnitsInIssueQ
    <3>2. T[0] <= T[i] /\ T[0] = InCmddat
      <4>1. Issued(m) \in 0 .. Entries + 1
        BY <1>1, <1>2, Sizes
      <4>2. i \in 0 .. Issued(m)
        BY <4>1
      <4> QED
        BY <1>1, <1>2, <1>3, <4>2, Window DEF Along, Ends
    <3>3. T[i] \in Nat /\ T[i + 1] \in Nat
      <4>1. Issued(m) \in 0 .. Entries + 1
        BY <1>1, <1>2, Sizes
      <4>2. i \in 0 .. Entries + 1 /\ i + 1 \in 0 .. Entries + 1
        BY <4>1, Constants, SMTT(30)
      <4> QED
        BY <4>2
    <3> DEFINE s == Cmd(m, i).size
               u == T[i]
               v == T[i + 1]
               c == InCmddat
    <3>4. s \in 1 .. MaxCmd /\ u \in Nat /\ v \in Nat /\ v = u + s /\ c <= u /\ 0 = v - 1 /\ c \in Nat /\ 1 <= c
      BY <1>5, <2>1, <2>2, <3>1, <3>2, <3>3
    <3> HIDE DEF s, u, v, c
    <3> QED
      BY <3>4, Constants
  <2>3. ExecInCmddat /\ 0 = InCmddat - 1
    <3>1. \/ \E i \in 0 .. Issued(m) - 1 : Cmd(m, i).stall /\ 0 = T[i + 1] - 1
          \/ ExecInCmddat /\ 0 = InCmddat - 1
      BY <1>3, <1>6 DEF Along, ExecsMarked
    <3> QED
      BY <2>2, <3>1
  <2>4. stall = "STALLED" /\ pending = 0
    BY <1>1, <1>6, <2>3 DEF ExecInCmddat, PrefetcherAt
  <2>5. inflight = None
    BY <1>1, <2>4 DEF PlacesInCmddat
  <2>6. Ready = 1
    BY <1>5, <2>1, <2>3
  <2> QED
    BY <1>4, <1>6, <2>1, <2>4, <2>5, <2>6
<1>7. ASSUME stall = "STALLED" PROVE Ready - 1 \in execs
  <2>1. pending = 0 /\ cmdPtr < fence
    BY <1>1, <1>7 DEF PrefetcherAt
  <2>2. Ready - 1 \in Nat /\ Ready - 1 = InCmddat - 1
    <3>1. Coming = 0
      BY <2>1 DEF Coming
    <3> QED
      BY <1>4, <1>5, <2>1, <3>1, Constants
  <2>3. ExecInCmddat
    BY <1>7 DEF ExecInCmddat
  <2> QED
    BY <1>3, <2>2, <2>3 DEF Along, ExecsMarked
<1> QED
  BY <1>6, <1>7

\* process_cmd, process_exec_buf_cmd and process_relay_inline_all.
LEMMA ProcessKeeps ==
    ASSUME IInv, ProcessCmd \/ ProcessExecBuf \/ RelayInlineAll
    PROVE  IInv'
<1>1. TypeOK /\ PlacesInCmddat /\ UnitsInCmddat /\ PrefetcherAt
  BY DEF IInv, Cmddat
<1>2. /\ ppc = "process" /\ ppc' = "fetch"
      /\ UNCHANGED <<issueWr, devPtr, devFence, hpc, hcmd, preamble, fetchQ, rdAddr, rdPtr, pcieRd, fence, pending, inflight>>
  BY DEF ProcessCmd, ProcessExecBuf, RelayInlineAll
<1>3. /\ cmdPtr \in 0 .. CmddatSize /\ fence \in 0 .. CmddatSize /\ preamble \in {0, 1} /\ pending \in Nat
      /\ cmdPtr < fence /\ cmdPtr + preamble < fence /\ fence + pending <= CmddatSize
      /\ cmddat \in [0 .. CmddatSize - 1 -> Tags \cup {Junk}]
  BY <1>1, <1>2, Constants DEF TypeOK, PlacesInCmddat, PrefetcherAt
<1>4. /\ Ready = fence - cmdPtr - preamble /\ Ready \in Nat /\ Ready >= 1 /\ Header = preamble
      /\ Coming \in Nat /\ InCmddat = Ready + Coming /\ InCmddat <= CmddatSize
      /\ (pending # 0 => Coming = pending - preamble)
  <2>1. Ready = fence - cmdPtr - preamble /\ Header = preamble
    BY <1>2, <1>3 DEF Ready, Header
  <2>2. Coming \in Nat /\ InCmddat = Ready + Coming /\ InCmddat \in 0 .. CmddatSize
    BY <1>1, InCmddatFits
  <2>3. pending # 0 => Coming = pending - preamble
    BY <2>1 DEF Coming
  <2> QED
    BY <1>3, <2>1, <2>2, <2>3, Constants
<1>5. Header' = Header /\ Coming' = Coming
  <2>1. Header' = preamble
    BY <1>2 DEF Header
  <2>2. Header' = Header
    BY <1>4, <2>1
  <2> QED
    BY <1>2, <2>2 DEF Coming
\* What has to be shown of an action that processes n of the units that are ready.
<1>6. ASSUME NEW n \in Nat, n <= Ready, Processed(n), cmdPtr' \in 0 .. CmddatSize, cmdPtr' <= fence,
             Ready' = Ready - n, cmdPtr' < fence => cmdPtr' + preamble < fence, preamble = 1 => cmdPtr' = fence,
             cmddat' \in [0 .. CmddatSize - 1 -> Tags \cup {Junk}],
             \A i \in cmdPtr' + preamble .. fence - 1 : cmddat'[i] = i - (cmdPtr' + preamble),
             pending # 0 => \A j \in fence .. CmddatSize - 1 : cmddat'[j] = Advance(cmddat[j], n),
             stall' \in {"NOT_STALLED", "STALL_NEXT", "STALLED"},
             stall' = "STALLED" => stall = "STALLED" /\ cmdPtr' < fence,
             stall' # "STALLED" /\ stall = "STALLED" => n = Ready
      PROVE  IInv'
  <2>1. InCmddat' = InCmddat - n /\ n <= InCmddat
    <3>1. InCmddat' = Ready' + Coming'
      BY DEF InCmddat
    <3> QED
      BY <1>4, <1>5, <1>6, <3>1
  <2>2. (ExecInCmddat' <=> ExecInCmddat) \/ (~ExecInCmddat' /\ InCmddat = n)
    <3>1. CASE stall' # "STALLED" /\ stall = "STALLED"
      <4>1. pending = 0
        BY <1>1, <3>1 DEF PrefetcherAt
      <4>2. Coming = 0
        BY <4>1 DEF Coming
      <4> QED
        BY <1>2, <1>4, <1>6, <3>1, <4>2 DEF ExecInCmddat
    <3>2. CASE ~(stall' # "STALLED" /\ stall = "STALLED")
      BY <1>2, <1>6, <3>2 DEF ExecInCmddat
    <3> QED
      BY <3>1, <3>2
  <2>3. /\ Queues' /\ issueQ' \in [0 .. IssueSize - 1 -> Tags \cup {Junk}]
        /\ outstanding' \in 0 .. IssueSize + CmddatSize /\ execs' \subseteq Tags
    BY <1>2, <1>6, <2>1, <2>2, ProcessedKeeps
  <2>4. TypeOK'
    BY <1>1, <1>2, <1>6, <2>3 DEF TypeOK, Tags, Entry, Read
  <2>5. PlacesInCmddat'
    BY <1>1, <1>2, <1>5, <1>6 DEF PlacesInCmddat
  <2>6. PrefetcherAt'
    <3>1. stall' = "STALLED" => pending = 0
      BY <1>1, <1>6 DEF PrefetcherAt
    <3> QED
      BY <1>2, <1>6, <3>1 DEF PrefetcherAt
  \* A unit behind those that are ready.
  <2>7. ASSUME NEW k \in 0 .. Coming - 1 PROVE Advance(Ready + k, n) = Ready' + k
    <3> DEFINE t == Ready + k
    <3>1. t \in Nat /\ n <= t /\ t < TagSpan /\ t - n = Ready' + k
      <4> DEFINE r == Ready
                 c == Coming
                 q == Ready'
      <4>1. q = r - n /\ n <= r /\ r \in Nat /\ c \in Nat /\ r + c <= CmddatSize /\ k \in 0 .. c - 1
        BY <1>4, <1>6
      <4>2. t = r + k
        OBVIOUS
      <4> HIDE DEF r, c, q, t
      <4>3. t \in Nat /\ n <= t /\ t < TagSpan /\ t - n = q + k
        BY <4>1, <4>2, Constants
      <4> QED
        BY <4>3 DEF q
    <3>2. \A u \in Nat : n <= u /\ u < TagSpan => Advance(u, n) = u - n
      BY <1>6, Advances
    <3> HIDE DEF t
    <3>3. Advance(t, n) = t - n
      BY <3>1, <3>2
    <3> QED
      BY <3>1, <3>3 DEF t
  <2>8. UnitsInCmddat'
    <3>1. ASSUME pending # 0, inflight = None, NEW k \in 0 .. Coming - 1
          PROVE  cmddat'[fence + Header + k] = Ready' + k
      <4> DEFINE j == fence + Header + k
      <4>1. j \in fence .. CmddatSize - 1
        BY <1>3, <1>4, <3>1, Constants
      <4>2. cmddat[j] = Ready + k
        BY <1>1, <3>1 DEF UnitsInCmddat
      <4>3. cmddat'[j] = Advance(cmddat[j], n)
        BY <1>6, <3>1, <4>1
      <4> QED
        BY <2>7, <4>2, <4>3
    <3>2. ASSUME inflight # None, NEW k \in 0 .. inflight.size - 1
          PROVE  issueQ'[inflight.src + k] = Ready' + k
      <4> DEFINE x == inflight.src + k
      <4>1. x \in 0 .. IssueSize - 1
        BY <1>1, <3>2, FlightPlaces
      <4>2. issueQ[x] = Ready + k /\ k \in 0 .. Coming - 1
        BY <1>1, <3>2 DEF UnitsInCmddat, PlacesInCmddat
      <4>3. issueQ' = [h \in 0 .. IssueSize - 1 |-> Advance(issueQ[h], n)]
        BY <1>1, <1>6 DEF Processed, AdvanceAll, TypeOK
      <4>4. issueQ'[x] = Advance(issueQ[x], n)
        <5> HIDE DEF x
        <5> QED
          BY <4>1, <4>3
      <4> QED
        BY <2>7, <4>2, <4>4
    <3> QED
      BY <1>2, <1>5, <1>6, <3>1, <3>2 DEF UnitsInCmddat
  <2> QED
    BY <2>3, <2>4, <2>5, <2>6, <2>8 DEF IInv, Cmddat
<1>7. cmddat[cmdPtr + preamble] = 0
  <2>1. cmdPtr + preamble \in cmdPtr + preamble .. fence - 1 /\ (cmdPtr + preamble) - (cmdPtr + preamble) = 0
    BY <1>3
  <2> QED
    BY <1>1, <2>1 DEF UnitsInCmddat
<1>8. CASE ProcessCmd
  <2>1. /\ preamble = 0 /\ cmddat[cmdPtr] \notin execs /\ Processed(1) /\ cmdPtr' = cmdPtr + 1 /\ stall' = stall
        /\ cmddat' = [i \in 0 .. CmddatSize - 1 |-> Advance([cmddat EXCEPT ![cmdPtr] = Junk][i], 1)]
    BY <1>3, <1>8 DEF ProcessCmd, AdvanceAll
  <2>2. 0 \notin execs
    <3>1. cmdPtr + preamble = cmdPtr
      BY <1>3, <2>1
    <3> QED
      BY <1>7, <2>1, <3>1
  <2>3. cmdPtr + 1 \in 0 .. CmddatSize /\ cmdPtr + 1 <= fence /\ cmdPtr \in 0 .. CmddatSize - 1
    BY <1>3, Constants
  <2>4. Ready' = Ready - 1
    <3>1. Ready' = IF cmdPtr + 1 < fence THEN fence - (cmdPtr + 1) - 0 ELSE 0
      BY <1>2, <2>1 DEF Ready
    <3> QED
      BY <1>3, <1>4, <2>1, <3>1
  <2>5. stall' = "STALLED" => stall = "STALLED" /\ cmdPtr' < fence
    <3> SUFFICES ASSUME stall = "STALLED" PROVE cmdPtr' < fence
      BY <2>1
    <3>1. Ready - 1 \in execs
      BY ExecPlace
    <3>2. Ready - 1 # 0
      BY <2>2, <3>1
    <3> QED
      BY <1>3, <1>4, <2>1, <3>2
  <2>6. ASSUME NEW i \in 0 .. CmddatSize - 1, i # cmdPtr PROVE cmddat'[i] = Advance(cmddat[i], 1)
    BY <1>3, <2>1, <2>6
  <2>7. cmddat' \in [0 .. CmddatSize - 1 -> Tags \cup {Junk}]
    <3>1. \A t \in Tags \cup {Junk} : Advance(t, 1) \in Tags \cup {Junk}
      BY Advances
    <3>2. ASSUME NEW i \in 0 .. CmddatSize - 1 PROVE [cmddat EXCEPT ![cmdPtr] = Junk][i] \in Tags \cup {Junk}
      BY <1>3, <2>3
    <3>3. ASSUME NEW i \in 0 .. CmddatSize - 1 PROVE Advance([cmddat EXCEPT ![cmdPtr] = Junk][i], 1) \in Tags \cup {Junk}
      BY <3>1, <3>2
    <3> QED
      BY <2>1, <3>3
  <2>8. ASSUME NEW i \in cmdPtr' + preamble .. fence - 1 PROVE cmddat'[i] = i - (cmdPtr' + preamble)
    <3>1. i \in 0 .. CmddatSize - 1 /\ i # cmdPtr /\ i \in cmdPtr + preamble .. fence - 1
      <4>1. cmdPtr' = cmdPtr + 1 /\ preamble = 0 /\ i \in cmdPtr' + preamble .. fence - 1
        BY <2>1
      <4>2. i \in cmdPtr + 1 .. fence - 1
        BY <1>3, <4>1
      <4> QED
        BY <1>3, <4>1, <4>2, Constants
    <3>2. cmddat[i] = i - (cmdPtr + preamble)
      BY <1>1, <3>1 DEF UnitsInCmddat
    <3> DEFINE t == i - (cmdPtr + preamble)
    <3>3. t \in Nat /\ 1 <= t /\ t < TagSpan /\ t - 1 = i - (cmdPtr' + preamble)
      BY <1>3, <2>1, <3>1, Constants
    <3>4. \A u \in Nat : 1 <= u /\ u < TagSpan => Advance(u, 1) = u - 1
      BY Advances
    <3>5. Advance(t, 1) = t - 1
      <4> HIDE DEF t
      <4> QED
        BY <3>3, <3>4
    <3> QED
      BY <2>6, <3>1, <3>2, <3>3, <3>5
  <2>9. ASSUME NEW j \in fence .. CmddatSize - 1 PROVE cmddat'[j] = Advance(cmddat[j], 1)
    <3>1. j \in 0 .. CmddatSize - 1 /\ j # cmdPtr
      BY <1>3
    <3> QED
      BY <2>6, <3>1
  <2>10. /\ 1 \in Nat /\ 1 <= Ready /\ cmdPtr' \in 0 .. CmddatSize /\ cmdPtr' <= fence
         /\ (cmdPtr' < fence => cmdPtr' + preamble < fence) /\ preamble # 1
         /\ stall' \in {"NOT_STALLED", "STALL_NEXT", "STALLED"} /\ ~(stall' # "STALLED" /\ stall = "STALLED")
    BY <1>1, <1>3, <1>4, <2>1, <2>3 DEF TypeOK
  <2> QED
    BY <1>6, <2>1, <2>4, <2>5, <2>7, <2>8, <2>9, <2>10
<1>9. CASE ProcessExecBuf
  <2>1. /\ preamble = 0 /\ cmddat[cmdPtr] \in execs /\ Processed(1) /\ cmdPtr' = cmdPtr + 1 /\ stall' = "NOT_STALLED"
        /\ cmddat' = [i \in 0 .. CmddatSize - 1 |-> Junk]
    BY <1>3, <1>9 DEF ProcessExecBuf
  <2>2. 0 \in execs
    <3>1. cmdPtr + preamble = cmdPtr
      BY <1>3, <2>1
    <3> QED
      BY <1>7, <2>1, <3>1
  <2>3. pending = 0 /\ cmdPtr + 1 = fence
    BY <1>2, <2>1, <2>2, ExecPlace
  <2>4. Ready = 1 /\ Ready' = 0 /\ Ready' = Ready - 1
    <3>1. Ready' = IF cmdPtr + 1 < fence THEN fence - (cmdPtr + 1) - 0 ELSE 0
      BY <1>2, <2>1 DEF Ready
    <3> QED
      BY <1>3, <1>4, <2>1, <2>3, <3>1
  <2>5. \A i \in cmdPtr' + preamble .. fence - 1 : cmddat'[i] = i - (cmdPtr' + preamble)
    <3>1. \A i \in cmdPtr' + preamble .. fence - 1 : FALSE
      BY <1>3, <2>1, <2>3
    <3> QED
      BY <3>1
  <2>6. /\ 1 \in Nat /\ 1 <= Ready /\ cmdPtr' \in 0 .. CmddatSize /\ cmdPtr' <= fence
        /\ ~(cmdPtr' < fence) /\ preamble # 1
    BY <1>3, <2>1, <2>3, <2>4
  <2>7. cmddat' \in [0 .. CmddatSize - 1 -> Tags \cup {Junk}]
    BY <2>1
  <2> QED
    BY <1>6, <2>1, <2>3, <2>4, <2>5, <2>6, <2>7
<1>10. CASE RelayInlineAll
  <2>1. /\ preamble = 1 /\ Processed(Batch) /\ stall' = (IF stall = "STALLED" THEN "NOT_STALLED" ELSE stall)
        /\ cmdPtr' = fence
        /\ cmddat' = [i \in 0 .. CmddatSize - 1 |->
                        IF i >= cmdPtr /\ i < fence THEN Junk ELSE Advance(cmddat[i], Batch)]
    BY <1>3, <1>10 DEF RelayInlineAll
  <2>2. Batch = Ready
    BY <1>3, <1>4 DEF Batch
  <2>3. Ready' = 0 /\ Ready - Ready = 0
    <3>1. Ready' = IF fence < fence THEN fence - fence - preamble ELSE 0
      BY <1>2, <2>1 DEF Ready
    <3> QED
      BY <1>3, <1>4, <3>1
  <2>4. Processed(Ready)
    BY <2>1, <2>2
  <2>5. \A i \in cmdPtr' + preamble .. fence - 1 : cmddat'[i] = i - (cmdPtr' + preamble)
    <3>1. \A i \in cmdPtr' + preamble .. fence - 1 : FALSE
      BY <1>3, <2>1
    <3> QED
      BY <3>1
  <2>6. cmddat' \in [0 .. CmddatSize - 1 -> Tags \cup {Junk}]
    <3>1. \A t \in Tags \cup {Junk} : Advance(t, Batch) \in Tags \cup {Junk}
      BY <1>4, <2>2, Advances
    <3>2. ASSUME NEW i \in 0 .. CmddatSize - 1 PROVE Advance(cmddat[i], Batch) \in Tags \cup {Junk}
      BY <1>3, <3>1
    <3> QED
      BY <2>1, <3>2
  <2>7. ASSUME NEW j \in fence .. CmddatSize - 1 PROVE cmddat'[j] = Advance(cmddat[j], Ready)
    <3>1. j \in 0 .. CmddatSize - 1 /\ ~(j >= cmdPtr /\ j < fence)
      BY <1>3
    <3> QED
      BY <2>1, <2>2, <3>1
  <2>8. stall' \in {"NOT_STALLED", "STALL_NEXT", "STALLED"} /\ stall' # "STALLED"
    BY <1>1, <2>1 DEF TypeOK
  <2>9. Ready <= Ready /\ cmdPtr' \in 0 .. CmddatSize /\ cmdPtr' <= fence /\ ~(cmdPtr' < fence)
    BY <1>3, <1>4, <2>1
  <2> QED
    BY <1>4, <1>6, <2>1, <2>3, <2>4, <2>5, <2>6, <2>7, <2>8, <2>9
<1> QED
  BY <1>8, <1>9, <1>10

-----------------------------------------------------------------------------
(* Theorems *)

\* Empty queues are the walk over no command.
LEMMA InitKeeps ==
    ASSUME Init
    PROVE  IInv
<1>1. TypeOK
  BY Constants DEF Init, TypeOK, Entry, Empty, Tags
<1>2. Cmddat
  <2>1. Ready = 0 /\ Coming = 0
    BY DEF Init, Ready, Coming
  <2>2. preamble \in {0, 1} /\ cmdPtr = 0 /\ fence = 0 /\ pending = 0 /\ inflight = None
        /\ ppc = "fetch" /\ stall = "NOT_STALLED"
    BY DEF Init
  <2>3. \A i \in cmdPtr + preamble .. fence - 1 : FALSE
    BY <2>2
  <2> QED
    BY <2>1, <2>2, <2>3, Constants DEF Cmddat, PlacesInCmddat, UnitsInCmddat, PrefetcherAt
<1>3. EntriesInRing(0)
  <2>1. ASSUME NEW i \in 0 .. Entries - 1 PROVE fetchQ[Slot(rdPtr, i)] = Empty
    <3>1. Slot(0, i) \in 0 .. Entries - 1
      BY Constants, Slots
    <3> QED
      BY <3>1 DEF Init
  <2>2. /\ devPtr = 0 /\ rdPtr = 0 /\ devFence = Entries /\ rdAddr = Entries /\ inflight = None /\ hpc = "idle"
    BY DEF Init
  <2>3. Slot(0, 0) = 0 /\ Room = Entries
    BY <2>2, Constants DEF Slot, Room
  <2> QED
    BY <2>1, <2>2, <2>3, Constants DEF EntriesInRing
<1> DEFINE Z == [i \in 0 .. Entries + 1 |-> 0]
<1>4. Along(0, Z, Z)
  <2>1. /\ Issued(0) = 0 /\ InCmddat = 0 /\ outstanding = 0 /\ pcieRd = 0 /\ issueWr = 0 /\ execs = {}
        /\ ~ExecInCmddat
    BY DEF Init, Issued, InCmddat, Ready, Coming, ExecInCmddat
  <2>2. Z[0] = 0 /\ Real(0) = 0
    BY Constants DEF Real
  <2>3. \A i \in 0 .. Issued(0) - 1 : FALSE
    BY <2>1
  <2>4. UnitsInIssueQ(0, Z, Z)
    BY <2>3 DEF UnitsInIssueQ
  <2>5. Spread(0, Z, Z)
    <3>1. \A i, j \in 0 .. Issued(0) : i = 0 /\ j = 0
      BY <2>1
    <3>2. Budget(0 - 0) = 0
      BY Budgets
    <3>3. /\ Z[0] <= Z[0] /\ Z[0] - Z[0] <= Z[0] - Z[0]
          /\ Z[0] - Z[0] <= Budget(0 - 0) + (IF Z[0] <= IssueSize /\ Z[0] > IssueSize THEN MaxCmd - 1 ELSE 0)
      <4> HIDE DEF Z
      <4> QED
        BY <2>2, <3>2, Constants
    <3> HIDE DEF Z
    <3> QED
      BY <3>1, <3>3 DEF Spread
  <2>6. Ends(0, Z, Z)
    <3> HIDE DEF Z
    <3> QED
      BY <2>1, <2>2 DEF Ends
  <2>7. ExecsMarked(0, Z)
    BY <2>1, <2>3 DEF ExecsMarked
  <2> QED
    BY <2>4, <2>5, <2>6, <2>7 DEF Along
<1>5. Z \in [0 .. Entries + 1 -> Nat] /\ 0 \in 0 .. Entries
  BY Constants
<1>6. Queues
  <2> HIDE DEF Z
  <2> QED
    BY <1>3, <1>4, <1>5 DEF Queues
<1> QED
  BY <1>1, <1>2, <1>6 DEF IInv

\* Nothing changes in a stuttering step.
LEMMA StutterKeeps ==
    ASSUME IInv, UNCHANGED vars
    PROVE  IInv'
<1>1. UNCHANGED pathVars /\ UNCHANGED <<cmddat, fence, cmdPtr, pending, inflight, stall, ppc, preamble>>
  BY DEF vars, hostVars, deviceVars, pathVars
<1>2. TypeOK'
  BY <1>1 DEF IInv, TypeOK, pathVars
<1>3. Cmddat'
  BY <1>1, CmddatKept DEF IInv, pathVars
<1>4. InCmddat' = InCmddat /\ (ExecInCmddat' <=> ExecInCmddat)
  BY <1>1 DEF InCmddat, Ready, Coming, Header, ExecInCmddat
<1> QED
  BY <1>1, <1>2, <1>3, <1>4, QueuesKept DEF IInv

\* The host's and the prefetcher's view of the three queues fit together in every reachable state: the entries of the
\* prefetch queue are the commands in the issue queue in order, none of them overwritten, and the cmddat queue
\* continues them.
THEOREM FetchInvariant == Spec => []IInv
<1>1. Init => IInv
  BY InitKeeps
<1>2. IInv /\ [Next]_vars => IInv'
  <2> SUFFICES ASSUME IInv, [Next]_vars PROVE IInv'
    OBVIOUS
  <2>1. CASE \E size \in 1 .. MaxCmd, st \in BOOLEAN : HostIssue(size, st)
    BY <2>1, IssueKeeps
  <2>2. CASE HostStep
    BY <2>2, HostStepKeeps
  <2>3. CASE PcieReadLands
    BY <2>3, LandsKeeps
  <2>4. CASE PrefetcherStep
    BY <2>4, QuietStep, FetchIssueKeeps, BarrierIssueKeeps, ProcessKeeps DEF PrefetcherStep
  <2>5. CASE UNCHANGED vars
    BY <2>5, StutterKeeps
  <2> QED
    BY <2>1, <2>2, <2>3, <2>4, <2>5 DEF Next
<1> QED
  BY <1>1, <1>2, PTL DEF Spec

\* Every variable of the host and of the prefetcher stays in its range: no pointer runs past its queue, and no more
\* units are outstanding than the queues hold.
THEOREM TypeCorrect == Spec => []TypeOK
<1>1. IInv => TypeOK
  BY DEF IInv
<1> QED
  BY <1>1, FetchInvariant, PTL

\* The prefetcher processes exactly the units that the host wrote, in their order and intact.
THEOREM ProcessesInOrderHolds == Spec => []ProcessesInOrder
<1>1. IInv => ProcessesInOrder
  BY DEF IInv, Cmddat, PlacesInCmddat, UnitsInCmddat, PrefetcherAt, ProcessesInOrder
<1> QED
  BY <1>1, FetchInvariant, PTL

\* A read of the issue queue finds what the host wrote: the TT_FATAL bound on the queue's size is enough for a host
\* that only looks at the prefetch queue.
THEOREM IssueDataIntactHolds == Spec => []IssueDataIntact
<1>1. IInv => IssueDataIntact
  <2> SUFFICES ASSUME IInv, inflight # None PROVE \E t \in Tags : \A k \in 0 .. inflight.size - 1 : issueQ[inflight.src + k] = t + k
    BY DEF IssueDataIntact
  <2>1. TypeOK /\ PlacesInCmddat /\ UnitsInCmddat
    BY DEF IInv, Cmddat
  <2>2. Ready \in Tags
    <3>1. Ready \in Nat /\ Coming \in Nat /\ InCmddat = Ready + Coming /\ InCmddat \in 0 .. CmddatSize
      BY <2>1, InCmddatFits
    <3> QED
      BY <3>1, Constants DEF Tags
  <2> QED
    BY <2>1, <2>2 DEF UnitsInCmddat
<1> QED
  BY <1>1, FetchInvariant, PTL

\* An exec_buf is processed only while the prefetcher is stalled and alone in the cmddat queue, and a stalled
\* prefetcher has one to process.
THEOREM ExecBufAloneHolds == Spec => []ExecBufAlone
<1>1. IInv => ExecBufAlone
  <2> SUFFICES ASSUME IInv PROVE ExecBufAlone
    OBVIOUS
  <2>1. /\ PlacesInCmddat /\ UnitsInCmddat /\ PrefetcherAt
        /\ cmdPtr \in 0 .. CmddatSize /\ fence \in 0 .. CmddatSize /\ preamble \in {0, 1}
    BY DEF IInv, Cmddat, TypeOK
  <2>2. ASSUME ppc = "process", preamble = 0, cmddat[cmdPtr] \in execs
        PROVE  stall = "STALLED" /\ pending = 0 /\ inflight = None /\ cmdPtr + 1 = fence
    <3>1. cmdPtr \in cmdPtr + preamble .. fence - 1 /\ cmdPtr - (cmdPtr + preamble) = 0
      <4>1. cmdPtr < fence
        BY <2>1, <2>2 DEF PrefetcherAt
      <4> QED
        BY <2>1, <2>2, <4>1
    <3>2. cmddat[cmdPtr] = 0
      BY <2>1, <3>1 DEF UnitsInCmddat
    <3> QED
      BY <2>2, <3>2, ExecPlace
  <2>3. ASSUME stall = "STALLED"
        PROVE  pending = 0 /\ \E i \in cmdPtr .. fence - 1 : cmddat[i] \in execs
    <3>1. pending = 0 /\ cmdPtr < fence
      BY <2>1, <2>3 DEF PrefetcherAt
    <3>2. /\ fence - 1 \in cmdPtr + preamble .. fence - 1 /\ fence - 1 \in cmdPtr .. fence - 1
          /\ (fence - 1) - (cmdPtr + preamble) = Ready - 1
      <4>1. Ready = fence - cmdPtr - preamble /\ cmdPtr + preamble < fence
        BY <2>1, <3>1 DEF Ready, PlacesInCmddat
      <4> QED
        BY <2>1, <3>1, <4>1
    <3>3. cmddat[fence - 1] = Ready - 1
      BY <2>1, <3>2 DEF UnitsInCmddat
    <3>4. Ready - 1 \in execs
      BY <2>3, ExecPlace
    <3> QED
      BY <3>1, <3>2, <3>3, <3>4
  <2> QED
    BY <2>2, <2>3 DEF ExecBufAlone
<1> QED
  BY <1>1, FetchInvariant, PTL

=============================================================================
