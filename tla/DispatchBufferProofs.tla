------------------------ MODULE DispatchBufferProofs ------------------------
(***************************************************************************)
(* The invariants of DispatchBuffer, for every size of page, block, ring,  *)
(* scratch buffer and command, and for a dispatcher without a preamble.    *)
(*                                                                         *)
(* The ring reuses its addresses, so the invariant speaks of positions     *)
(* that count on from lap to lap, and of a plan: the function W from       *)
(* positions to the units that belong there.  A command enters the plan as *)
(* a whole when its header is written.  The prefetcher writes at position  *)
(* wr of it, of pages that are announced up to hi; what is written is in   *)
(* the ring or in a message under way (Channel); the dispatcher reads at   *)
(* base + ptr what the plan has there (Dispatcher).  All that is less than *)
(* a lap, since the pages between the cores add up to the ring (Space).    *)
(***************************************************************************)
EXTENDS DispatchBuffer, Integers, SequenceTheorems, WellFoundedInduction, TLAPS

-----------------------------------------------------------------------------
(* Positions *)

\* The units of n pages, and the positions at which a page begins.
Units(n) == n * PageSize
Aligned(x) == x % PageSize = 0

\* Positions count on past the end of the ring; base is the position of address 0 in the dispatcher's lap. A position
\* may be in the lap before or after it.
At(base, v) == IF v - base < RingSize THEN v - base ELSE v - base - RingSize
Place(base, v, a) == v - base \in {a, a + RingSize, a - RingSize}

-----------------------------------------------------------------------------
(* The plan: which unit belongs at a position.  A command enters it as a whole when its header is written. *)

Cell == [cmd : 0 .. 1, idx : Nat, len : Nat]
SizeOf(u) == IF u.len = TerminateLen THEN 1 ELSE u.len

\* A command of parity c begins at v, or will: par is the parity of the command that the prefetcher writes next, at end.
Begins(W, end, par, v, c) ==
    \/ v = end /\ c = par
    \/ v \in DOMAIN W /\ W[v].idx = 0 /\ W[v].cmd = c

CommandAt(W, end, par, s) ==
    /\ Aligned(s)
    /\ \A i \in 0 .. SizeOf(W[s]) - 1 : s + i \in DOMAIN W /\ W[s + i].cmd = W[s].cmd /\ W[s + i].idx = i
    /\ Begins(W, end, par, s + RoundUp(SizeOf(W[s])), 1 - W[s].cmd)
    /\ W[s].len = TerminateLen => s + PageSize = end

Plan(W, end, par) ==
    /\ DOMAIN W \subseteq Nat
    /\ \A v \in DOMAIN W : W[v] \in Cell /\ v < end
    /\ \A s \in DOMAIN W : W[s].idx = 0 => CommandAt(W, end, par, s)

-----------------------------------------------------------------------------
(* The messages that are under way *)

Msg ==
    [op : {"units"}, dst : Nat, units : Seq(Cell)]
      \cup [op : {"scratch"}, dst : Nat, half : 0 .. 1, off : Nat, n : Nat]
      \cup [op : {"inc"}, n : Nat]

\* How many units a message writes, and the j-th of them when it is sent.
Count(m) == IF m.op = "units" THEN Len(m.units) ELSE IF m.op = "scratch" THEN m.n ELSE 0
Value(sc, m, j) ==
    IF m.op = "units" THEN m.units[j + 1]
    ELSE [cmd |-> sc[m.half + 1].cmd, idx |-> sc[m.half + 1].first + m.off + j, len |-> 0]

\* A write to position p brings what the plan has there.
WriteAt(sc, base, W, m, p) ==
    /\ Place(base, p, m.dst)
    /\ m.dst + Count(m) <= RingSize
    /\ \A j \in 0 .. Count(m) - 1 : p + j \in DOMAIN W /\ W[p + j] = Value(sc, m, j)

\* P[k] is the position that message k writes to, R[k] how far pages are released by the messages before it.
InFlight(q, sc, base, wr, W, P, R) ==
    /\ P \in [1 .. Len(q) -> Nat] /\ R \in [1 .. Len(q) + 1 -> Nat]
    /\ \A k \in 1 .. Len(q) : R[k + 1] = R[k] + Units(IncOf(q[k]))
    /\ \A i, j \in 1 .. Len(q) + 1 : i <= j => R[i] <= R[j]
    /\ \A k \in 1 .. Len(q) : q[k].op # "inc" =>
         R[k] <= P[k] /\ P[k] + Count(q[k]) <= wr /\ WriteAt(sc, base, W, q[k], P[k])

\* What was written is in the ring or under way.
Arrives(q, rg, base, from, wr, W, P) ==
    \A v \in DOMAIN W : from <= v /\ v < wr =>
      \/ rg[At(base, v)] = W[v]
      \/ \E k \in 1 .. Len(q) : q[k].op # "inc" /\ P[k] <= v /\ v < P[k] + Count(q[k])

\* The messages q release the pages between lo and hi.
Channel(q, sc, rg, base, from, wr, W, lo, hi) ==
    /\ q \in Seq(Msg)
    /\ \E P, R : /\ InFlight(q, sc, base, wr, W, P, R)
                 /\ Arrives(q, rg, base, from, wr, W, P)
                 /\ R[1] = lo /\ R[Len(q) + 1] = hi

-----------------------------------------------------------------------------
(* The two cores *)

Last == {"flushLast", "waitAll", "out"}
Between == {"idle", "inline", "inlineLast", "header", "waitAll", "out"}
Relaying == {"relay", "barrier", "acquire"}

\* The parity of the command after the ones in the plan.
NextParity == IF ppc \in Between THEN pcmd ELSE 1 - pcmd

\* The half h holds the units of the command from i on, or the read of them is under way.
HalfHolds(h, i) ==
    IF reading = None THEN scratch[h + 1] = [cmd |-> pcmd, first |-> i]
    ELSE reading = [half |-> h, cmd |-> pcmd, first |-> i]

\* No message under way reads the half that is read into.
HalvesApart ==
    /\ reading # None => \A k \in 1 .. Len(outbox) : outbox[k].op = "scratch" => outbox[k].half # reading.half

RelayInPlan(wr, end, W, hi) ==
    /\ job.release = 1
    /\ job.idx >= 1 /\ job.idx + job.inScratch <= job.len /\ job.idx <= wr
    /\ Aligned(wr - job.idx) /\ end = (wr - job.idx) + RoundUp(job.len)
    /\ \A i \in 0 .. job.len - 1 : /\ (wr - job.idx) + i \in DOMAIN W
                                   /\ W[(wr - job.idx) + i] = Unit(i, job.len)
    /\ \A v \in DOMAIN W : v < (wr - job.idx) + job.len
    /\ Aligned(hi) /\ wr < hi + PageSize
    /\ ppc = "relay" => job.idx = 1 /\ job.inScratch = 0 /\ job.len > 1 /\ reading = None
    /\ ppc # "relay" => job.inScratch >= 1
    /\ ppc = "barrier" => HalfHolds(toggle, job.idx)
    /\ ppc = "acquire" => /\ job.idx + job.inScratch < job.len
                          /\ scratch[(1 - toggle) + 1] = [cmd |-> pcmd, first |-> job.idx]
                          /\ HalfHolds(toggle, job.idx + job.inScratch)

Prefetcher(base, wr, end, W, hi) ==
    /\ Place(base, wr, wrPtr)
    /\ hi <= wr /\ wr <= end /\ Aligned(end)
    /\ ppc \in Between => wr = end /\ hi = end /\ job.release = 0 /\ job.inScratch = 0
    /\ ppc = "inline" => job.len >= 1
    /\ ppc = "inlineLast" => job.len = 1
    /\ ppc = "header" => job.len > 1
    /\ ppc \in {"flush", "flushLast"} => wr = end /\ hi + Units(job.release) = end
    /\ ppc \in Between \cup {"flush", "flushLast"} => reading = None
    /\ ppc \in Relaying => RelayInPlan(wr, end, W, hi)
    /\ ppc \notin Last => \A s \in DOMAIN W : W[s].idx = 0 => W[s].len # TerminateLen

BlockStart == block * BlockSize
HeldUnits ==
    IF dpc \in {"waitAll", "out"} THEN 0
    ELSE fence - BlockStart + (IF prev /\ dpc # "releaseBlock" THEN BlockSize ELSE 0)

\* The pages are, in the order of the ring: held by the dispatcher, delivered, under way, acquired by the prefetcher,
\* free.
Space(base, hi) ==
    /\ Aligned(base) /\ Aligned(fence)
    /\ BlockStart <= fence /\ fence <= block_end
    /\ hi + Units(job.release) + Units(upSem) + Units(credits) + HeldUnits = base + fence + RingSize

Ending == {"barrier", "releaseBlock", "waitAll", "out"}
Executing == {"linear", "paged", "packed", "large", "relay"}

Executes ==
    /\ left >= 1 /\ left <= len
    /\ dpc # "relay" => left < len
    /\ dpc = "relay" \/ part # 0 => Aligned(ptr)
    /\ dpc = "packed" => part < XferSize /\ (left + part) % XferSize = 0
    /\ dpc # "packed" => part = 0
    /\ dpc = "large" => (len - 1) % LargeSpan = 0
    /\ ~InPad => BlockStart <= ptr
    /\ InPad /\ ptr < BlockStart => prev /\ ptr + pad_size > BlockStart

Dispatcher(base, end, par, W) ==
    /\ ptr <= fence
    /\ got => ~NeedsPage
    /\ dpc \notin Executing => left = 0 /\ part = 0
    /\ dpc = "cmd" => BlockStart <= ptr /\ Aligned(ptr) /\ Begins(W, end, par, base + ptr, dcmd)
    /\ dpc \in Executing =>
         /\ Executes
         /\ \A j \in 0 .. left - 1 : /\ base + ptr + j \in DOMAIN W
                                     /\ W[base + ptr + j].cmd = dcmd /\ W[base + ptr + j].idx = len - left + j
         /\ Begins(W, end, par, base + RoundUp(ptr + left), 1 - dcmd)
    /\ dpc \in Ending => /\ ppc \in Last /\ ~got
                         /\ base + fence = end /\ RoundUp(ptr) = fence /\ BlockStart <= ptr
    /\ dpc \in Ending \ {"barrier"} => ptr = fence /\ prev

\* A NOC write that is not sent yet reads from the block it was issued in, the current one or the one before.
Unsent ==
    unsent # <<>> =>
      LET w == unsent[1]
      IN /\ w.n >= 1 /\ w.src + w.n <= RingSize
         /\ since = 1 => BlockStart <= w.src
         /\ since = 0 => prev /\ IF block = 0 THEN RingSize - BlockSize <= w.src
                                 ELSE BlockStart - BlockSize <= w.src /\ w.src + w.n <= BlockStart
         /\ since = 1 \/ block # 0 => w.src + w.n <= ptr
         /\ \A k \in 0 .. w.n - 1 : ring[w.src + k].cmd = w.cmd /\ ring[w.src + k].idx = w.first + k
         /\ dpc \notin {"releaseBlock", "waitAll", "out"}

Types ==
    /\ lengths \in Lengths
    /\ ppc \in {"idle", "inline", "inlineLast", "header", "flush", "flushLast", "relay", "acquire", "barrier",
                "waitAll", "out"}
    /\ upSem \in Nat /\ credits \in Nat /\ delivered \in Nat /\ seen \in 0 .. delivered
    /\ wrPtr \in 0 .. RingSize
    /\ pcmd \in 0 .. 1 /\ dcmd \in 0 .. 1 /\ toggle \in 0 .. 1
    /\ job \in [len : Nat, idx : Nat, inScratch : Nat, release : Nat]
    /\ scratch \in [1 .. 2 -> [cmd : 0 .. 1, first : Nat]]
    /\ reading \in Read \cup {None}
    /\ dpc \in {"cmd"} \cup Executing \cup Ending
    /\ fence \in 0 .. RingSize /\ ptr \in 0 .. RingSize
    /\ block \in 0 .. Blocks - 1
    /\ got \in BOOLEAN /\ prev \in BOOLEAN
    /\ left \in Nat /\ len \in Nat /\ part \in Nat
    /\ since \in 0 .. 1
    /\ unsent \in Seq([src : Nat, n : Nat, cmd : 0 .. 1, first : Nat]) /\ Len(unsent) <= 1
    /\ DOMAIN ring = 0 .. RingSize - 1

Inside(base, wr, end, W, hi) ==
    /\ Plan(W, end, NextParity)
    /\ Channel(outbox, scratch, ring, base, base + ptr, wr, W, base + fence + Units(delivered), hi)
    /\ Prefetcher(base, wr, end, W, hi)
    /\ Space(base, hi)
    /\ Dispatcher(base, end, NextParity, W)

IInv ==
    /\ Types /\ HalvesApart /\ Unsent
    /\ \E base, wr, end, hi \in Nat : \E W : Inside(base, wr, end, W, hi)

-----------------------------------------------------------------------------
(* Lemmas on pages and blocks *)

\* Division with remainder.
LEMMA Quotient ==
    ASSUME NEW x \in Nat, NEW p \in Nat, p > 0
    PROVE  x \div p \in Nat /\ x % p \in 0 .. p - 1 /\ x = p * (x \div p) + (x % p)
<1>1. x % p \in 0 .. p - 1
  OBVIOUS
<1>2. x \div p \in Nat
  OBVIOUS
<1>3. x = p * (x \div p) + (x % p)
  OBVIOUS
<1> QED
  BY <1>1, <1>2, <1>3

\* Units is linear and grows with its argument.
LEMMA UnitsOf ==
    /\ \A a \in Nat : Units(a) \in Nat
    /\ Units(0) = 0 /\ Units(1) = PageSize
    /\ \A a, b \in Int : Units(a + b) = Units(a) + Units(b) /\ Units(a - b) = Units(a) - Units(b)
    /\ \A a, b \in Int : a <= b => Units(a) <= Units(b)
    /\ \A a, b \in Int : a < b => Units(a) + PageSize <= Units(b)
<1>1. PageSize \in Nat /\ PageSize > 1
  BY SizeAssumption
<1>2. \A a \in Nat : Units(a) \in Nat
  BY <1>1 DEF Units
<1>3. \A a, b \in Int : Units(a + b) = Units(a) + Units(b) /\ Units(a - b) = Units(a) - Units(b)
  BY <1>1 DEF Units
<1>4. \A a, b \in Int : a <= b => Units(a) <= Units(b)
  <2> SUFFICES ASSUME NEW a \in Int, NEW b \in Int, a <= b PROVE Units(a) <= Units(b)
    OBVIOUS
  <2>1. b - a \in Nat /\ Units(b - a) \in Nat
    BY <1>2
  <2>2. Units(b - a) = Units(b) - Units(a) /\ Units(a) \in Int /\ Units(b) \in Int
    BY <1>1, <1>3 DEF Units
  <2> QED
    BY <2>1, <2>2
<1>5. \A a, b \in Int : a < b => Units(a) + PageSize <= Units(b)
  <2> SUFFICES ASSUME NEW a \in Int, NEW b \in Int, a < b PROVE Units(a) + PageSize <= Units(b)
    OBVIOUS
  <2>1. a + 1 <= b /\ Units(a + 1) <= Units(b)
    BY <1>4
  <2>2. Units(a + 1) = Units(a) + PageSize
    BY <1>1 DEF Units
  <2> QED
    BY <2>1, <2>2
<1>6. Units(0) = 0 /\ Units(1) = PageSize
  BY <1>1 DEF Units
<1> QED
  BY <1>2, <1>3, <1>4, <1>5, <1>6

\* The positions at which a page begins are the whole numbers of pages.
LEMMA AlignedIs ==
    ASSUME NEW x \in Nat
    PROVE  Aligned(x) <=> \E k \in Nat : x = Units(k)
<1>1. PageSize \in Nat /\ PageSize > 1
  BY SizeAssumption
<1>2. x = PageSize * (x \div PageSize) + (x % PageSize) /\ x \div PageSize \in Nat /\ x % PageSize \in 0 .. PageSize - 1
  BY <1>1, Quotient
<1>3. ASSUME Aligned(x) PROVE \E k \in Nat : x = Units(k)
  <2>1. x = (x \div PageSize) * PageSize
    BY <1>1, <1>2, <1>3 DEF Aligned
  <2> QED
    BY <2>1, <1>2 DEF Units
<1>4. ASSUME NEW k \in Nat, x = Units(k) PROVE Aligned(x)
  BY <1>1, <1>4 DEF Aligned, Units
<1> QED
  BY <1>3, <1>4

\* They are closed under sum and difference, and a page apart.
LEMMA AlignedSum ==
    ASSUME NEW x \in Nat, NEW y \in Nat, Aligned(x), Aligned(y)
    PROVE  /\ Aligned(x + y)
           /\ x <= y => Aligned(y - x)
           /\ x < y => x + PageSize <= y
<1>1. PageSize \in Nat /\ PageSize > 1
  BY SizeAssumption
<1>2. PICK i \in Nat : x = Units(i)
  BY AlignedIs
<1>3. PICK j \in Nat : y = Units(j)
  BY AlignedIs
<1>4. x + y = Units(i + j) /\ i + j \in Nat
  BY <1>2, <1>3, UnitsOf
<1>5. Aligned(x + y)
  BY <1>4, AlignedIs
<1>6. ASSUME x <= y PROVE Aligned(y - x)
  <2>1. i <= j
    <3>1. ~(j < i)
      <4>1. j < i => Units(j) + PageSize <= Units(i)
        BY UnitsOf
      <4> QED
        BY <4>1, <1>1, <1>2, <1>3, <1>6
    <3> QED
      BY <3>1
  <2>2. y - x = Units(j - i) /\ j - i \in Nat
    BY <2>1, <1>2, <1>3, UnitsOf
  <2>3. y - x \in Nat
    BY <1>6
  <2> QED
    BY <2>2, <2>3, AlignedIs
<1>7. ASSUME x < y PROVE x + PageSize <= y
  <2>1. i < j
    <3>1. ~(j <= i)
      <4>1. j <= i => Units(j) <= Units(i)
        BY UnitsOf
      <4> QED
        BY <4>1, <1>1, <1>2, <1>3, <1>7
    <3> QED
      BY <3>1
  <2> QED
    BY <2>1, <1>2, <1>3, UnitsOf
<1> QED
  BY <1>5, <1>6, <1>7

\* RoundUp is the next of them ...
LEMMA RoundUpIs ==
    ASSUME NEW x \in Nat
    PROVE  /\ PagesOf(x) \in Nat /\ RoundUp(x) = Units(PagesOf(x))
           /\ RoundUp(x) \in Nat /\ Aligned(RoundUp(x))
           /\ x <= RoundUp(x) /\ RoundUp(x) < x + PageSize
           /\ x >= 1 => PagesOf(x) >= 1
<1>1. PageSize \in Nat /\ PageSize > 1
  BY SizeAssumption
<1> DEFINE z == x + PageSize - 1
<1>2. z \in Nat
  BY <1>1
<1>3. z = PageSize * (z \div PageSize) + (z % PageSize) /\ z \div PageSize \in Nat /\ z % PageSize \in 0 .. PageSize - 1
  <2> HIDE DEF z
  <2> QED
    BY <1>1, <1>2, Quotient
<1>4. PagesOf(x) = z \div PageSize
  BY DEF PagesOf
<1> DEFINE q == z \div PageSize
           r == z % PageSize
<1>5. RoundUp(x) = Units(q) /\ Units(q) = PageSize * q
  BY <1>1, <1>3, <1>4 DEF RoundUp, Units
<1>6. x + PageSize - 1 = Units(q) + r /\ r \in 0 .. PageSize - 1 /\ q \in Nat
  <2>1. z = PageSize * q + r /\ r \in 0 .. PageSize - 1 /\ q \in Nat
    BY <1>3
  <2>2. z = Units(q) + r
    BY <2>1, <1>5
  <2> QED
    BY <2>1, <2>2
<1>7. Units(q) \in Nat
  BY <1>6, UnitsOf
<1> HIDE DEF q, r, z
<1>8. x <= Units(q) /\ Units(q) < x + PageSize
  BY <1>1, <1>6, <1>7
<1>9. x >= 1 => q >= 1
  <2>1. q = 0 => Units(q) = 0
    BY UnitsOf
  <2> QED
    BY <2>1, <1>6, <1>8
<1> QED
  BY <1>4, <1>5, <1>6, <1>7, <1>8, <1>9, AlignedIs DEF q

\* ... the only one less than a page ahead ...
LEMMA RoundUpUnique ==
    ASSUME NEW x \in Nat, NEW y \in Nat, Aligned(y), x <= y, y < x + PageSize
    PROVE  RoundUp(x) = y
<1>1. PageSize \in Nat /\ PageSize > 1
  BY SizeAssumption
<1>2. /\ RoundUp(x) \in Nat /\ Aligned(RoundUp(x)) /\ x <= RoundUp(x) /\ RoundUp(x) < x + PageSize
  BY RoundUpIs
<1>3. ~(RoundUp(x) < y)
  BY <1>1, <1>2, AlignedSum
<1>4. ~(y < RoundUp(x))
  BY <1>1, <1>2, AlignedSum
<1> QED
  BY <1>2, <1>3, <1>4

\* ... so that whole pages can be taken out of it.
LEMMA RoundUpFacts ==
    ASSUME NEW x \in Nat, NEW y \in Nat, Aligned(y)
    PROVE  /\ RoundUp(y) = y
           /\ x <= y => RoundUp(x) <= y
           /\ RoundUp(y + x) = y + RoundUp(x)
           /\ x > y => RoundUp(x) > y
<1>1. PageSize \in Nat /\ PageSize > 1
  BY SizeAssumption
<1>2. /\ RoundUp(x) \in Nat /\ Aligned(RoundUp(x)) /\ x <= RoundUp(x) /\ RoundUp(x) < x + PageSize
  BY RoundUpIs
<1>3. RoundUp(y) = y
  BY <1>1, RoundUpUnique
<1>4. x <= y => RoundUp(x) <= y
  <2>1. ~(y < RoundUp(x) /\ x <= y)
    <3>1. y < RoundUp(x) => y + PageSize <= RoundUp(x)
      BY <1>2, AlignedSum
    <3> QED
      BY <3>1, <1>1, <1>2
  <2> QED
    BY <2>1, <1>2
<1>5. RoundUp(y + x) = y + RoundUp(x)
  <2>1. Aligned(y + RoundUp(x)) /\ y + RoundUp(x) \in Nat
    <3>1. \A u, w \in Nat : Aligned(u) /\ Aligned(w) => Aligned(u + w)
      BY AlignedSum
    <3> QED
      BY <1>2, <3>1
  <2> QED
    BY <2>1, <1>1, <1>2, RoundUpUnique
<1> QED
  BY <1>2, <1>3, <1>4, <1>5

\* The sizes, without a product.
LEMMA Sizes ==
    /\ PageSize \in Nat /\ PageSize > 1
    /\ RingSize \in Nat /\ RingSize = Units(Pages) /\ Pages \in Nat /\ Aligned(RingSize)
    /\ BlockSize \in Nat /\ BlockSize >= PageSize /\ BlockSize = Units(BlockPages) /\ BlockPages \in Nat
    /\ Aligned(BlockSize) /\ Blocks \in Nat /\ Blocks > 2
    /\ XferSize \in 1 .. PageSize /\ Alignment \in 1 .. PageSize /\ LargeSize \in Nat /\ LargeSize >= 1
<1>1. /\ PageSize \in Nat /\ PageSize > 1 /\ BlockPages \in Nat /\ BlockPages >= 1 /\ Blocks \in Nat /\ Blocks > 2
      /\ XferSize \in 1 .. PageSize /\ Alignment \in 1 .. PageSize /\ LargeSize \in Nat /\ LargeSize >= 1
  BY SizeAssumption
<1>2. Pages \in Nat
  BY <1>1 DEF Pages
<1>3. RingSize = Units(Pages) /\ RingSize \in Nat
  BY <1>1, <1>2, UnitsOf DEF RingSize, Units
<1>4. BlockSize = Units(BlockPages) /\ BlockSize \in Nat
  BY <1>1, UnitsOf DEF BlockSize, Units
<1>5. BlockSize >= PageSize
  BY <1>1, <1>4, UnitsOf
<1> QED
  BY <1>1, <1>2, <1>3, <1>4, <1>5, AlignedIs

\* Blocks follow each other and end with the ring.
LEMMA BlockBounds ==
    ASSUME NEW b \in 0 .. Blocks - 1
    PROVE  /\ b * BlockSize \in Nat /\ Aligned(b * BlockSize)
           /\ (b + 1) * BlockSize = b * BlockSize + BlockSize
           /\ Aligned((b + 1) * BlockSize) /\ (b + 1) * BlockSize \in Nat
           /\ b * BlockSize + BlockSize <= RingSize
           /\ b = Blocks - 1 => b * BlockSize + BlockSize = RingSize
           /\ b # Blocks - 1 => b * BlockSize + BlockSize + BlockSize <= RingSize
           /\ b = 0 => b * BlockSize = 0
           /\ b * BlockSize = Units(b * BlockPages) /\ b * BlockPages \in Nat
<1>1. BlockSize \in Nat /\ Blocks \in Nat /\ BlockPages \in Nat /\ PageSize \in Nat /\ b \in Nat
  BY Sizes
<1>2. b * BlockSize \in Nat /\ b * BlockPages \in Nat
  BY <1>1
<1>3. (b + 1) * BlockSize = b * BlockSize + BlockSize
  BY <1>1
<1>4. b * BlockSize = Units(b * BlockPages)
  BY <1>1 DEF Units, BlockSize
<1>5. Aligned(b * BlockSize)
  BY <1>2, <1>4, AlignedIs
<1>6. Aligned((b + 1) * BlockSize)
  BY <1>1, <1>2, <1>3, <1>5, Sizes, AlignedSum
<1>7. RingSize = Blocks * BlockSize
  BY <1>1 DEF RingSize, Pages, BlockSize
<1>8. Blocks = b + 1 + (Blocks - 1 - b) /\ Blocks - 1 - b \in Nat
  BY <1>1
<1> DEFINE d == Blocks - 1 - b
<1>9. Blocks * BlockSize = b * BlockSize + BlockSize + d * BlockSize
  BY <1>1
<1>10. d * BlockSize \in Nat /\ (d >= 1 => d * BlockSize >= BlockSize) /\ (d = 0 => d * BlockSize = 0)
  <2>1. d \in Nat
    BY <1>8
  <2> HIDE DEF d
  <2>2. ASSUME d >= 1 PROVE d * BlockSize >= BlockSize
    <3>1. (d - 1) * BlockSize \in Nat
      BY <2>1, <2>2, <1>1
    <3>2. d * BlockSize = (d - 1) * BlockSize + BlockSize
      BY <2>1, <1>1
    <3> QED
      BY <3>1, <3>2, <1>1
  <2> QED
    BY <2>1, <2>2, <1>1
<1>11. /\ b * BlockSize + BlockSize <= RingSize
       /\ b = Blocks - 1 => b * BlockSize + BlockSize = RingSize
       /\ b # Blocks - 1 => b * BlockSize + BlockSize + BlockSize <= RingSize
  <2>1. (b = Blocks - 1 => d = 0) /\ (b # Blocks - 1 => d >= 1)
    BY <1>1
  <2> HIDE DEF d
  <2> QED
    BY <2>1, <1>1, <1>2, <1>7, <1>9, <1>10
<1>12. b = 0 => b * BlockSize = 0
  BY <1>1
<1> QED
  BY <1>1, <1>2, <1>3, <1>4, <1>5, <1>6, <1>11, <1>12

-----------------------------------------------------------------------------
(* Lemmas on the messages under way *)

\* What one message adds.
LEMMA MsgFacts ==
    ASSUME NEW m \in Msg
    PROVE  /\ Count(m) \in Nat /\ IncOf(m) \in Nat /\ Units(IncOf(m)) \in Nat
           /\ m.op = "inc" => Count(m) = 0
           /\ m.op # "inc" => IncOf(m) = 0 /\ Units(IncOf(m)) = 0 /\ m.dst \in Nat
           /\ m.op \in {"units", "scratch", "inc"}
<1>1. CASE m \in [op : {"units"}, dst : Nat, units : Seq(Cell)]
  <2>1. m.op = "units" /\ m.dst \in Nat /\ m.units \in Seq(Cell)
    BY <1>1
  <2>2. Len(m.units) \in Nat
    BY <2>1
  <2> QED
    BY <2>1, <2>2, UnitsOf DEF Count, IncOf
<1>2. CASE m \in [op : {"scratch"}, dst : Nat, half : 0 .. 1, off : Nat, n : Nat]
  BY <1>2, UnitsOf DEF Count, IncOf
<1>3. CASE m \in [op : {"inc"}, n : Nat]
  BY <1>3, UnitsOf DEF Count, IncOf
<1> QED
  BY <1>1, <1>2, <1>3 DEF Msg

\* One more message.
LEMMA AddMessage ==
    ASSUME NEW q, NEW sc, NEW rg, NEW base \in Nat, NEW from \in Nat, NEW wr \in Nat, NEW W, NEW lo, NEW hi \in Nat,
           DOMAIN W \subseteq Nat,
           Channel(q, sc, rg, base, from, wr, W, lo, hi),
           NEW m \in Msg,
           m.op # "inc" => hi <= wr /\ WriteAt(sc, base, W, m, wr)
    PROVE  Channel(Append(q, m), sc, rg, base, from, wr + Count(m), W, lo, hi + Units(IncOf(m)))
<1>1. q \in Seq(Msg) /\ Len(q) \in Nat
  BY DEF Channel
<1>2. PICK P, R : /\ InFlight(q, sc, base, wr, W, P, R)
                  /\ Arrives(q, rg, base, from, wr, W, P)
                  /\ R[1] = lo /\ R[Len(q) + 1] = hi
  BY DEF Channel
<1> DEFINE n == Len(q)
           u == Append(q, m)
           PP == [k \in 1 .. n + 1 |-> IF k <= n THEN P[k] ELSE wr]
           RR == [k \in 1 .. n + 2 |-> IF k <= n + 1 THEN R[k] ELSE hi + Units(IncOf(m))]
<1>3. u \in Seq(Msg) /\ Len(u) = n + 1 /\ u[n + 1] = m /\ \A k \in 1 .. n : u[k] = q[k]
  BY <1>1
<1>4. Count(m) \in Nat /\ Units(IncOf(m)) \in Nat
  BY MsgFacts
<1>5. P \in [1 .. n -> Nat] /\ R \in [1 .. n + 1 -> Nat]
  BY <1>2 DEF InFlight
<1>6. PP \in [1 .. Len(u) -> Nat] /\ RR \in [1 .. Len(u) + 1 -> Nat]
  BY <1>1, <1>3, <1>4, <1>5
<1>7. \A k \in 1 .. Len(u) : RR[k + 1] = RR[k] + Units(IncOf(u[k]))
  <2> SUFFICES ASSUME NEW k \in 1 .. n + 1 PROVE RR[k + 1] = RR[k] + Units(IncOf(u[k]))
    BY <1>3
  <2>1. CASE k <= n
    <3>1. R[k + 1] = R[k] + Units(IncOf(q[k]))
      BY <2>1, <1>1, <1>2 DEF InFlight
    <3> QED
      BY <2>1, <3>1, <1>1, <1>3
  <2>2. CASE k = n + 1
    BY <2>2, <1>1, <1>2, <1>3
  <2> QED
    BY <2>1, <2>2, <1>1
<1>8. \A i, j \in 1 .. Len(u) + 1 : i <= j => RR[i] <= RR[j]
  <2> SUFFICES ASSUME NEW i \in 1 .. n + 2, NEW j \in 1 .. n + 2, i <= j PROVE RR[i] <= RR[j]
    BY <1>3
  <2>1. \A l \in 1 .. n + 1 : R[l] <= hi /\ R[l] \in Nat
    <3> SUFFICES ASSUME NEW l \in 1 .. n + 1 PROVE R[l] <= hi /\ R[l] \in Nat
      OBVIOUS
    <3>1. l <= n + 1 /\ n + 1 \in 1 .. n + 1
      BY <1>1
    <3>2. R[l] <= R[n + 1]
      BY <3>1, <1>2 DEF InFlight
    <3> QED
      BY <3>2, <1>2, <1>5
  <2>2. CASE j <= n + 1
    BY <2>2, <1>1, <1>2 DEF InFlight
  <2>3. CASE j = n + 2 /\ i <= n + 1
    BY <2>1, <2>3, <1>1, <1>4
  <2>4. CASE j = n + 2 /\ i = n + 2
    BY <2>4, <1>1, <1>4
  <2> QED
    BY <2>2, <2>3, <2>4, <1>1
<1>9. \A k \in 1 .. Len(u) : u[k].op # "inc" =>
         RR[k] <= PP[k] /\ PP[k] + Count(u[k]) <= wr + Count(m) /\ WriteAt(sc, base, W, u[k], PP[k])
  <2> SUFFICES ASSUME NEW k \in 1 .. n + 1, u[k].op # "inc"
               PROVE RR[k] <= PP[k] /\ PP[k] + Count(u[k]) <= wr + Count(m) /\ WriteAt(sc, base, W, u[k], PP[k])
    BY <1>3
  <2>1. CASE k <= n
    <3>1. R[k] <= P[k] /\ P[k] + Count(q[k]) <= wr /\ WriteAt(sc, base, W, q[k], P[k])
      BY <2>1, <1>1, <1>2, <1>3 DEF InFlight
    <3>2. Count(q[k]) \in Nat /\ P[k] \in Nat
      <4>1. q[k] \in Msg
        BY <2>1, <1>1
      <4> QED
        BY <2>1, <4>1, <1>5, MsgFacts
    <3> QED
      BY <2>1, <3>1, <3>2, <1>1, <1>3, <1>4, SMTT(30)
  <2>2. CASE k = n + 1
    BY <2>2, <1>1, <1>2, <1>3, <1>4
  <2> QED
    BY <2>1, <2>2, <1>1
<1>10. InFlight(u, sc, base, wr + Count(m), W, PP, RR)
  BY <1>6, <1>7, <1>8, <1>9 DEF InFlight
<1>11. Arrives(u, rg, base, from, wr + Count(m), W, PP)
  <2> SUFFICES ASSUME NEW v \in DOMAIN W, from <= v, v < wr + Count(m)
               PROVE  \/ rg[At(base, v)] = W[v]
                      \/ \E k \in 1 .. Len(u) : u[k].op # "inc" /\ PP[k] <= v /\ v < PP[k] + Count(u[k])
    BY DEF Arrives
  <2>1. CASE v < wr
    <3>1. \/ rg[At(base, v)] = W[v]
          \/ \E k \in 1 .. n : q[k].op # "inc" /\ P[k] <= v /\ v < P[k] + Count(q[k])
      BY <2>1, <1>2 DEF Arrives
    <3> QED
      BY <3>1, <1>1, <1>3
  <2>2. CASE ~(v < wr)
    <3>1. v \in Nat
      OBVIOUS
    <3>2. m.op # "inc"
      BY <2>2, <3>1, <1>4, MsgFacts
    <3>3. PP[n + 1] = wr /\ n + 1 \in 1 .. Len(u)
      BY <1>1, <1>3
    <3> QED
      BY <2>2, <3>1, <3>2, <3>3, <1>3
  <2> QED
    BY <2>1, <2>2
<1>12. RR[1] = lo /\ RR[Len(u) + 1] = hi + Units(IncOf(m))
  BY <1>1, <1>2, <1>3
<1> HIDE DEF PP, RR
<1> QED
  BY <1>3, <1>10, <1>11, <1>12 DEF Channel

\* The prefetcher moves over positions that the plan does not use.
LEMMA SkipPadding ==
    ASSUME NEW q, NEW sc, NEW rg, NEW base \in Nat, NEW from \in Nat, NEW wr \in Nat, NEW W, NEW lo, NEW hi,
           Channel(q, sc, rg, base, from, wr, W, lo, hi),
           NEW wr1 \in Nat, wr <= wr1,
           DOMAIN W \subseteq Nat, \A v \in DOMAIN W : v < wr \/ wr1 <= v
    PROVE  Channel(q, sc, rg, base, from, wr1, W, lo, hi)
<1>1. q \in Seq(Msg) /\ Len(q) \in Nat
  BY DEF Channel
<1>2. PICK P, R : /\ InFlight(q, sc, base, wr, W, P, R)
                  /\ Arrives(q, rg, base, from, wr, W, P)
                  /\ R[1] = lo /\ R[Len(q) + 1] = hi
  BY DEF Channel
<1>3. InFlight(q, sc, base, wr1, W, P, R)
  <2>1. \A k \in 1 .. Len(q) : q[k].op # "inc" =>
          R[k] <= P[k] /\ P[k] + Count(q[k]) <= wr1 /\ WriteAt(sc, base, W, q[k], P[k])
    <3> SUFFICES ASSUME NEW k \in 1 .. Len(q), q[k].op # "inc"
                 PROVE R[k] <= P[k] /\ P[k] + Count(q[k]) <= wr1 /\ WriteAt(sc, base, W, q[k], P[k])
      OBVIOUS
    <3>1. R[k] <= P[k] /\ P[k] + Count(q[k]) <= wr /\ WriteAt(sc, base, W, q[k], P[k]) /\ P[k] \in Nat
      BY <1>2 DEF InFlight
    <3>2. Count(q[k]) \in Nat
      BY <1>1, MsgFacts
    <3> QED
      BY <3>1, <3>2
  <2> QED
    BY <2>1, <1>2 DEF InFlight
<1>4. Arrives(q, rg, base, from, wr1, W, P)
  <2> SUFFICES ASSUME NEW v \in DOMAIN W, from <= v, v < wr1
               PROVE  \/ rg[At(base, v)] = W[v]
                      \/ \E k \in 1 .. Len(q) : q[k].op # "inc" /\ P[k] <= v /\ v < P[k] + Count(q[k])
    BY DEF Arrives
  <2>1. v < wr
    OBVIOUS
  <2> QED
    BY <2>1, <1>2 DEF Arrives
<1> QED
  BY <1>1, <1>2, <1>3, <1>4 DEF Channel

\* The plan grows behind what was written.
LEMMA ExtendPlan ==
    ASSUME NEW q, NEW sc, NEW rg, NEW base \in Nat, NEW from \in Nat, NEW wr \in Nat, NEW W, NEW lo, NEW hi,
           Channel(q, sc, rg, base, from, wr, W, lo, hi),
           NEW X, DOMAIN W \subseteq DOMAIN X, \A v \in DOMAIN W : X[v] = W[v],
           \A v \in DOMAIN X : v \in DOMAIN W \/ ~(v < wr)
    PROVE  Channel(q, sc, rg, base, from, wr, X, lo, hi)
<1>1. q \in Seq(Msg) /\ Len(q) \in Nat
  BY DEF Channel
<1>2. PICK P, R : /\ InFlight(q, sc, base, wr, W, P, R)
                  /\ Arrives(q, rg, base, from, wr, W, P)
                  /\ R[1] = lo /\ R[Len(q) + 1] = hi
  BY DEF Channel
<1>3. InFlight(q, sc, base, wr, X, P, R)
  <2>1. \A k \in 1 .. Len(q) : WriteAt(sc, base, W, q[k], P[k]) => WriteAt(sc, base, X, q[k], P[k])
    BY DEF WriteAt
  <2> QED
    BY <2>1, <1>2 DEF InFlight
<1>4. Arrives(q, rg, base, from, wr, X, P)
  BY <1>2 DEF Arrives
<1> QED
  BY <1>1, <1>2, <1>3, <1>4 DEF Channel

\* The ring rg has what the plan has between two positions.
Present(rg, base, W, from, lo) == \A v \in DOMAIN W : from <= v /\ v < lo => rg[At(base, v)] = W[v]

\* What the plan has in front of the delivered pages is in the ring.
LEMMA IsThere ==
    ASSUME NEW q, NEW sc, NEW rg, NEW base \in Nat, NEW from \in Nat, NEW wr \in Nat, NEW W, NEW lo, NEW hi,
           Channel(q, sc, rg, base, from, wr, W, lo, hi), DOMAIN W \subseteq Nat,
           hi <= wr
    PROVE  Present(rg, base, W, from, lo)
<1> SUFFICES ASSUME NEW v \in DOMAIN W, from <= v, v < lo PROVE rg[At(base, v)] = W[v]
  BY DEF Present
<1>1. q \in Seq(Msg) /\ Len(q) \in Nat
  BY DEF Channel
<1>2. PICK P, R : /\ InFlight(q, sc, base, wr, W, P, R)
                  /\ Arrives(q, rg, base, from, wr, W, P)
                  /\ R[1] = lo /\ R[Len(q) + 1] = hi
  BY DEF Channel
<1>3. R \in [1 .. Len(q) + 1 -> Nat] /\ P \in [1 .. Len(q) -> Nat]
  BY <1>2 DEF InFlight
<1>4. \A k \in 1 .. Len(q) + 1 : R[1] <= R[k]
  BY <1>1, <1>2 DEF InFlight
<1>5. lo \in Nat /\ hi \in Nat /\ lo <= hi
  BY <1>1, <1>2, <1>3, <1>4
<1>6. v < wr /\ v \in Nat
  BY <1>5
<1>7. ASSUME NEW k \in 1 .. Len(q), q[k].op # "inc" PROVE ~(P[k] <= v)
  <2>1. R[k] <= P[k] /\ P[k] \in Nat /\ R[k] \in Nat /\ lo <= R[k]
    <3>1. R[k] <= P[k] /\ P[k] \in Nat
      BY <1>2, <1>3, <1>7 DEF InFlight
    <3>2. k \in 1 .. Len(q) + 1
      BY <1>1
    <3> QED
      BY <3>1, <3>2, <1>2, <1>3, <1>4
  <2>2. PICK x \in Nat, y \in Nat, z \in Nat, l \in Nat : x = P[k] /\ y = R[k] /\ z = v /\ l = lo
    BY <2>1, <1>5, <1>6
  <2>3. y <= x /\ l <= y /\ z < l
    BY <2>1, <2>2
  <2>4. ~(x <= z)
    BY <2>3
  <2> QED
    BY <2>2, <2>4
<1> QED
  BY <1>2, <1>6, <1>7 DEF Arrives

\* The ring changes only where nothing is to be read.
LEMMA RingKept ==
    ASSUME NEW q, NEW sc, NEW rg, NEW base \in Nat, NEW from \in Nat, NEW wr \in Nat, NEW W, NEW lo, NEW hi,
           Channel(q, sc, rg, base, from, wr, W, lo, hi), DOMAIN W \subseteq Nat,
           NEW rg1, NEW from1 \in Nat, from <= from1,
           \A v \in Nat : from1 <= v /\ v < wr => rg1[At(base, v)] = rg[At(base, v)]
    PROVE  Channel(q, sc, rg1, base, from1, wr, W, lo, hi)
<1>1. q \in Seq(Msg) /\ Len(q) \in Nat
  BY DEF Channel
<1>2. PICK P, R : /\ InFlight(q, sc, base, wr, W, P, R)
                  /\ Arrives(q, rg, base, from, wr, W, P)
                  /\ R[1] = lo /\ R[Len(q) + 1] = hi
  BY DEF Channel
<1>3. Arrives(q, rg1, base, from1, wr, W, P)
  <2> SUFFICES ASSUME NEW v \in DOMAIN W, from1 <= v, v < wr
               PROVE  \/ rg1[At(base, v)] = W[v]
                      \/ \E k \in 1 .. Len(q) : q[k].op # "inc" /\ P[k] <= v /\ v < P[k] + Count(q[k])
    BY DEF Arrives
  <2>1. v \in Nat /\ from <= v
    OBVIOUS
  <2>2. rg1[At(base, v)] = rg[At(base, v)]
    BY <2>1
  <2> QED
    BY <2>1, <2>2, <1>2 DEF Arrives
<1> QED
  BY <1>1, <1>2, <1>3 DEF Channel

\* A half that no message reads may change.
LEMMA ScratchKept ==
    ASSUME NEW q, NEW sc, NEW rg, NEW base \in Nat, NEW from \in Nat, NEW wr \in Nat, NEW W, NEW lo, NEW hi,
           Channel(q, sc, rg, base, from, wr, W, lo, hi),
           NEW sc1, \A k \in 1 .. Len(q) : q[k].op = "scratch" => sc1[q[k].half + 1] = sc[q[k].half + 1]
    PROVE  Channel(q, sc1, rg, base, from, wr, W, lo, hi)
<1>1. q \in Seq(Msg) /\ Len(q) \in Nat
  BY DEF Channel
<1>2. PICK P, R : /\ InFlight(q, sc, base, wr, W, P, R)
                  /\ Arrives(q, rg, base, from, wr, W, P)
                  /\ R[1] = lo /\ R[Len(q) + 1] = hi
  BY DEF Channel
<1>3. InFlight(q, sc1, base, wr, W, P, R)
  <2>1. \A k \in 1 .. Len(q) : q[k].op # "inc" /\ WriteAt(sc, base, W, q[k], P[k]) => WriteAt(sc1, base, W, q[k], P[k])
    <3> SUFFICES ASSUME NEW k \in 1 .. Len(q), q[k].op # "inc", WriteAt(sc, base, W, q[k], P[k])
                 PROVE WriteAt(sc1, base, W, q[k], P[k])
      OBVIOUS
    <3>1. q[k] \in Msg
      BY <1>1
    <3>2. q[k].op = "units" \/ q[k].op = "scratch"
      BY <3>1, MsgFacts
    <3>3. \A j : Value(sc1, q[k], j) = Value(sc, q[k], j)
      BY <3>2 DEF Value
    <3> QED
      BY <3>3 DEF WriteAt
  <2> QED
    BY <2>1, <1>2 DEF InFlight
<1> QED
  BY <1>1, <1>2, <1>3 DEF Channel

\* The dispatcher begins the next lap.
LEMMA NextLap ==
    ASSUME NEW q, NEW sc, NEW rg, NEW base \in Nat, NEW from \in Nat, NEW wr \in Nat, NEW W, NEW lo, NEW hi,
           Channel(q, sc, rg, base, from, wr, W, lo, hi), DOMAIN W \subseteq Nat,
           NEW from1 \in Nat, from <= from1, base + RingSize <= from1, base + RingSize <= lo,
           wr <= base + RingSize + RingSize
    PROVE  Channel(q, sc, rg, base + RingSize, from1, wr, W, lo, hi)
<1>1. q \in Seq(Msg) /\ Len(q) \in Nat
  BY DEF Channel
<1>2. PICK P, R : /\ InFlight(q, sc, base, wr, W, P, R)
                  /\ Arrives(q, rg, base, from, wr, W, P)
                  /\ R[1] = lo /\ R[Len(q) + 1] = hi
  BY DEF Channel
<1>3. RingSize \in Nat
  BY Sizes
<1>4. Arrives(q, rg, base + RingSize, from1, wr, W, P)
  <2> SUFFICES ASSUME NEW v \in DOMAIN W, from1 <= v, v < wr
               PROVE  \/ rg[At(base + RingSize, v)] = W[v]
                      \/ \E k \in 1 .. Len(q) : q[k].op # "inc" /\ P[k] <= v /\ v < P[k] + Count(q[k])
    BY DEF Arrives
  <2>1. v \in Nat /\ from <= v
    OBVIOUS
  <2>2. At(base + RingSize, v) = At(base, v)
    BY <2>1, <1>3 DEF At
  <2> QED
    BY <2>1, <2>2, <1>2 DEF Arrives
<1>5. \A k \in 1 .. Len(q) : q[k].op # "inc" => WriteAt(sc, base + RingSize, W, q[k], P[k])
  <2> SUFFICES ASSUME NEW k \in 1 .. Len(q), q[k].op # "inc"
               PROVE WriteAt(sc, base + RingSize, W, q[k], P[k])
    OBVIOUS
  <2>1. /\ WriteAt(sc, base, W, q[k], P[k]) /\ R[k] <= P[k] /\ P[k] \in Nat /\ R[k] \in Nat
        /\ P[k] + Count(q[k]) <= wr
    BY <1>1, <1>2 DEF InFlight
  <2>2. R[1] <= R[k]
    BY <1>1, <1>2 DEF InFlight
  <2>3. q[k] \in Msg
    BY <1>1
  <2>4. q[k].dst \in Nat /\ Count(q[k]) \in Nat
    BY <2>3, MsgFacts
  <2>5. R[1] \in Nat /\ lo \in Nat
    <3>1. R \in [1 .. Len(q) + 1 -> Nat] /\ 1 \in 1 .. Len(q) + 1
      BY <1>1, <1>2 DEF InFlight
    <3> QED
      BY <3>1, <1>2
  <2>6. base + RingSize <= P[k]
    BY <2>1, <2>2, <2>5, <1>2, <1>3
  <2>7. Place(base, P[k], q[k].dst) /\ q[k].dst + Count(q[k]) <= RingSize
    BY <2>1 DEF WriteAt
  <2>8. Place(base + RingSize, P[k], q[k].dst)
    <3>1. ASSUME NEW p \in Nat, NEW a \in Nat, base + RingSize <= p, a <= RingSize, Place(base, p, a)
          PROVE  Place(base + RingSize, p, a)
      BY <3>1, <1>3, SMTT(30) DEF Place
    <3>2. q[k].dst <= RingSize
      BY <2>4, <2>7, <1>3
    <3> QED
      BY <2>1, <2>4, <2>6, <2>7, <3>1, <3>2
  <2> QED
    BY <2>1, <2>8 DEF WriteAt
<1>6. InFlight(q, sc, base + RingSize, wr, W, P, R)
  BY <1>2, <1>5 DEF InFlight
<1> QED
  BY <1>1, <1>2, <1>4, <1>6 DEF Channel

\* The ring when a message has arrived.
After(sc, rg, m) ==
    [a \in DOMAIN rg |-> IF m.op # "inc" /\ a >= m.dst /\ a < m.dst + Count(m) THEN Value(sc, m, a - m.dst) ELSE rg[a]]

\* Two positions less than a lap apart have different addresses.
LEMMA Apart ==
    ASSUME NEW base \in Nat, NEW v \in Nat, NEW w \in Nat, NEW a \in 0 .. RingSize - 1,
           base <= v, v < base + RingSize + RingSize, v - w < RingSize, w - v < RingSize,
           Place(base, w, a)
    PROVE  At(base, v) \in 0 .. RingSize - 1 /\ (At(base, v) = a <=> v = w)
BY Sizes DEF At, Place

\* Positions and addresses of the units of one write.
LEMMA UnitPlace ==
    ASSUME NEW base \in Nat, NEW p \in Nat, NEW d \in Nat, NEW v \in Nat, NEW a \in Nat, Place(base, p, d), v - p = a - d
    PROVE  Place(base, v, a)
BY Sizes DEF Place

\* The units of a write, counted from its first position and from its first address.
LEMMA UnitOfWrite ==
    ASSUME NEW p \in Nat, NEW d \in Nat, NEW c \in Nat
    PROVE  /\ \A v \in Nat : p <= v /\ v < p + c =>
                /\ v - p \in 0 .. c - 1 /\ p + (v - p) = v
                /\ d + (v - p) \in Nat /\ v - p = (d + (v - p)) - d
           /\ \A a \in Nat : d <= a /\ a < d + c =>
                /\ p + (a - d) \in Nat /\ p <= p + (a - d) /\ p + (a - d) < p + c
                /\ (p + (a - d)) - p = a - d
OBVIOUS

\* The first message arrives.
LEMMA Deliver ==
    ASSUME NEW q, NEW sc, NEW rg, NEW base \in Nat, NEW from \in Nat, NEW wr \in Nat, NEW W, NEW lo, NEW hi,
           Channel(q, sc, rg, base, from, wr, W, lo, hi), DOMAIN W \subseteq Nat,
           q # <<>>, DOMAIN rg = 0 .. RingSize - 1,
           base <= from, from <= lo, wr <= from + RingSize, wr <= base + RingSize + RingSize
    PROVE  /\ Channel(Tail(q), sc, After(sc, rg, Head(q)), base, from, wr, W, lo + Units(IncOf(Head(q))), hi)
           /\ \A a \in DOMAIN rg : After(sc, rg, Head(q))[a] # rg[a] =>
                \E v \in Nat : lo <= v /\ v < wr /\ Place(base, v, a)
<1>1. q \in Seq(Msg) /\ Len(q) \in Nat
  BY DEF Channel
<1>2. PICK P, R : /\ InFlight(q, sc, base, wr, W, P, R)
                  /\ Arrives(q, rg, base, from, wr, W, P)
                  /\ R[1] = lo /\ R[Len(q) + 1] = hi
  BY DEF Channel
<1> DEFINE n == Len(q)
           m == q[1]
           u == Tail(q)
           PP == [k \in 1 .. n - 1 |-> P[k + 1]]
           RR == [k \in 1 .. n |-> R[k + 1]]
           rg1 == After(sc, rg, m)
<1>3. n >= 1 /\ Head(q) = m /\ m \in Msg /\ u \in Seq(Msg) /\ Len(u) = n - 1 /\ \A k \in 1 .. n - 1 : u[k] = q[k + 1]
  BY <1>1
<1>4. P \in [1 .. n -> Nat] /\ R \in [1 .. n + 1 -> Nat]
  BY <1>2 DEF InFlight
<1>5. RingSize \in Nat
  BY Sizes
<1>6. PP \in [1 .. Len(u) -> Nat] /\ RR \in [1 .. Len(u) + 1 -> Nat]
  BY <1>1, <1>3, <1>4
<1>7. InFlight(u, sc, base, wr, W, PP, RR)
  <2>1. \A k \in 1 .. Len(u) : RR[k + 1] = RR[k] + Units(IncOf(u[k]))
    <3> SUFFICES ASSUME NEW k \in 1 .. n - 1 PROVE R[k + 1 + 1] = R[k + 1] + Units(IncOf(q[k + 1]))
      BY <1>1, <1>3
    <3>1. k + 1 \in 1 .. n
      BY <1>1
    <3> QED
      BY <3>1, <1>2 DEF InFlight
  <2>2. \A i, j \in 1 .. Len(u) + 1 : i <= j => RR[i] <= RR[j]
    <3> SUFFICES ASSUME NEW i \in 1 .. n, NEW j \in 1 .. n, i <= j PROVE R[i + 1] <= R[j + 1]
      BY <1>1, <1>3
    <3>1. i + 1 \in 1 .. n + 1 /\ j + 1 \in 1 .. n + 1 /\ i + 1 <= j + 1
      BY <1>1
    <3> QED
      BY <3>1, <1>2 DEF InFlight
  <2>3. \A k \in 1 .. Len(u) : u[k].op # "inc" =>
          RR[k] <= PP[k] /\ PP[k] + Count(u[k]) <= wr /\ WriteAt(sc, base, W, u[k], PP[k])
    <3> SUFFICES ASSUME NEW k \in 1 .. n - 1, u[k].op # "inc"
                 PROVE  RR[k] <= PP[k] /\ PP[k] + Count(u[k]) <= wr /\ WriteAt(sc, base, W, u[k], PP[k])
      BY <1>3
    <3>1. k + 1 \in 1 .. n /\ k \in 1 .. n /\ u[k] = q[k + 1] /\ PP[k] = P[k + 1] /\ RR[k] = R[k + 1]
      BY <1>1, <1>3
    <3> QED
      BY <3>1, <1>2 DEF InFlight
  <2> HIDE DEF PP, RR
  <2> QED
    BY <2>1, <2>2, <2>3, <1>6 DEF InFlight
<1>8. \A i \in 1 .. n : lo <= R[i]
  <2> SUFFICES ASSUME NEW i \in 1 .. n PROVE R[1] <= R[i]
    BY <1>2
  <2>1. 1 \in 1 .. n + 1 /\ i \in 1 .. n + 1 /\ 1 <= i
    BY <1>1
  <2> QED
    BY <2>1, <1>2 DEF InFlight
<1>9. lo \in Nat
  BY <1>1, <1>2, <1>4
<1>10. m.op # "inc" => /\ lo <= P[1] /\ P[1] + Count(m) <= wr /\ WriteAt(sc, base, W, m, P[1]) /\ P[1] \in Nat
                       /\ m.dst \in Nat /\ Count(m) \in Nat
  <2>1. 1 \in 1 .. n
    BY <1>1, <1>3
  <2> QED
    BY <2>1, <1>2, <1>3, <1>4, MsgFacts DEF InFlight
<1>11. Arrives(u, rg1, base, from, wr, W, PP)
  <2> SUFFICES ASSUME NEW v \in DOMAIN W, from <= v, v < wr
               PROVE  \/ rg1[At(base, v)] = W[v]
                      \/ \E k \in 1 .. Len(u) : u[k].op # "inc" /\ PP[k] <= v /\ v < PP[k] + Count(u[k])
    BY DEF Arrives
  <2>1. v \in Nat /\ At(base, v) \in 0 .. RingSize - 1
    BY <1>5 DEF At
  <2>2. CASE m.op # "inc" /\ P[1] <= v /\ v < P[1] + Count(m)
    <3> DEFINE j == v - P[1]
    <3>1. j \in 0 .. Count(m) - 1 /\ P[1] + j = v
      BY <2>1, <2>2, <1>10
    <3>2. W[v] = Value(sc, m, j) /\ m.dst + j \in 0 .. RingSize - 1
      <4>1. m.dst + Count(m) <= RingSize /\ W[P[1] + j] = Value(sc, m, j)
        BY <2>2, <3>1, <1>10 DEF WriteAt
      <4> QED
        <5>1. Count(m) \in Nat /\ m.dst \in Nat
          BY <2>2, <1>10
        <5> HIDE DEF j, m
        <5> QED
          BY <5>1, <4>1, <3>1, <1>5
    <3>3. Place(base, v, m.dst + j)
      <4>1. Place(base, P[1], m.dst)
        BY <2>2, <1>10 DEF WriteAt
      <4> QED
        <5>1. P[1] \in Nat /\ m.dst \in Nat /\ Count(m) \in Nat
          BY <2>2, <1>10
        <5> DEFINE b == m.dst + j
        <5>2. b \in Nat /\ v - P[1] = b - m.dst
          <6> HIDE DEF m
          <6> QED
            BY <5>1, <2>1, <2>2, SMTT(30)
        <5>3. Place(base, v, b)
          <6> HIDE DEF j, m, b
          <6> QED
            BY <5>1, <5>2, <4>1, <2>1, UnitPlace
        <5> QED
          BY <5>3
    <3> HIDE DEF j
    <3>4. At(base, v) = m.dst + j
      <4>1. v < base + RingSize + RingSize /\ v - v < RingSize /\ base <= v
        BY <2>1, <1>5, <3>2
      <4> QED
        BY <4>1, <2>1, <3>2, <3>3, Apart
    <3>5. rg1[At(base, v)] = Value(sc, m, j)
      BY <2>1, <2>2, <3>1, <3>2, <3>4, <1>10, SMTT(30) DEF After
    <3> QED
      BY <3>2, <3>5
  <2>3. CASE ~(m.op # "inc" /\ P[1] <= v /\ v < P[1] + Count(m))
    <3>1. rg1[At(base, v)] = rg[At(base, v)]
      <4>1. ASSUME m.op # "inc", At(base, v) >= m.dst, At(base, v) < m.dst + Count(m)
            PROVE  FALSE
        <5> DEFINE a == At(base, v)
                   w == P[1] + (a - m.dst)
        <5>1. w \in Nat /\ P[1] <= w /\ w < P[1] + Count(m) /\ a \in 0 .. RingSize - 1
          <6>1. P[1] \in Nat /\ m.dst \in Nat /\ Count(m) \in Nat
            BY <4>1, <1>10
          <6> HIDE DEF m
          <6> QED
            BY <6>1, <4>1, <2>1, SMTT(30)
        <5>2. Place(base, P[1], m.dst)
          BY <4>1, <1>10 DEF WriteAt
        <5>3. Place(base, w, a)
          <6>1. P[1] \in Nat /\ m.dst \in Nat
            BY <4>1, <1>10
          <6>2. a \in Nat /\ w - P[1] = a - m.dst
            <7> HIDE DEF a, m
            <7> QED
              BY <6>1, <5>1
          <6> HIDE DEF a, m, w
          <6> QED
            BY <6>1, <6>2, <5>1, <5>2, UnitPlace
        <5>4. v - w < RingSize /\ w - v < RingSize /\ v < base + RingSize + RingSize /\ base <= v
          <6>1. P[1] \in Nat /\ Count(m) \in Nat /\ lo <= P[1] /\ P[1] + Count(m) <= wr
            BY <4>1, <1>10
          <6> HIDE DEF w, a, m
          <6> QED
            BY <6>1, <2>1, <5>1, <1>5, <1>9, SMTT(30)
        <5>5. v = w
          <6> HIDE DEF w
          <6> QED
            BY <5>1, <5>3, <5>4, <2>1, Apart DEF a
        <5> QED
          BY <5>1, <5>5, <2>3, <4>1
      <4> QED
        BY <4>1, <2>1 DEF After
    <3>2. CASE rg[At(base, v)] = W[v]
      BY <3>1, <3>2
    <3>3. CASE \E k \in 1 .. n : q[k].op # "inc" /\ P[k] <= v /\ v < P[k] + Count(q[k])
      <4>1. PICK k \in 1 .. n : q[k].op # "inc" /\ P[k] <= v /\ v < P[k] + Count(q[k])
        BY <3>3
      <4>2. k # 1
        BY <4>1, <2>3
      <4>3. k - 1 \in 1 .. Len(u) /\ u[k - 1] = q[k] /\ PP[k - 1] = P[k]
        BY <4>2, <1>1, <1>3
      <4> QED
        BY <4>1, <4>3
    <3> QED
      BY <3>2, <3>3, <1>2 DEF Arrives
  <2> QED
    BY <2>2, <2>3
<1>12. RR[1] = lo + Units(IncOf(m)) /\ RR[Len(u) + 1] = hi
  <2>1. 1 \in 1 .. n /\ R[1 + 1] = R[1] + Units(IncOf(q[1]))
    BY <1>1, <1>3, <1>2 DEF InFlight
  <2> QED
    BY <2>1, <1>1, <1>2, <1>3
<1>13. Channel(u, sc, rg1, base, from, wr, W, lo + Units(IncOf(m)), hi)
  <2> HIDE DEF PP, RR, rg1
  <2> QED
    BY <1>3, <1>7, <1>11, <1>12 DEF Channel
<1>14. \A a \in DOMAIN rg : rg1[a] # rg[a] => \E v \in Nat : lo <= v /\ v < wr /\ Place(base, v, a)
  <2> SUFFICES ASSUME NEW a \in DOMAIN rg, rg1[a] # rg[a] PROVE \E v \in Nat : lo <= v /\ v < wr /\ Place(base, v, a)
    OBVIOUS
  <2>1. m.op # "inc" /\ a >= m.dst /\ a < m.dst + Count(m)
    BY DEF After
  <2>2. Place(base, P[1], m.dst)
    BY <2>1, <1>10 DEF WriteAt
  <2> DEFINE w == P[1] + (a - m.dst)
  <2>3. w \in Nat /\ lo <= w /\ w < wr
    <3>1. P[1] \in Nat /\ m.dst \in Nat /\ Count(m) \in Nat /\ lo <= P[1] /\ P[1] + Count(m) <= wr
      BY <2>1, <1>10
    <3>2. a \in Nat
      BY <1>5
    <3>3. w \in Nat /\ P[1] <= w /\ w < P[1] + Count(m)
      BY <3>1, <3>2, <2>1, UnitOfWrite
    <3> HIDE DEF m, w
    <3> QED
      BY <3>1, <3>3, <1>9
  <2>4. Place(base, w, a)
    <3>1. P[1] \in Nat /\ m.dst \in Nat
      BY <2>1, <1>10
    <3>2. a \in Nat /\ w - P[1] = a - m.dst
      <4> HIDE DEF m
      <4> QED
        BY <3>1
    <3> HIDE DEF m, w
    <3> QED
      BY <3>1, <3>2, <2>2, <2>3, UnitPlace
  <2> QED
    BY <2>3, <2>4
<1> QED
  BY <1>3, <1>13, <1>14

-----------------------------------------------------------------------------
(* The sum of the increments under way *)

\* The least-number principle, in the place of an induction.
LEMMA Smallest ==
    ASSUME NEW T \in SUBSET Nat, T # {}
    PROVE  \E x \in T : \A y \in T : x <= y
<1>1. IsWellFoundedOn(OpToRel(<, Nat), Nat)
  BY NatLessThanWellFounded, Zenon
<1>2. \A R : IsWellFoundedOn(R, Nat) => \E x \in T : \A y \in T : ~(<<y, x>> \in R)
  BY WFMin
<1>3. \E x \in T : \A y \in T : ~(<<y, x>> \in OpToRel(<, Nat))
  BY <1>1, <1>2, Zenon
<1>4. PICK x \in T : \A y \in T : ~(<<y, x>> \in OpToRel(<, Nat))
  BY <1>3, Zenon
<1>5. \A y \in T : x <= y
  <2> SUFFICES ASSUME NEW y \in T PROVE x <= y
    OBVIOUS
  <2>1. ~(y < x)
    BY <1>4 DEF OpToRel
  <2> QED
    BY <2>1
<1> QED
  BY <1>5

SumTo(q, n, f) == f = [k \in 0 .. n |-> IF k = 0 THEN 0 ELSE f[k - 1] + IncOf(q[k])]

\* Every sequence has partial sums.
LEMMA SumExists ==
    ASSUME NEW q, NEW n \in Nat
    PROVE  \E f : SumTo(q, n, f)
<1> DEFINE T == {i \in Nat : ~ \E f : SumTo(q, i, f)}
<1>1. SUFFICES ASSUME T # {} PROVE FALSE
  OBVIOUS
<1>2. PICK i \in T : \A y \in T : i <= y
  BY <1>1, Smallest
<1>3. i # 0
  <2>1. SumTo(q, 0, [k \in 0 .. 0 |-> 0])
    BY DEF SumTo
  <2> QED
    BY <2>1, <1>2
<1>4. i - 1 \in Nat /\ i - 1 \notin T
  BY <1>2, <1>3
<1>5. PICK f : SumTo(q, i - 1, f)
  BY <1>4
<1> DEFINE g == [k \in 0 .. i |-> IF k = i THEN f[i - 1] + IncOf(q[i]) ELSE f[k]]
<1>6. SumTo(q, i, g)
  <2>1. \A k \in 0 .. i : g[k] = IF k = 0 THEN 0 ELSE g[k - 1] + IncOf(q[k])
    <3> SUFFICES ASSUME NEW k \in 0 .. i PROVE g[k] = IF k = 0 THEN 0 ELSE g[k - 1] + IncOf(q[k])
      OBVIOUS
    <3>1. CASE k = i
      BY <3>1, <1>3, <1>4
    <3>2. CASE k # i
      <4>1. k \in 0 .. i - 1
        BY <3>2, <1>4
      <4>2. f[k] = IF k = 0 THEN 0 ELSE f[k - 1] + IncOf(q[k])
        BY <4>1, <1>5 DEF SumTo
      <4> QED
        BY <3>2, <4>1, <4>2, <1>4
    <3> QED
      BY <3>1, <3>2
  <2>2. g = [k \in 0 .. i |-> g[k]]
    OBVIOUS
  <2> HIDE DEF g
  <2>3. g = [k \in 0 .. i |-> IF k = 0 THEN 0 ELSE g[k - 1] + IncOf(q[k])]
    BY <2>1, <2>2
  <2> QED
    BY <2>3 DEF SumTo
<1> QED
  BY <1>2, <1>6

\* The messages under way release the pages between lo and hi.
LEMMA IncsUnderWay ==
    ASSUME NEW q, NEW sc, NEW rg, NEW base, NEW from, NEW wr, NEW W, NEW lo, NEW hi,
           Channel(q, sc, rg, base, from, wr, W, lo, hi)
    PROVE  Incs(q) \in Nat /\ lo + Units(Incs(q)) = hi /\ lo \in Nat /\ hi \in Nat
<1>1. q \in Seq(Msg) /\ Len(q) \in Nat
  BY DEF Channel
<1>2. PICK P, R : InFlight(q, sc, base, wr, W, P, R) /\ R[1] = lo /\ R[Len(q) + 1] = hi
  BY DEF Channel
<1> DEFINE n == Len(q)
           f == CHOOSE g : SumTo(q, n, g)
<1>3. SumTo(q, n, f)
  BY <1>1, SumExists
<1>4. Incs(q) = f[n]
  BY DEF Incs, SumTo
<1> HIDE DEF f
<1>5. R \in [1 .. n + 1 -> Nat] /\ \A k \in 1 .. n : R[k + 1] = R[k] + Units(IncOf(q[k]))
  BY <1>2 DEF InFlight
<1>8. lo \in Nat
  BY <1>1, <1>2, <1>5
<1> DEFINE T == {k \in 0 .. n : ~(f[k] \in Nat /\ lo + Units(f[k]) = R[k + 1])}
<1>6. T = {}
  <2>1. SUFFICES ASSUME T # {} PROVE FALSE
    OBVIOUS
  <2>2. T \in SUBSET Nat
    OBVIOUS
  <2>3. PICK i \in T : \A y \in T : i <= y
    BY <2>1, <2>2, Smallest
  <2>4. i \in 0 .. n /\ f[i] = IF i = 0 THEN 0 ELSE f[i - 1] + IncOf(q[i])
    BY <2>3, <1>3 DEF SumTo
  <2>5. i # 0
    <3> SUFFICES ASSUME i = 0 PROVE FALSE
      OBVIOUS
    <3>1. f[i] = 0 /\ Units(f[i]) = 0
      BY <2>4, UnitsOf
    <3>2. R[i + 1] = lo
      BY <1>2
    <3>3. f[i] \in Nat /\ lo + Units(f[i]) = R[i + 1]
      BY <3>1, <3>2, <1>8
    <3> QED
      BY <2>3, <3>3
  <2>6. i - 1 \in 0 .. n /\ i - 1 \notin T /\ i \in 1 .. n
    BY <2>3, <2>4, <2>5, <1>1
  <2>7. f[i - 1] \in Nat /\ lo + Units(f[i - 1]) = R[i]
    BY <2>6
  <2>8. IncOf(q[i]) \in Nat /\ Units(IncOf(q[i])) \in Nat
    <3>1. q[i] \in Msg
      BY <2>6, <1>1
    <3> QED
      BY <3>1, MsgFacts
  <2>9. R[i + 1] = R[i] + Units(IncOf(q[i]))
    BY <2>6, <1>5
  <2>10. Units(f[i - 1] + IncOf(q[i])) = Units(f[i - 1]) + Units(IncOf(q[i]))
    <3>1. \A a, b \in Nat : Units(a + b) = Units(a) + Units(b)
      BY UnitsOf
    <3> QED
      BY <2>7, <2>8, <3>1
  <2>11. Units(f[i - 1]) \in Nat
    <3>1. \A a \in Nat : Units(a) \in Nat
      BY UnitsOf
    <3> QED
      BY <2>7, <3>1
  <2>12. f[i] \in Nat /\ lo + Units(f[i]) = R[i + 1]
    BY <2>4, <2>5, <2>7, <2>8, <2>9, <2>10, <2>11, <1>8
  <2> QED
    BY <2>3, <2>12
<1>7. n \in 0 .. n /\ n + 1 \in 1 .. n + 1
  BY <1>1
<1>9. f[n] \in Nat /\ lo + Units(f[n]) = R[n + 1]
  BY <1>6, <1>7
<1>10. R[n + 1] \in Nat /\ R[n + 1] = hi
  BY <1>2, <1>5, <1>7
<1> QED
  BY <1>4, <1>8, <1>9, <1>10

-----------------------------------------------------------------------------
(* Transfers *)

\* What is left of a whole number of spans is at least the rest of the current one.
LEMMA RestOfSpan ==
    ASSUME NEW s \in Nat, s >= 1, NEW l \in Nat, NEW f \in Nat, f >= 1, f <= l, l % s = 0
    PROVE  (l - f) % s \in 0 .. s - 1 /\ s - ((l - f) % s) <= f
<1>1. l - f \in Nat
  OBVIOUS
<1> DEFINE z == l - f
           a == l \div s
           b == z \div s
           r == z % s
<1>2. a \in Nat /\ l = s * a
  <2>1. l \div s \in Nat /\ l = s * (l \div s) + (l % s)
    BY Quotient
  <2> QED
    BY <2>1
<1>3. b \in Nat /\ r \in 0 .. s - 1 /\ z = s * b + r
  <2> HIDE DEF z
  <2> QED
    BY <1>1, Quotient DEF z
<1>4. l = z + f
  OBVIOUS
<1> HIDE DEF a, b, r, z
<1>5. b < a
  <2> SUFFICES ASSUME a <= b PROVE FALSE
    BY <1>2, <1>3
  <2>1. b - a \in Nat /\ s * (b - a) \in Nat
    BY <1>2, <1>3
  <2>2. s * b = s * a + s * (b - a)
    BY <1>2, <1>3
  <2> QED
    BY <2>1, <2>2, <1>2, <1>3, <1>4
<1>6. s * a - s * b >= s
  <2>1. a - b - 1 \in Nat /\ s * (a - b - 1) \in Nat
    BY <1>2, <1>3, <1>5
  <2>2. s * a = s * b + s + s * (a - b - 1)
    BY <1>2, <1>3
  <2> QED
    BY <2>1, <2>2, <1>2, <1>3
<1>7. s - r <= f
  BY <1>2, <1>3, <1>4, <1>6
<1> QED
  BY <1>3, <1>7 DEF r, z

\* A whole number of transfers, one transfer later.
LEMMA OneLess ==
    ASSUME NEW s \in Nat, s >= 1, NEW l \in Nat, l >= 1, l % s = 0
    PROVE  l >= s /\ (l - s) % s = 0
<1> DEFINE a == l \div s
<1>1. a \in Nat /\ l = s * a
  <2>1. l \div s \in Nat /\ l = s * (l \div s) + (l % s)
    BY Quotient
  <2> QED
    BY <2>1
<1> HIDE DEF a
<1>2. a >= 1
  BY <1>1
<1>3. a - 1 \in Nat /\ l - s = (a - 1) * s
  BY <1>1, <1>2
<1>4. (a - 1) * s \in Nat
  BY <1>3
<1>5. ((a - 1) * s) % s = 0
  <2>1. PICK k \in Nat : k = a - 1
    BY <1>3
  <2>2. (k * s) % s = 0
    BY SMTT(30)
  <2> QED
    BY <2>1, <2>2
<1> QED
  BY <1>3, <1>4, <1>5

\* The span of a sub-command of a large packed write: its data, rounded up to the alignment.
LEMMA SpanIs ==
    LargeSpan \in Nat /\ LargeSize <= LargeSpan /\ LargeSpan < LargeSize + Alignment /\ LargeSpan >= 1
<1>1. LargeSize \in Nat /\ LargeSize >= 1 /\ Alignment \in Nat /\ Alignment >= 1
  BY Sizes
<1> DEFINE z == LargeSize + Alignment - 1
<1>2. z \in Nat
  BY <1>1
<1>3. z \div Alignment \in Nat /\ z % Alignment \in 0 .. Alignment - 1 /\ z = Alignment * (z \div Alignment) + (z % Alignment)
  <2> HIDE DEF z
  <2> QED
    BY <1>1, <1>2, Quotient
<1>4. LargeSpan = Alignment * (z \div Alignment)
  BY <1>1, <1>3 DEF LargeSpan
<1>5. z = LargeSpan + (z % Alignment)
  BY <1>3, <1>4
<1>6. LargeSpan \in Nat
  BY <1>1, <1>3, <1>4
<1> QED
  BY <1>1, <1>3, <1>5, <1>6

\* The padding of a large packed write is less than a page and not more than what is left.
LEMMA PadIs ==
    ASSUME Types, dpc = "large", Executes
    PROVE  /\ LargePos \in 0 .. LargeSpan - 1
           /\ pad_size \in Nat /\ pad_size >= 1 /\ pad_size <= left
           /\ InPad => pad_size < PageSize
           /\ ~InPad => LargePos < LargeSize
<1>1. left \in Nat /\ len \in Nat /\ left >= 1 /\ left < len /\ (len - 1) % LargeSpan = 0
  BY DEF Types, Executes
<1>2. len - 1 \in Nat /\ left <= len - 1
  BY <1>1
<1>3. (len - 1 - left) % LargeSpan \in 0 .. LargeSpan - 1 /\ LargeSpan - ((len - 1 - left) % LargeSpan) <= left
  BY <1>1, <1>2, SpanIs, RestOfSpan
<1>4. LargePos \in 0 .. LargeSpan - 1 /\ LargeSpan - LargePos <= left
  BY <1>3 DEF LargePos
<1> QED
  BY <1>4, SpanIs, Sizes DEF pad_size, InPad

\* The predicates on the dispatcher's transfer depend on its registers only.
LEMMA SameTransfer ==
    ASSUME UNCHANGED <<dpc, fence, ptr, len, left, part>>
    PROVE  /\ NeedsPage' = NeedsPage /\ InPad' = InPad /\ pad_size' = pad_size /\ XferOf' = XferOf
           /\ LargePos' = LargePos
<1>1. LargePos' = LargePos
  BY DEF LargePos, LargeSpan
<1>2. InPad' = InPad /\ pad_size' = pad_size
  BY <1>1 DEF InPad, pad_size, LargeSpan
<1>3. XferOf' = XferOf
  BY DEF XferOf
<1>4. NeedsPage' = NeedsPage
  BY <1>2, <1>3 DEF NeedsPage
<1> QED
  BY <1>1, <1>2, <1>3, <1>4

-----------------------------------------------------------------------------
(* What the parts of the invariant say together *)

\* Where the dispatcher's current block begins and ends.
LEMMA BlockIs ==
    ASSUME Types
    PROVE  /\ block \in Nat /\ BlockStart \in Nat /\ Aligned(BlockStart)
           /\ block_end = BlockStart + BlockSize /\ block_end \in Nat /\ Aligned(block_end) /\ block_end <= RingSize
           /\ block = Blocks - 1 => block_end = RingSize
           /\ block # Blocks - 1 => block_end + BlockSize <= RingSize
           /\ block = 0 => BlockStart = 0
           /\ BlockStart = Units(block * BlockPages) /\ block * BlockPages \in Nat
<1>1. block \in 0 .. Blocks - 1
  BY DEF Types
<1>2. block \in Nat
  BY <1>1, Sizes
<1> QED
  BY <1>1, <1>2, BlockBounds, Sizes DEF BlockStart, block_end

\* The dispatcher's pointer is in what it holds, and what it holds, what is under way and what the prefetcher writes are
\* less than a lap apart.
LEMMA Geometry ==
    ASSUME Types, NEW base \in Nat, NEW wr \in Nat, NEW end \in Nat, NEW hi \in Nat, NEW W, Inside(base, wr, end, W, hi)
    PROVE  /\ Units(delivered) \in Nat /\ Units(job.release) \in Nat /\ Units(upSem) \in Nat /\ Units(credits) \in Nat
           /\ DOMAIN W \subseteq Nat
           /\ base + fence + Units(delivered) \in Nat /\ base + fence + Units(delivered) <= hi
           /\ hi <= wr /\ wr <= end /\ wr <= hi + Units(job.release)
           /\ HeldUnits \in Nat /\ fence - HeldUnits <= ptr
           /\ hi + Units(job.release) + Units(upSem) + Units(credits) + HeldUnits = base + fence + RingSize
           /\ wr + HeldUnits <= base + fence + RingSize
           /\ wr <= base + ptr + RingSize /\ wr <= base + RingSize + RingSize
<1>1. delivered \in Nat /\ job.release \in Nat /\ upSem \in Nat /\ credits \in Nat /\ fence \in Nat /\ ptr \in Nat
  BY Sizes DEF Types
<1>2. Units(delivered) \in Nat /\ Units(job.release) \in Nat /\ Units(upSem) \in Nat /\ Units(credits) \in Nat
  BY <1>1, UnitsOf
<1>3. DOMAIN W \subseteq Nat
  BY DEF Inside, Plan
<1> DEFINE lo == base + fence + Units(delivered)
<1>4. lo \in Nat
  BY <1>1, <1>2
<1>5. lo <= hi
  <2>1. Channel(outbox, scratch, ring, base, base + ptr, wr, W, lo, hi)
    BY DEF Inside
  <2> HIDE DEF lo
  <2>2. Incs(outbox) \in Nat /\ lo + Units(Incs(outbox)) = hi
    BY <2>1, IncsUnderWay
  <2>3. Units(Incs(outbox)) \in Nat
    BY <2>2, UnitsOf
  <2> QED
    BY <2>2, <2>3, <1>4
<1>6. hi <= wr /\ wr <= end /\ wr <= hi + Units(job.release)
  <2>1. Prefetcher(base, wr, end, W, hi)
    BY DEF Inside
  <2>2. hi <= wr /\ wr <= end
    BY <2>1 DEF Prefetcher
  <2>3. CASE ppc \in Between
    BY <2>1, <2>3, <1>2 DEF Prefetcher
  <2>4. CASE ppc \in {"flush", "flushLast"}
    BY <2>1, <2>4, <1>2 DEF Prefetcher
  <2>5. CASE ppc \in Relaying
    <3>1. job.release = 1 /\ wr < hi + PageSize
      BY <2>1, <2>5 DEF Prefetcher, RelayInPlan
    <3>2. Units(job.release) = PageSize
      BY <3>1, UnitsOf
    <3> QED
      BY <3>1, <3>2, <2>2, Sizes
  <2>6. ppc \in Between \cup {"flush", "flushLast"} \cup Relaying
    BY DEF Types, Between, Relaying
  <2> QED
    BY <2>2, <2>3, <2>4, <2>5, <2>6
<1>7. /\ BlockStart <= fence /\ fence <= block_end
      /\ hi + Units(job.release) + Units(upSem) + Units(credits) + HeldUnits = base + fence + RingSize
  BY DEF Inside, Space
<1>8. HeldUnits \in Nat
  BY <1>1, <1>7, BlockIs, Sizes DEF HeldUnits
<1>9. fence - HeldUnits <= ptr
  <2>1. Dispatcher(base, end, NextParity, W)
    BY DEF Inside
  <2>2. CASE dpc = "cmd"
    BY <2>1, <2>2, <1>1, BlockIs, Sizes DEF Dispatcher, HeldUnits
  <2>3. CASE dpc \in Ending
    <3>1. ptr <= fence /\ BlockStart <= ptr /\ (dpc # "barrier" => ptr = fence)
      BY <2>1, <2>3 DEF Dispatcher, Ending
    <3> QED
      BY <3>1, <2>3, <1>1, BlockIs, Sizes DEF HeldUnits, Ending
  <2>4. CASE dpc \in Executing
    <3>1. Executes
      BY <2>1, <2>4 DEF Dispatcher
    <3>2. HeldUnits = fence - BlockStart + (IF prev THEN BlockSize ELSE 0)
      BY <2>4 DEF HeldUnits, Executing
    <3>3. CASE BlockStart <= ptr
      BY <3>2, <3>3, <1>1, BlockIs, Sizes
    <3>4. CASE ~(BlockStart <= ptr)
      <4>1. InPad /\ prev /\ ptr + pad_size > BlockStart
        BY <3>1, <3>4, <1>1, BlockIs DEF Executes
      <4>2. pad_size \in Nat /\ pad_size < PageSize
        BY <3>1, <4>1, PadIs DEF InPad
      <4> QED
        BY <4>1, <4>2, <3>2, <1>1, BlockIs, Sizes
    <3> QED
      BY <3>3, <3>4
  <2> QED
    BY <2>2, <2>3, <2>4 DEF Types
<1>10. wr + HeldUnits <= base + fence + RingSize
  BY <1>2, <1>6, <1>7, <1>8, <1>1, Sizes
<1>11. wr <= base + ptr + RingSize /\ wr <= base + RingSize + RingSize
  <2>1. fence <= RingSize
    BY DEF Types
  <2> QED
    BY <2>1, <1>1, <1>8, <1>9, <1>10, Sizes
<1> QED
  BY <1>2, <1>3, <1>4, <1>5, <1>6, <1>7, <1>8, <1>9, <1>10, <1>11

-----------------------------------------------------------------------------
(* What does not change *)

\* The dispatcher stands still while the plan grows at its end.
LEMMA DispatcherSame ==
    ASSUME NEW base, NEW end, NEW par, NEW W, NEW end1, NEW par1, NEW X, Dispatcher(base, end, par, W),
           UNCHANGED <<dpc, fence, ptr, block, got, dcmd, len, left, part, prev>>,
           dpc \in Ending => ppc' \in Last /\ end1 = end,
           \A v \in DOMAIN W : v \in DOMAIN X /\ X[v] = W[v],
           \A v, c : Begins(W, end, par, v, c) => Begins(X, end1, par1, v, c)
    PROVE  Dispatcher(base, end1, par1, X)'
<1>1. NeedsPage' = NeedsPage /\ InPad' = InPad /\ pad_size' = pad_size
  BY SameTransfer
<1>2. BlockStart' = BlockStart
  BY DEF BlockStart
<1>3. Executes' = Executes
  BY <1>1, <1>2 DEF Executes, LargeSpan, Aligned
<1>4. (RoundUp(ptr + left))' = RoundUp(ptr + left) /\ RoundUp(ptr)' = RoundUp(ptr)
  BY DEF RoundUp, PagesOf
<1>5. dpc' = dpc /\ fence' = fence /\ ptr' = ptr /\ got' = got /\ dcmd' = dcmd /\ len' = len /\ left' = left /\ part' = part /\ prev' = prev
  OBVIOUS
<1>6. ptr <= fence /\ (got => ~NeedsPage) /\ (dpc \notin Executing => left = 0 /\ part = 0)
  BY DEF Dispatcher
<1>7. dpc = "cmd" => BlockStart <= ptr /\ Aligned(ptr) /\ Begins(X, end1, par1, base + ptr, dcmd)
  BY DEF Dispatcher
<1>8. dpc \in Executing =>
         /\ Executes
         /\ \A j \in 0 .. left - 1 : /\ base + ptr + j \in DOMAIN X
                                     /\ X[base + ptr + j].cmd = dcmd /\ X[base + ptr + j].idx = len - left + j
         /\ Begins(X, end1, par1, base + RoundUp(ptr + left), 1 - dcmd)
  BY DEF Dispatcher
<1>9. /\ dpc \in Ending => /\ ppc' \in Last /\ ~got
                           /\ base + fence = end1 /\ RoundUp(ptr) = fence /\ BlockStart <= ptr
      /\ dpc \in Ending \ {"barrier"} => ptr = fence /\ prev
  BY DEF Dispatcher
<1>10. Begins(X, end1, par1, base + ptr, dcmd)' = Begins(X, end1, par1, base + ptr, dcmd)
  BY <1>5 DEF Begins
<1>11. Begins(X, end1, par1, base + RoundUp(ptr + left), 1 - dcmd)' = Begins(X, end1, par1, base + RoundUp(ptr + left), 1 - dcmd)
  BY <1>4, <1>5 DEF Begins
<1>12. Aligned(ptr)' = Aligned(ptr)
  BY DEF Aligned
<1> QED
  BY <1>1, <1>2, <1>3, <1>4, <1>5, <1>6, <1>7, <1>8, <1>9, <1>10, <1>11, <1>12 DEF Dispatcher

\* The same for the parity that the prefetcher's registers give.
LEMMA QuietDispatcher ==
    ASSUME NEW base, NEW end, NEW W, NEW end1, NEW par1, NEW X, Dispatcher(base, end, NextParity, W),
           UNCHANGED <<dpc, fence, ptr, block, got, dcmd, len, left, part, prev>>,
           dpc \in Ending => ppc' \in Last /\ end1 = end,
           \A v \in DOMAIN W : v \in DOMAIN X /\ X[v] = W[v],
           NextParity' = par1,
           \A v, c : Begins(W, end, NextParity, v, c) => Begins(X, end1, par1, v, c)
    PROVE  Dispatcher(base, end1, NextParity, X)'
<1>1. \E par : par = NextParity
  OBVIOUS
<1>2. PICK par : par = NextParity
  BY <1>1
<1>3. Dispatcher(base, end, par, W)
  BY <1>2 DEF Dispatcher
<1>4. \A v, c : Begins(W, end, par, v, c) => Begins(X, end1, par1, v, c)
  BY <1>2
<1>5. Dispatcher(base, end1, par1, X)'
  BY <1>3, <1>4, DispatcherSame
<1> QED
  BY <1>5 DEF Dispatcher, Begins

\* The prefetcher stands still, and the position it writes to has the same address.
LEMMA PrefetcherSame ==
    ASSUME NEW base, NEW base1, NEW wr, NEW end, NEW W, NEW hi, Prefetcher(base, wr, end, W, hi),
           UNCHANGED <<ppc, wrPtr, pcmd, job, scratch, reading, toggle>>,
           Place(base1, wr, wrPtr)
    PROVE  Prefetcher(base1, wr, end, W, hi)' /\ NextParity' = NextParity
<1>1. NextParity' = NextParity
  BY DEF NextParity
<1>2. \A h, i : HalfHolds(h, i)' = HalfHolds(h, i)
  BY DEF HalfHolds
<1>3. RelayInPlan(wr, end, W, hi)' = RelayInPlan(wr, end, W, hi)
  BY <1>2 DEF RelayInPlan, Unit, RoundUp, PagesOf, Aligned, HalfHolds
<1>4. Place(base1, wr, wrPtr)'
  BY DEF Place
<1> QED
  BY <1>1, <1>3, <1>4 DEF Prefetcher, Aligned, Units

-----------------------------------------------------------------------------
(* The NOC *)

\* The part of the invariant that TLC's type invariant and the two properties need besides the plan.
LEMMA Witness ==
    ASSUME NEW base \in Nat, NEW wr \in Nat, NEW end \in Nat, NEW hi \in Nat, NEW W,
           Types', HalvesApart', Unsent', Inside(base, wr, end, W, hi)'
    PROVE  IInv'
BY DEF IInv

\* The pages the dispatcher gave back arrive.
LEMMA CreditsLandPreserves ==
    ASSUME IInv, CreditsLand, UNCHANGED lengths
    PROVE  IInv'
<1>1. Types /\ HalvesApart /\ Unsent
  BY DEF IInv
<1>inside. PICK base \in Nat, wr \in Nat, end \in Nat, hi \in Nat : \E W : Inside(base, wr, end, W, hi)
  BY DEF IInv
<1>2. PICK W : Inside(base, wr, end, W, hi)
  BY <1>inside
<1>3. /\ upSem' = upSem + credits /\ credits' = 0
      /\ UNCHANGED <<ppc, wrPtr, pcmd, job, scratch, reading, toggle, outbox, delivered, ring>>
      /\ UNCHANGED <<dpc, seen, fence, ptr, block, got, dcmd, len, left, part, prev, since, unsent>>
  BY DEF CreditsLand, dispatchVars
<1>4. Types'
  BY <1>1, <1>3 DEF Types
<1>5. HalvesApart' /\ Unsent'
  BY <1>1, <1>3 DEF HalvesApart, Unsent, BlockStart
<1>6. Prefetcher(base, wr, end, W, hi)' /\ NextParity' = NextParity
  <2>1. Prefetcher(base, wr, end, W, hi) /\ Place(base, wr, wrPtr)
    BY <1>2 DEF Inside, Prefetcher
  <2> QED
    BY <2>1, <1>3, PrefetcherSame
<1>7. Dispatcher(base, end, NextParity, W)'
  <2>1. Dispatcher(base, end, NextParity, W)
    BY <1>2 DEF Inside
  <2>2. dpc \in Ending => ppc' \in Last
    BY <2>1, <1>3 DEF Dispatcher
  <2>3. PICK par : NextParity = par
    OBVIOUS
  <2> QED
    BY <2>1, <2>2, <2>3, <1>3, <1>6, QuietDispatcher
<1>8. Space(base, hi)'
  <2>1. Space(base, hi)
    BY <1>2 DEF Inside
  <2>2. Units(upSem + credits) = Units(upSem) + Units(credits) /\ Units(0) = 0
    BY <1>1, UnitsOf DEF Types
  <2>3. Units(upSem) \in Nat /\ Units(credits) \in Nat /\ Units(job.release) \in Nat
    BY <1>1, <1>2, Geometry
  <2>4. HeldUnits' = HeldUnits /\ BlockStart' = BlockStart /\ block_end' = block_end
    BY <1>3 DEF HeldUnits, BlockStart, block_end
  <2> QED
    BY <2>1, <2>2, <2>3, <2>4, <1>3 DEF Space, Aligned
<1>9. Inside(base, wr, end, W, hi)'
  BY <1>2, <1>3, <1>6, <1>7, <1>8 DEF Inside, Channel, InFlight, Arrives
<1> QED
  BY <1>4, <1>5, <1>9, Witness

-----------------------------------------------------------------------------
(* Frames of the steps *)

\* The invariant after a step, from the parts of it.
LEMMA InsideNext ==
    ASSUME NEW base \in Nat, NEW wr \in Nat, NEW end \in Nat, NEW hi \in Nat, NEW W, NEW par,
           Types', HalvesApart', Unsent', NextParity' = par, Plan(W, end, par),
           Channel(outbox', scratch', ring', base, base + ptr', wr, W, base + fence' + Units(delivered'), hi),
           Prefetcher(base, wr, end, W, hi)', Space(base, hi)', Dispatcher(base, end, NextParity, W)'
    PROVE  IInv'
<1>1. Plan(W, end, NextParity)'
  BY DEF Plan, CommandAt, Begins, SizeOf, RoundUp, PagesOf, Aligned
<1>2. Channel(outbox, scratch, ring, base, base + ptr, wr, W, base + fence + Units(delivered), hi)'
  BY DEF Channel, InFlight, Arrives, Units, WriteAt, Value, Place, At, Count, IncOf
<1>3. Inside(base, wr, end, W, hi)'
  BY <1>1, <1>2 DEF Inside
<1> QED
  BY <1>3, Witness

\* A step that leaves the dispatcher alone keeps the space when the pages balance.
LEMMA DispatcherRests ==
    ASSUME NEW base, NEW hi, NEW hi1, Space(base, hi), UNCHANGED <<dpc, fence, ptr, block, prev>>,
           hi1 + Units(job'.release) + Units(upSem') + Units(credits')
             = hi + Units(job.release) + Units(upSem) + Units(credits)
    PROVE  Space(base, hi1)' /\ HeldUnits' = HeldUnits /\ BlockStart' = BlockStart /\ block_end' = block_end
<1>1. HeldUnits' = HeldUnits /\ BlockStart' = BlockStart /\ block_end' = block_end
  BY DEF HeldUnits, BlockStart, block_end
<1>2. Units(job.release)' = Units(job'.release) /\ Units(upSem)' = Units(upSem') /\ Units(credits)' = Units(credits')
  BY DEF Units
<1> QED
  BY <1>1, <1>2 DEF Space, Aligned, Units

\* ... and what was issued.
LEMMA UnsentSame ==
    ASSUME Unsent, UNCHANGED <<dpc, ptr, block, prev, since, unsent, ring>>
    PROVE  Unsent'
BY DEF Unsent, BlockStart

\* A DRAM read lands.
LEMMA DramReadLandsPreserves ==
    ASSUME IInv, DramReadLands, UNCHANGED lengths
    PROVE  IInv'
<1>1. Types /\ HalvesApart /\ Unsent
  BY DEF IInv
<1>inside. PICK base \in Nat, wr \in Nat, end \in Nat, hi \in Nat : \E W : Inside(base, wr, end, W, hi)
  BY DEF IInv
<1>2. PICK W : Inside(base, wr, end, W, hi)
  BY <1>inside
<1>3. /\ reading # None /\ reading' = None
      /\ scratch' = [scratch EXCEPT ![reading.half + 1] = [cmd |-> reading.cmd, first |-> reading.first]]
      /\ UNCHANGED <<ppc, upSem, wrPtr, pcmd, job, toggle, outbox, delivered, credits, ring>>
      /\ UNCHANGED <<dpc, seen, fence, ptr, block, got, dcmd, len, left, part, prev, since, unsent>>
  BY DEF DramReadLands, dispatchVars
<1>4. reading \in Read /\ reading.half \in 0 .. 1 /\ reading.cmd \in 0 .. 1 /\ reading.first \in Nat
  BY <1>1, <1>3 DEF Types, Read
<1>5. scratch \in [1 .. 2 -> [cmd : 0 .. 1, first : Nat]] /\ reading.half + 1 \in 1 .. 2
  BY <1>1, <1>4 DEF Types
<1>6. scratch'[reading.half + 1] = [cmd |-> reading.cmd, first |-> reading.first]
  BY <1>3, <1>5
<1>7. \A h \in 0 .. 1 : h # reading.half => scratch'[h + 1] = scratch[h + 1]
  BY <1>3, <1>4, <1>5
<1>8. scratch' \in [1 .. 2 -> [cmd : 0 .. 1, first : Nat]]
  BY <1>3, <1>4, <1>5
<1>9. Types'
  BY <1>1, <1>3, <1>8 DEF Types
<1>10. HalvesApart' /\ Unsent'
  BY <1>1, <1>3, UnsentSame DEF HalvesApart
<1>11. NextParity' = NextParity
  BY <1>3 DEF NextParity
<1>12. Prefetcher(base, wr, end, W, hi)
  BY <1>2 DEF Inside
<1>13. ppc \in Relaying /\ RelayInPlan(wr, end, W, hi)
  <2>1. ppc \notin Between \cup {"flush", "flushLast"}
    BY <1>3, <1>12 DEF Prefetcher
  <2>2. ppc \in Relaying
    BY <2>1, <1>1 DEF Types, Between, Relaying
  <2> QED
    BY <2>2, <1>12 DEF Prefetcher
<1>14. RelayInPlan(wr, end, W, hi)'
  <2>1. \A h \in 0 .. 1 : \A i : HalfHolds(h, i) => scratch'[h + 1] = [cmd |-> pcmd, first |-> i] /\ reading.half = h
    <3> SUFFICES ASSUME NEW h \in 0 .. 1, NEW i, HalfHolds(h, i)
                 PROVE  scratch'[h + 1] = [cmd |-> pcmd, first |-> i] /\ reading.half = h
      OBVIOUS
    <3>1. reading = [half |-> h, cmd |-> pcmd, first |-> i]
      BY <1>3 DEF HalfHolds
    <3>2. reading.half = h /\ reading.cmd = pcmd /\ reading.first = i
      BY <3>1
    <3> QED
      BY <3>2, <1>6
  <2>2. toggle \in 0 .. 1 /\ 1 - toggle \in 0 .. 1 /\ 1 - toggle # toggle
    BY <1>1 DEF Types
  <2>3. ppc # "relay"
    BY <1>3, <1>13 DEF RelayInPlan
  <2>4. ppc = "barrier" => scratch'[toggle + 1] = [cmd |-> pcmd, first |-> job.idx]
    BY <2>1, <2>2, <1>13 DEF RelayInPlan
  <2>5. ppc = "acquire" => /\ job.idx + job.inScratch < job.len
                           /\ scratch'[(1 - toggle) + 1] = [cmd |-> pcmd, first |-> job.idx]
                           /\ scratch'[toggle + 1] = [cmd |-> pcmd, first |-> job.idx + job.inScratch]
    <3> SUFFICES ASSUME ppc = "acquire" PROVE /\ job.idx + job.inScratch < job.len
                           /\ scratch'[(1 - toggle) + 1] = [cmd |-> pcmd, first |-> job.idx]
                           /\ scratch'[toggle + 1] = [cmd |-> pcmd, first |-> job.idx + job.inScratch]
      OBVIOUS
    <3>1. /\ job.idx + job.inScratch < job.len /\ scratch[(1 - toggle) + 1] = [cmd |-> pcmd, first |-> job.idx]
          /\ HalfHolds(toggle, job.idx + job.inScratch)
      BY <1>13 DEF RelayInPlan
    <3>2. scratch'[toggle + 1] = [cmd |-> pcmd, first |-> job.idx + job.inScratch] /\ reading.half = toggle
      BY <3>1, <2>1, <2>2
    <3>3. scratch'[(1 - toggle) + 1] = scratch[(1 - toggle) + 1]
      BY <3>2, <2>2, <1>7
    <3> QED
      BY <3>1, <3>2, <3>3
  <2>6. /\ ppc' = ppc /\ job' = job /\ pcmd' = pcmd /\ toggle' = toggle
    BY <1>3
  <2>7. \A i : HalfHolds(toggle, i)' <=> scratch'[toggle + 1] = [cmd |-> pcmd, first |-> i]
    BY <1>3, <2>6 DEF HalfHolds
  <2>8. \A i, n : Unit(i, n)' = Unit(i, n)
    BY <2>6 DEF Unit
  <2> QED
    BY <1>13, <2>3, <2>4, <2>5, <2>6, <2>7, <2>8 DEF RelayInPlan, Aligned, RoundUp, PagesOf, HalfHolds, Unit
<1>15. Prefetcher(base, wr, end, W, hi)'
  BY <1>3, <1>12, <1>13, <1>14 DEF Prefetcher, Aligned, Units, Place, Between, Relaying
<1>16. PICK par : NextParity = par
  OBVIOUS
<1>17. Dispatcher(base, end, NextParity, W)'
  <2>1. Dispatcher(base, end, NextParity, W)
    BY <1>2 DEF Inside
  <2>2. dpc \in Ending => ppc' \in Last
    BY <2>1, <1>3 DEF Dispatcher
  <2> QED
    BY <2>1, <2>2, <1>3, <1>11, <1>16, QuietDispatcher
<1>18. Space(base, hi)'
  <2>1. Space(base, hi)
    BY <1>2 DEF Inside
  <2> QED
    BY <2>1, <1>3, DispatcherRests
<1>19. Channel(outbox', scratch', ring', base, base + ptr', wr, W, base + fence' + Units(delivered'), hi)
  <2>1. \A k \in 1 .. Len(outbox) : outbox[k].op = "scratch" => scratch'[outbox[k].half + 1] = scratch[outbox[k].half + 1]
    <3> SUFFICES ASSUME NEW k \in 1 .. Len(outbox), outbox[k].op = "scratch"
                 PROVE  scratch'[outbox[k].half + 1] = scratch[outbox[k].half + 1]
      OBVIOUS
    <3>1. outbox[k].half # reading.half
      BY <1>1, <1>3 DEF HalvesApart
    <3>2. outbox[k] \in Msg
      BY <1>2 DEF Inside, Channel
    <3>3. outbox[k].half \in 0 .. 1
      BY <3>2 DEF Msg
    <3> QED
      BY <3>1, <3>3, <1>7
  <2>2. Channel(outbox, scratch, ring, base, base + ptr, wr, W, base + fence + Units(delivered), hi)
    BY <1>2 DEF Inside
  <2>3. base + ptr \in Nat
    BY <1>1, Sizes DEF Types
  <2>4. Channel(outbox, scratch', ring, base, base + ptr, wr, W, base + fence + Units(delivered), hi)
    BY <2>1, <2>2, <2>3, ScratchKept
  <2> QED
    BY <2>4, <1>3
<1>20. Plan(W, end, par)
  BY <1>2, <1>16 DEF Inside
<1> QED
  BY <1>9, <1>10, <1>11, <1>15, <1>16, <1>17, <1>18, <1>19, <1>20, InsideNext

\* The fields of the NOC write that is not sent yet.
LEMMA UnsentIs ==
    ASSUME Types, unsent # <<>>
    PROVE  /\ unsent[1].src \in Nat /\ unsent[1].n \in Nat /\ unsent[1].cmd \in 0 .. 1 /\ unsent[1].first \in Nat
<1> DEFINE S == [src : Nat, n : Nat, cmd : 0 .. 1, first : Nat]
<1>1. unsent \in Seq(S)
  BY DEF Types
<1>2. unsent[1] \in S
  <2> HIDE DEF S
  <2> QED
    BY <1>1
<1> QED
  BY <1>2

\* What a NOC write of the dispatcher will read is still held: no position from the dispatcher's pointer on has an
\* address in it.
LEMMA UnsentHeld ==
    ASSUME Types, Unsent, NEW base \in Nat, NEW wr \in Nat, NEW end \in Nat, NEW hi \in Nat, NEW W,
           Inside(base, wr, end, W, hi), unsent # <<>>,
           NEW a \in Nat, unsent[1].src <= a, a < unsent[1].src + unsent[1].n,
           NEW v \in Nat, base + ptr <= v, v < wr
    PROVE  ~Place(base, v, a) /\ At(base, v) # a /\ a < RingSize
<1> DEFINE w == unsent[1]
<1>1. w.src \in Nat /\ w.n \in Nat
  BY UnsentIs
<1>2. ptr \in Nat /\ fence \in Nat /\ since \in 0 .. 1 /\ RingSize \in Nat /\ BlockSize \in Nat /\ BlockStart \in Nat
  BY BlockIs, Sizes DEF Types
<1>3. HeldUnits \in Nat /\ wr + HeldUnits <= base + fence + RingSize /\ wr <= base + RingSize + RingSize
  BY Geometry
<1>4. HeldUnits = fence - BlockStart + (IF prev THEN BlockSize ELSE 0)
  BY DEF Unsent, HeldUnits
<1>5. a < RingSize
  BY <1>1, <1>2 DEF Unsent
<1>6. ~Place(base, v, a)
  <2>1. CASE since = 1
    <3>1. BlockStart <= w.src /\ w.src + w.n <= ptr
      BY <2>1 DEF Unsent
    <3> HIDE DEF w
    <3> QED
      BY <3>1, <1>1, <1>2, <1>3, <1>4, SMTT(30) DEF Place, w
  <2>2. CASE since = 0 /\ block = 0
    <3>1. prev /\ RingSize - BlockSize <= w.src
      BY <2>2 DEF Unsent
    <3>2. BlockStart = 0
      BY <2>2, BlockIs
    <3> HIDE DEF w
    <3> QED
      BY <3>1, <3>2, <1>1, <1>2, <1>3, <1>4, <1>5 DEF Place, w
  <2>3. CASE since = 0 /\ block # 0
    <3>1. prev /\ BlockStart - BlockSize <= w.src /\ w.src + w.n <= ptr
      BY <2>3 DEF Unsent
    <3> HIDE DEF w
    <3> QED
      BY <3>1, <1>1, <1>2, <1>3, <1>4, SMTT(30) DEF Place, w
  <2> QED
    BY <2>1, <2>2, <2>3, <1>2
<1>7. At(base, v) # a
  BY <1>2, <1>6 DEF Place, At
<1> QED
  BY <1>5, <1>6, <1>7

\* What a message does to the ring and to the semaphore.
LEMMA DeliverIs ==
    ASSUME NocDeliver, outbox \in Seq(Msg), delivered \in Nat
    PROVE  /\ DOMAIN ring' = DOMAIN ring /\ \A a \in DOMAIN ring : ring'[a] = After(scratch, ring, Head(outbox))[a]
           /\ delivered' = delivered + IncOf(Head(outbox))
<1> DEFINE m == Head(outbox)
<1>1. outbox # <<>>
  BY DEF NocDeliver
<1>2. m \in Msg
  BY <1>1
<1> HIDE DEF m
<1>3. CASE m.op = "units"
  <2>1. ring' = [a \in DOMAIN ring |-> IF a >= m.dst /\ a < m.dst + Len(m.units) THEN m.units[a - m.dst + 1] ELSE ring[a]]
        /\ delivered' = delivered
    BY <1>3 DEF NocDeliver, m
  <2>2. Count(m) = Len(m.units) /\ IncOf(m) = 0
    BY <1>3 DEF Count, IncOf
  <2>3. \A j : Value(scratch, m, j) = m.units[j + 1]
    BY <1>3 DEF Value
  <2> QED
    BY <2>1, <2>2, <2>3, <1>3 DEF After, m
<1>4. CASE m.op = "scratch"
  <2>1. /\ ring' = [a \in DOMAIN ring |-> IF a >= m.dst /\ a < m.dst + m.n
                                       THEN [cmd |-> scratch[m.half + 1].cmd,
                                             idx |-> scratch[m.half + 1].first + m.off + (a - m.dst), len |-> 0]
                                       ELSE ring[a]]
        /\ delivered' = delivered
    BY <1>4 DEF NocDeliver, m
  <2>2. Count(m) = m.n /\ IncOf(m) = 0
    BY <1>4 DEF Count, IncOf
  <2>3. \A j : Value(scratch, m, j)
                 = [cmd |-> scratch[m.half + 1].cmd, idx |-> scratch[m.half + 1].first + m.off + j, len |-> 0]
    BY <1>4 DEF Value
  <2> QED
    BY <2>1, <2>2, <2>3, <1>4 DEF After, m
<1>5. CASE m.op = "inc"
  <2>1. ring' = ring /\ delivered' = delivered + m.n
    BY <1>5 DEF NocDeliver, m
  <2>2. IncOf(m) = m.n
    BY <1>5 DEF IncOf
  <2>3. After(scratch, ring, m) = [a \in DOMAIN ring |-> ring[a]]
    BY <1>5 DEF After
  <2> QED
    BY <2>1, <2>2, <2>3 DEF m
<1>6. m.op \in {"units", "scratch", "inc"}
  BY <1>2, MsgFacts
<1> QED
  BY <1>3, <1>4, <1>5, <1>6

\* A message of the prefetcher arrives.
LEMMA NocDeliverPreserves ==
    ASSUME IInv, NocDeliver, UNCHANGED lengths
    PROVE  IInv'
<1>1. Types /\ HalvesApart /\ Unsent
  BY DEF IInv
<1>inside. PICK base \in Nat, wr \in Nat, end \in Nat, hi \in Nat : \E W : Inside(base, wr, end, W, hi)
  BY DEF IInv
<1>2. PICK W : Inside(base, wr, end, W, hi)
  BY <1>inside
<1>3. /\ outbox # <<>> /\ outbox' = Tail(outbox)
      /\ UNCHANGED <<ppc, upSem, wrPtr, pcmd, job, scratch, reading, toggle, credits>>
      /\ UNCHANGED <<dpc, seen, fence, ptr, block, got, dcmd, len, left, part, prev, since, unsent>>
  BY DEF NocDeliver, dispatchVars
<1> DEFINE m == Head(outbox)
           lo == base + fence + Units(delivered)
<1>4. Channel(outbox, scratch, ring, base, base + ptr, wr, W, lo, hi)
  BY <1>2 DEF Inside
<1>5. outbox \in Seq(Msg) /\ Len(outbox) \in Nat
  BY <1>4 DEF Channel
<1>6. m \in Msg /\ IncOf(m) \in Nat /\ Units(IncOf(m)) \in Nat
  <2>1. Head(outbox) \in Msg
    BY <1>3, <1>5
  <2> QED
    BY <2>1, MsgFacts
<1>7. /\ DOMAIN ring' = DOMAIN ring /\ \A a \in DOMAIN ring : ring'[a] = After(scratch, ring, m)[a]
      /\ delivered' = delivered + IncOf(m)
  BY <1>1, <1>5, DeliverIs DEF Types
<1>9. Types'
  <2>1. delivered' \in Nat /\ seen \in 0 .. delivered'
    BY <1>1, <1>6, <1>7, SMTT(30) DEF Types
  <2> QED
    BY <2>1, <1>1, <1>3, <1>7 DEF Types
<1>10. HalvesApart'
  <2>1. \A k \in 1 .. Len(Tail(outbox)) : k + 1 \in 1 .. Len(outbox) /\ Tail(outbox)[k] = outbox[k + 1]
    BY <1>3, <1>5
  <2> QED
    BY <2>1, <1>1, <1>3 DEF HalvesApart
<1>11. /\ lo \in Nat /\ base + ptr <= lo /\ base + ptr \in Nat /\ wr <= base + ptr + RingSize
       /\ wr <= base + RingSize + RingSize /\ DOMAIN W \subseteq Nat
  <2>1. ptr <= fence /\ ptr \in Nat /\ fence \in Nat
    BY <1>1, <1>2, Sizes DEF Inside, Dispatcher, Types
  <2>2. Units(delivered) \in Nat
    BY <1>1, <1>2, Geometry
  <2>3. wr <= base + ptr + RingSize /\ wr <= base + RingSize + RingSize /\ DOMAIN W \subseteq Nat
    BY <1>1, <1>2, Geometry
  <2> QED
    BY <2>1, <2>2, <2>3
<1>12. /\ Channel(Tail(outbox), scratch, After(scratch, ring, m), base, base + ptr, wr, W, lo + Units(IncOf(m)), hi)
       /\ \A a \in DOMAIN ring : After(scratch, ring, m)[a] # ring[a] =>
            \E v \in Nat : lo <= v /\ v < wr /\ Place(base, v, a)
  <2>1. DOMAIN ring = 0 .. RingSize - 1 /\ base <= base + ptr
    BY <1>1, Sizes DEF Types
  <2> HIDE DEF lo
  <2> QED
    BY <2>1, <1>3, <1>4, <1>11, Deliver DEF m
<1>13. Unsent'
  <2> SUFFICES ASSUME unsent # <<>>
               PROVE  \A k \in 0 .. unsent[1].n - 1 : ring'[unsent[1].src + k] = ring[unsent[1].src + k]
    BY <1>1, <1>3 DEF Unsent, BlockStart
  <2> SUFFICES ASSUME NEW k \in 0 .. unsent[1].n - 1, ring'[unsent[1].src + k] # ring[unsent[1].src + k]
               PROVE  FALSE
    OBVIOUS
  <2>1. unsent[1].src \in Nat /\ unsent[1].n \in Nat
    BY <1>1, UnsentIs
  <2> DEFINE a == unsent[1].src + k
  <2>2. a \in Nat /\ unsent[1].src <= a /\ a < unsent[1].src + unsent[1].n
    BY <2>1
  <2>3. a \in DOMAIN ring
    <3>1. unsent[1].src + unsent[1].n <= RingSize
      BY <1>1 DEF Unsent
    <3>2. DOMAIN ring = 0 .. RingSize - 1 /\ RingSize \in Nat
      BY <1>1, Sizes DEF Types
    <3> HIDE DEF a
    <3> QED
      BY <3>1, <3>2, <2>1, <2>2
  <2> HIDE DEF a, lo, m
  <2>4. ring'[a] # ring[a]
    BY DEF a
  <2>5. PICK v \in Nat : lo <= v /\ v < wr /\ Place(base, v, a)
    BY <2>3, <2>4, <1>7, <1>12
  <2>6. base + ptr <= v
    BY <2>5, <1>11
  <2> QED
    BY <2>2, <2>5, <2>6, <1>1, <1>2, UnsentHeld
<1>14. Prefetcher(base, wr, end, W, hi)' /\ NextParity' = NextParity
  <2>1. Prefetcher(base, wr, end, W, hi) /\ Place(base, wr, wrPtr)
    BY <1>2 DEF Inside, Prefetcher
  <2> QED
    BY <2>1, <1>3, PrefetcherSame
<1>15. PICK par : NextParity = par
  OBVIOUS
<1>16. Dispatcher(base, end, NextParity, W)'
  <2>1. Dispatcher(base, end, NextParity, W)
    BY <1>2 DEF Inside
  <2>2. dpc \in Ending => ppc' \in Last
    BY <2>1, <1>3 DEF Dispatcher
  <2> QED
    BY <2>1, <2>2, <1>3, <1>14, <1>15, QuietDispatcher
<1>17. Space(base, hi)'
  <2>1. Space(base, hi)
    BY <1>2 DEF Inside
  <2> QED
    BY <2>1, <1>3, DispatcherRests
<1>18. Channel(outbox', scratch', ring', base, base + ptr', wr, W, base + fence' + Units(delivered'), hi)
  <2>1. Units(delivered + IncOf(m)) = Units(delivered) + Units(IncOf(m)) /\ Units(delivered) \in Nat
    <3>1. \A x \in Nat : Units(x) \in Nat
      BY UnitsOf
    <3>2. \A x, y \in Nat : Units(x + y) = Units(x) + Units(y)
      BY UnitsOf
    <3>3. delivered \in Nat
      BY <1>1 DEF Types
    <3> HIDE DEF m
    <3> QED
      BY <3>1, <3>2, <3>3, <1>6
  <2>2. base + fence' + Units(delivered') = lo + Units(IncOf(m))
    <3>1. fence \in Nat
      BY <1>1, Sizes DEF Types
    <3> HIDE DEF m
    <3> QED
      BY <2>1, <3>1, <1>3, <1>6, <1>7
  <2>3. \A v \in Nat : base + ptr <= v /\ v < wr => ring'[At(base, v)] = After(scratch, ring, m)[At(base, v)]
    <3> SUFFICES ASSUME NEW v \in Nat, base + ptr <= v, v < wr
                 PROVE  ring'[At(base, v)] = After(scratch, ring, m)[At(base, v)]
      OBVIOUS
    <3>1. At(base, v) \in 0 .. RingSize - 1
      <4>1. ptr \in Nat /\ RingSize \in Nat
        BY <1>1, Sizes DEF Types
      <4> HIDE DEF lo, m
      <4> QED
        BY <4>1, <1>11 DEF At
    <3>2. At(base, v) \in DOMAIN ring
      BY <3>1, <1>1 DEF Types
    <3> QED
      BY <3>2, <1>7
  <2> DEFINE from == base + ptr
             low == lo + Units(IncOf(m))
             rg == After(scratch, ring, m)
  <2>4. Channel(Tail(outbox), scratch, rg, base, from, wr, W, low, hi) /\ from \in Nat /\ from <= from
    BY <1>11, <1>12
  <2>5. \A v \in Nat : from <= v /\ v < wr => ring'[At(base, v)] = rg[At(base, v)]
    BY <2>3
  <2>6. DOMAIN W \subseteq Nat
    BY <1>11
  <2>7. base + ptr' = from /\ base + fence' + Units(delivered') = low
    BY <2>2, <1>3
  <2> HIDE DEF from, low, rg
  <2>8. Channel(Tail(outbox), scratch, ring', base, from, wr, W, low, hi)
    BY <2>4, <2>5, <2>6, RingKept
  <2> QED
    BY <2>7, <2>8, <1>3
<1>19. Plan(W, end, par)
  BY <1>2, <1>15 DEF Inside
<1> QED
  BY <1>9, <1>10, <1>13, <1>14, <1>15, <1>16, <1>17, <1>18, <1>19, InsideNext

\* The dispatcher's NOC write reads the ring.
LEMMA NocSendPreserves ==
    ASSUME IInv, NocSend, UNCHANGED lengths
    PROVE  IInv'
<1>1. Types /\ HalvesApart /\ Unsent
  BY DEF IInv
<1>inside. PICK base \in Nat, wr \in Nat, end \in Nat, hi \in Nat : \E W : Inside(base, wr, end, W, hi)
  BY DEF IInv
<1>2. PICK W : Inside(base, wr, end, W, hi)
  BY <1>inside
<1>3. /\ unsent # <<>> /\ unsent' = <<>>
      /\ ring' = [a \in DOMAIN ring |-> IF a >= unsent[1].src /\ a < unsent[1].src + unsent[1].n THEN Junk ELSE ring[a]]
      /\ UNCHANGED <<ppc, upSem, wrPtr, pcmd, job, scratch, reading, toggle, outbox, delivered, credits>>
      /\ UNCHANGED <<dpc, seen, fence, ptr, block, got, dcmd, len, left, part, prev, since>>
  BY DEF NocSend, prefetchVars
<1>4. Types'
  BY <1>1, <1>3 DEF Types
<1>5. HalvesApart' /\ Unsent'
  BY <1>1, <1>3 DEF HalvesApart, Unsent
<1>6. Prefetcher(base, wr, end, W, hi)' /\ NextParity' = NextParity
  <2>1. Prefetcher(base, wr, end, W, hi) /\ Place(base, wr, wrPtr)
    BY <1>2 DEF Inside, Prefetcher
  <2> QED
    BY <2>1, <1>3, PrefetcherSame
<1>7. PICK par : NextParity = par
  OBVIOUS
<1>8. Dispatcher(base, end, NextParity, W)'
  <2>1. Dispatcher(base, end, NextParity, W)
    BY <1>2 DEF Inside
  <2>2. dpc \in Ending => ppc' \in Last
    BY <2>1, <1>3 DEF Dispatcher
  <2> QED
    BY <2>1, <2>2, <1>3, <1>6, <1>7, QuietDispatcher
<1>9. Space(base, hi)'
  <2>1. Space(base, hi)
    BY <1>2 DEF Inside
  <2> QED
    BY <2>1, <1>3, DispatcherRests
<1>10. Channel(outbox', scratch', ring', base, base + ptr', wr, W, base + fence' + Units(delivered'), hi)
  <2>1. base + ptr \in Nat /\ RingSize \in Nat /\ ptr \in Nat
    BY <1>1, Sizes DEF Types
  <2>2. DOMAIN W \subseteq Nat /\ wr <= base + ptr + RingSize /\ wr <= base + RingSize + RingSize
    BY <1>1, <1>2, Geometry
  <2>3. \A v \in Nat : base + ptr <= v /\ v < wr => ring'[At(base, v)] = ring[At(base, v)]
    <3> SUFFICES ASSUME NEW v \in Nat, base + ptr <= v, v < wr PROVE ring'[At(base, v)] = ring[At(base, v)]
      OBVIOUS
    <3> DEFINE a == At(base, v)
    <3>1. a \in 0 .. RingSize - 1 /\ a \in Nat
      BY <2>1, <2>2 DEF At
    <3>2. ~(unsent[1].src <= a /\ a < unsent[1].src + unsent[1].n)
      <4> HIDE DEF a
      <4> QED
        BY <3>1, <1>1, <1>2, <1>3, UnsentHeld DEF a
    <3>3. a \in DOMAIN ring
      BY <3>1, <1>1 DEF Types
    <3>4. unsent[1].src \in Nat /\ unsent[1].n \in Nat
      BY <1>1, <1>3, UnsentIs
    <3> HIDE DEF a
    <3> QED
      BY <3>1, <3>2, <3>3, <3>4, <1>3 DEF a
  <2>4. Channel(outbox, scratch, ring, base, base + ptr, wr, W, base + fence + Units(delivered), hi)
    BY <1>2 DEF Inside
  <2>5. Channel(outbox, scratch, ring', base, base + ptr, wr, W, base + fence + Units(delivered), hi)
    <3> DEFINE from == base + ptr
    <3>1. from \in Nat /\ from <= from
      BY <2>1
    <3> HIDE DEF from
    <3> QED
      BY <3>1, <2>2, <2>3, <2>4, RingKept DEF from
  <2> QED
    BY <2>5, <1>3
<1>11. Plan(W, end, par)
  BY <1>2, <1>7 DEF Inside
<1> QED
  BY <1>4, <1>5, <1>6, <1>7, <1>8, <1>9, <1>10, <1>11, InsideNext

-----------------------------------------------------------------------------
(* The prefetcher *)

\* A step of the prefetcher: the plan may grow at its end.
LEMMA PrefetcherMoves ==
    ASSUME Types, Unsent, NEW base \in Nat, NEW wr \in Nat, NEW end \in Nat, NEW hi \in Nat, NEW W,
           Inside(base, wr, end, W, hi),
           UNCHANGED <<dpc, seen, fence, ptr, block, got, dcmd, len, left, part, prev, since, unsent>>,
           UNCHANGED <<delivered, credits, ring>>,
           NEW wr1 \in Nat, NEW end1 \in Nat, NEW hi1 \in Nat, NEW X, NEW par1,
           Types', HalvesApart', NextParity' = par1, Plan(X, end1, par1),
           Channel(outbox', scratch', ring, base, base + ptr, wr1, X, base + fence + Units(delivered), hi1),
           Prefetcher(base, wr1, end1, X, hi1)',
           hi1 + Units(job'.release) + Units(upSem') = hi + Units(job.release) + Units(upSem),
           ppc \in Last => ppc' \in Last /\ end1 = end,
           \A v \in DOMAIN W : v \in DOMAIN X /\ X[v] = W[v],
           \A v, c : Begins(W, end, NextParity, v, c) => Begins(X, end1, par1, v, c)
    PROVE  IInv'
<1>1. Unsent'
  BY UnsentSame
<1>2. Space(base, hi1)'
  <2>1. Space(base, hi)
    BY DEF Inside
  <2>2. job'.release \in Nat /\ upSem' \in Nat
    BY DEF Types
  <2>3. Units(job'.release) \in Nat /\ Units(upSem') \in Nat
    BY <2>2, UnitsOf
  <2>4. Units(job.release) \in Nat /\ Units(upSem) \in Nat /\ Units(credits) \in Nat
    BY Geometry
  <2>5. hi1 + Units(job'.release) + Units(upSem') + Units(credits')
             = hi + Units(job.release) + Units(upSem) + Units(credits)
    BY <2>3, <2>4
  <2> QED
    BY <2>1, <2>5, DispatcherRests
<1>3. Dispatcher(base, end1, NextParity, X)'
  <2>1. Dispatcher(base, end, NextParity, W)
    BY DEF Inside
  <2>2. dpc \in Ending => ppc' \in Last /\ end1 = end
    BY <2>1 DEF Dispatcher
  <2> QED
    BY <2>1, <2>2, QuietDispatcher
<1>4. Channel(outbox', scratch', ring', base, base + ptr', wr1, X, base + fence' + Units(delivered'), hi1)
  OBVIOUS
<1> QED
  BY <1>1, <1>2, <1>3, <1>4, InsideNext

\* The first read of a relay.
LEMMA RelayStartPreserves ==
    ASSUME IInv, RelayStart, UNCHANGED lengths
    PROVE  IInv'
<1>1. Types /\ HalvesApart /\ Unsent
  BY DEF IInv
<1>inside. PICK base \in Nat, wr \in Nat, end \in Nat, hi \in Nat : \E W : Inside(base, wr, end, W, hi)
  BY DEF IInv
<1>2. PICK W : Inside(base, wr, end, W, hi)
  BY <1>inside
<1>3. /\ ppc = "relay" /\ ppc' = "barrier" /\ reading' = [half |-> 0, cmd |-> pcmd, first |-> 1] /\ toggle' = 0
      /\ flushed /\ job' = [job EXCEPT !.inScratch = amt_to_read]
      /\ UNCHANGED <<upSem, wrPtr, pcmd, scratch, outbox, delivered, credits, ring>>
      /\ UNCHANGED <<dpc, seen, fence, ptr, block, got, dcmd, len, left, part, prev, since, unsent>>
  BY DEF RelayStart, dispatchVars
<1>4. Prefetcher(base, wr, end, W, hi)
  BY <1>2 DEF Inside
<1>5. RelayInPlan(wr, end, W, hi)
  BY <1>3, <1>4 DEF Prefetcher, Relaying
<1>6. job \in [len : Nat, idx : Nat, inScratch : Nat, release : Nat] /\ job.len \in Nat /\ pcmd \in 0 .. 1
  BY <1>1 DEF Types
<1>7. job.idx = 1 /\ job.inScratch = 0 /\ job.len > 1 /\ job.release = 1
  BY <1>3, <1>5 DEF RelayInPlan
<1>8. amt_to_read \in Nat /\ amt_to_read >= 1 /\ 1 + amt_to_read <= job.len
  BY <1>6, <1>7, SizeAssumption DEF amt_to_read, unread
<1>9. /\ job' \in [len : Nat, idx : Nat, inScratch : Nat, release : Nat]
      /\ job'.len = job.len /\ job'.idx = 1 /\ job'.inScratch = amt_to_read /\ job'.release = 1
  BY <1>3, <1>6, <1>7, <1>8
<1>10. reading' \in Read /\ reading' # None
  BY <1>3, <1>6, NoneAssumption DEF Read
<1>11. Types'
  BY <1>1, <1>3, <1>9, <1>10 DEF Types
<1>12. HalvesApart'
  <2>1. outbox \in Seq(Msg)
    BY <1>2 DEF Inside, Channel
  <2>2. \A k \in 1 .. Len(outbox) : outbox[k].op = "inc"
    BY <2>1, <1>3 DEF flushed
  <2> QED
    BY <2>2, <1>3 DEF HalvesApart
<1>13. NextParity' = NextParity
  BY <1>3 DEF NextParity, Between
<1>14. PICK par : NextParity = par
  OBVIOUS
<1>15. RelayInPlan(wr, end, W, hi)'
  <2>1. \A i, n : Unit(i, n)' = Unit(i, n)
    BY <1>3 DEF Unit
  <2>2. HalfHolds(toggle, 1)'
    BY <1>3, <1>10 DEF HalfHolds
  <2>3. /\ 1 <= wr /\ Aligned(wr - 1) /\ end = (wr - 1) + RoundUp(job.len)
        /\ \A i \in 0 .. job.len - 1 : /\ (wr - 1) + i \in DOMAIN W
                                       /\ W[(wr - 1) + i] = Unit(i, job.len)
        /\ \A v \in DOMAIN W : v < (wr - 1) + job.len
        /\ Aligned(hi) /\ wr < hi + PageSize
    BY <1>5, <1>7 DEF RelayInPlan
  <2> QED
    BY <2>1, <2>2, <2>3, <1>3, <1>8, <1>9 DEF RelayInPlan, Aligned, RoundUp, PagesOf, Unit
<1>16. Prefetcher(base, wr, end, W, hi)'
  BY <1>3, <1>4, <1>15 DEF Prefetcher, Aligned, Units, Place, Between, Relaying, Last
<1>17. Channel(outbox', scratch', ring, base, base + ptr, wr, W, base + fence + Units(delivered), hi)
  BY <1>2, <1>3 DEF Inside
<1>18. Plan(W, end, par)
  BY <1>2, <1>14 DEF Inside
<1>19. hi + Units(job'.release) + Units(upSem') = hi + Units(job.release) + Units(upSem)
  BY <1>3, <1>7, <1>9
<1>20. ppc \notin Last
  BY <1>3 DEF Last
<1> QED
  BY <1>1, <1>2, <1>3, <1>11, <1>12, <1>13, <1>14, <1>16, <1>17, <1>18, <1>19, <1>20, PrefetcherMoves

\* A further read of a relay.
LEMMA RelayReadNextPreserves ==
    ASSUME IInv, RelayReadNext, UNCHANGED lengths
    PROVE  IInv'
<1>1. Types /\ HalvesApart /\ Unsent
  BY DEF IInv
<1>inside. PICK base \in Nat, wr \in Nat, end \in Nat, hi \in Nat : \E W : Inside(base, wr, end, W, hi)
  BY DEF IInv
<1>2. PICK W : Inside(base, wr, end, W, hi)
  BY <1>inside
<1>3. /\ ppc = "barrier" /\ ppc' = "acquire" /\ reading = None /\ unread # 0 /\ flushed /\ toggle' = 1 - toggle
      /\ reading' = [half |-> 1 - toggle, cmd |-> pcmd, first |-> job.idx + job.inScratch]
      /\ UNCHANGED <<upSem, wrPtr, pcmd, job, scratch, outbox, delivered, credits, ring>>
      /\ UNCHANGED <<dpc, seen, fence, ptr, block, got, dcmd, len, left, part, prev, since, unsent>>
  BY DEF RelayReadNext, dispatchVars
<1>4. Prefetcher(base, wr, end, W, hi)
  BY <1>2 DEF Inside
<1>5. RelayInPlan(wr, end, W, hi)
  BY <1>3, <1>4 DEF Prefetcher, Relaying
<1>6. /\ job.len \in Nat /\ job.idx \in Nat /\ job.inScratch \in Nat /\ pcmd \in 0 .. 1
      /\ toggle \in 0 .. 1 /\ 1 - toggle \in 0 .. 1 /\ 1 - (1 - toggle) = toggle
  BY <1>1 DEF Types
<1>7. job.idx + job.inScratch < job.len
  BY <1>3, <1>5, <1>6 DEF RelayInPlan, unread
<1>8. reading' \in Read /\ reading' # None
  BY <1>3, <1>6, NoneAssumption DEF Read
<1>9. Types'
  BY <1>1, <1>3, <1>6, <1>8 DEF Types
<1>10. HalvesApart'
  <2>1. outbox \in Seq(Msg)
    BY <1>2 DEF Inside, Channel
  <2>2. \A k \in 1 .. Len(outbox) : outbox[k].op = "inc"
    BY <2>1, <1>3 DEF flushed
  <2> QED
    BY <2>2, <1>3 DEF HalvesApart
<1>11. NextParity' = NextParity
  BY <1>3 DEF NextParity, Between
<1>12. PICK par : NextParity = par
  OBVIOUS
<1>13. RelayInPlan(wr, end, W, hi)'
  <2>1. \A i, n : Unit(i, n)' = Unit(i, n)
    BY <1>3 DEF Unit
  <2>2. HalfHolds(toggle, job.idx + job.inScratch)'
    BY <1>3, <1>8 DEF HalfHolds
  <2>3. scratch[toggle + 1] = [cmd |-> pcmd, first |-> job.idx]
    BY <1>3, <1>5 DEF RelayInPlan, HalfHolds
  <2>4. scratch'[(1 - toggle') + 1] = [cmd |-> pcmd', first |-> job'.idx]
    BY <2>3, <1>3, <1>6
  <2> QED
    BY <2>1, <2>2, <2>4, <1>3, <1>5, <1>7 DEF RelayInPlan, Aligned, RoundUp, PagesOf, Unit
<1>14. Prefetcher(base, wr, end, W, hi)'
  BY <1>3, <1>4, <1>13 DEF Prefetcher, Aligned, Units, Place, Between, Relaying, Last
<1>15. Channel(outbox', scratch', ring, base, base + ptr, wr, W, base + fence + Units(delivered), hi)
  BY <1>2, <1>3 DEF Inside
<1>16. Plan(W, end, par)
  BY <1>2, <1>12 DEF Inside
<1>17. hi + Units(job'.release) + Units(upSem') = hi + Units(job.release) + Units(upSem)
  BY <1>3
<1>18. ppc \notin Last
  BY <1>3 DEF Last
<1> QED
  BY <1>1, <1>2, <1>3, <1>9, <1>10, <1>11, <1>12, <1>14, <1>15, <1>16, <1>17, <1>18, PrefetcherMoves

\* The prefetcher ends.
LEMMA PrefetcherOutPreserves ==
    ASSUME IInv, PrefetcherOut, UNCHANGED lengths
    PROVE  IInv'
<1>1. Types /\ HalvesApart /\ Unsent
  BY DEF IInv
<1>inside. PICK base \in Nat, wr \in Nat, end \in Nat, hi \in Nat : \E W : Inside(base, wr, end, W, hi)
  BY DEF IInv
<1>2. PICK W : Inside(base, wr, end, W, hi)
  BY <1>inside
<1>3. /\ ppc = "waitAll" /\ ppc' = "out"
      /\ UNCHANGED <<upSem, wrPtr, pcmd, job, scratch, reading, toggle, outbox, delivered, credits, ring>>
      /\ UNCHANGED <<dpc, seen, fence, ptr, block, got, dcmd, len, left, part, prev, since, unsent>>
  BY DEF PrefetcherOut, dispatchVars
<1>4. Types' /\ HalvesApart'
  BY <1>1, <1>3 DEF Types, HalvesApart
<1>5. NextParity' = NextParity /\ ppc' \in Last
  BY <1>3 DEF NextParity, Between, Last
<1>6. PICK par : NextParity = par
  OBVIOUS
<1>7. Prefetcher(base, wr, end, W, hi)'
  <2>1. Prefetcher(base, wr, end, W, hi)
    BY <1>2 DEF Inside
  <2> QED
    BY <2>1, <1>3 DEF Prefetcher, Aligned, Units, Place, Between, Relaying, Last
<1>8. Channel(outbox', scratch', ring, base, base + ptr, wr, W, base + fence + Units(delivered), hi)
  BY <1>2, <1>3 DEF Inside
<1>9. Plan(W, end, par)
  BY <1>2, <1>6 DEF Inside
<1>10. hi + Units(job'.release) + Units(upSem') = hi + Units(job.release) + Units(upSem)
  BY <1>3
<1> QED
  BY <1>1, <1>2, <1>3, <1>4, <1>5, <1>6, <1>7, <1>8, <1>9, <1>10, PrefetcherMoves

\* The prefetcher begins a command.
LEMMA PrefetcherCallPreserves ==
    ASSUME IInv, PrefetcherCall, UNCHANGED lengths
    PROVE  IInv'
<1>1. Types /\ HalvesApart /\ Unsent
  BY DEF IInv
<1>inside. PICK base \in Nat, wr \in Nat, end \in Nat, hi \in Nat : \E W : Inside(base, wr, end, W, hi)
  BY DEF IInv
<1>2. PICK W : Inside(base, wr, end, W, hi)
  BY <1>inside
<1>3. PICK n \in Nat : /\ job' = [NoJob EXCEPT !.len = n]
                       /\ \/ ppc' = "inline" /\ n >= 1
                          \/ ppc' = "header" /\ n > 1
                          \/ ppc' = "inlineLast" /\ n = 1
  <2>1. lengths \in Lengths
    BY <1>1 DEF Types
  <2>2. /\ \A n \in lengths.inline : n \in Nat /\ n >= 1
        /\ \A n \in lengths.relay : n \in Nat /\ n > 1
    BY <2>1, SizeAssumption
  <2> QED
    BY <2>2 DEF PrefetcherCall
<1>4. /\ ppc = "idle"
      /\ UNCHANGED <<upSem, wrPtr, pcmd, scratch, reading, toggle, outbox, delivered, credits, ring>>
      /\ UNCHANGED <<dpc, seen, fence, ptr, block, got, dcmd, len, left, part, prev, since, unsent>>
  BY DEF PrefetcherCall, dispatchVars
<1>5. /\ job' \in [len : Nat, idx : Nat, inScratch : Nat, release : Nat]
      /\ job'.len = n /\ job'.release = 0 /\ job'.inScratch = 0
  BY <1>3 DEF NoJob
<1>6. ppc' \in {"inline", "header", "inlineLast"}
  BY <1>3
<1>7. Types' /\ HalvesApart'
  BY <1>1, <1>4, <1>5, <1>6 DEF Types, HalvesApart
<1>8. NextParity' = NextParity
  BY <1>4, <1>6 DEF NextParity, Between
<1>9. PICK par : NextParity = par
  OBVIOUS
<1>10. Prefetcher(base, wr, end, W, hi)
  BY <1>2 DEF Inside
<1>11. Prefetcher(base, wr, end, W, hi)'
  BY <1>3, <1>4, <1>5, <1>10 DEF Prefetcher, Aligned, Units, Place, Between, Relaying, Last
<1>12. Channel(outbox', scratch', ring, base, base + ptr, wr, W, base + fence + Units(delivered), hi)
  BY <1>2, <1>4 DEF Inside
<1>13. Plan(W, end, par)
  BY <1>2, <1>9 DEF Inside
<1>14. hi + Units(job'.release) + Units(upSem') = hi + Units(job.release) + Units(upSem)
  <2>1. job.release = 0
    BY <1>4, <1>10 DEF Prefetcher, Between
  <2> QED
    BY <2>1, <1>4, <1>5
<1>15. ppc \notin Last
  BY <1>4 DEF Last
<1> QED
  BY <1>1, <1>2, <1>4, <1>7, <1>8, <1>9, <1>11, <1>12, <1>13, <1>14, <1>15, PrefetcherMoves

\* An inline command is flushed: its pages are released.
LEMMA RelayInlineFlushedPreserves ==
    ASSUME IInv, RelayInlineFlushed, UNCHANGED lengths
    PROVE  IInv'
<1>1. Types /\ HalvesApart /\ Unsent
  BY DEF IInv
<1>inside. PICK base \in Nat, wr \in Nat, end \in Nat, hi \in Nat : \E W : Inside(base, wr, end, W, hi)
  BY DEF IInv
<1>2. PICK W : Inside(base, wr, end, W, hi)
  BY <1>inside
<1>3. /\ ppc \in {"flush", "flushLast"} /\ ppc' = (IF ppc = "flushLast" THEN "waitAll" ELSE "idle")
      /\ outbox' = Append(outbox, Inc(job.release)) /\ job' = NoJob /\ pcmd' = 1 - pcmd
      /\ UNCHANGED <<upSem, wrPtr, scratch, reading, toggle, delivered, credits, ring>>
      /\ UNCHANGED <<dpc, seen, fence, ptr, block, got, dcmd, len, left, part, prev, since, unsent>>
  BY DEF RelayInlineFlushed, dispatchVars
<1>4. Prefetcher(base, wr, end, W, hi)
  BY <1>2 DEF Inside
<1>5. wr = end /\ hi + Units(job.release) = end /\ reading = None
  BY <1>3, <1>4 DEF Prefetcher
<1>6. Types'
  <2>1. NoJob \in [len : Nat, idx : Nat, inScratch : Nat, release : Nat]
    BY DEF NoJob
  <2> QED
    BY <2>1, <1>1, <1>3 DEF Types
<1>7. HalvesApart'
  BY <1>3, <1>5 DEF HalvesApart
<1>8. NextParity' = NextParity
  BY <1>1, <1>3 DEF NextParity, Between, Types
<1>9. PICK par : NextParity = par
  OBVIOUS
<1>10. Prefetcher(base, wr, end, W, end)'
  BY <1>3, <1>4, <1>5 DEF Prefetcher, Aligned, Units, Place, Between, Relaying, Last, NoJob
<1>11. Channel(outbox', scratch', ring, base, base + ptr, wr, W, base + fence + Units(delivered), end)
  <2> DEFINE m == Inc(job.release)
             from == base + ptr
             lo == base + fence + Units(delivered)
  <2>1. Channel(outbox, scratch, ring, base, from, wr, W, lo, hi) /\ DOMAIN W \subseteq Nat
    BY <1>1, <1>2, Geometry DEF Inside
  <2>2. from \in Nat
    BY <1>1, Sizes DEF Types
  <2>3. job.release \in Nat
    BY <1>1 DEF Types
  <2>4. m \in Msg /\ m.op = "inc" /\ IncOf(m) = job.release /\ Count(m) = 0
    BY <2>3 DEF Msg, Inc, IncOf, Count
  <2>5. hi + Units(IncOf(m)) = end /\ wr + Count(m) = wr
    BY <2>4, <1>5
  <2> HIDE DEF m, from, lo
  <2>6. Channel(Append(outbox, m), scratch, ring, base, from, wr + Count(m), W, lo, hi + Units(IncOf(m)))
    BY <2>1, <2>2, <2>4, AddMessage
  <2>7. Channel(Append(outbox, m), scratch, ring, base, from, wr, W, lo, end)
    BY <2>5, <2>6
  <2> QED
    BY <2>7, <1>3 DEF m, from, lo
<1>12. Plan(W, end, par)
  BY <1>2, <1>9 DEF Inside
<1>13. end + Units(job'.release) + Units(upSem') = hi + Units(job.release) + Units(upSem)
  <2>1. job'.release = 0 /\ Units(job'.release) = 0
    BY <1>3, UnitsOf DEF NoJob
  <2>2. Units(upSem) \in Nat
    BY <1>1, <1>2, Geometry
  <2> QED
    BY <2>1, <2>2, <1>3, <1>5
<1>14. ppc \in Last => ppc' \in Last
  BY <1>3 DEF Last
<1> QED
  BY <1>1, <1>2, <1>3, <1>6, <1>7, <1>8, <1>9, <1>10, <1>11, <1>12, <1>13, <1>14, PrefetcherMoves

\* Where a write that reaches the end of the ring goes on.
LEMMA Wraps ==
    ASSUME NEW base \in Nat, NEW p \in Nat, NEW d \in 0 .. RingSize, NEW n \in Nat, n >= 1, Place(base, p, d),
           p + n <= base + RingSize + RingSize
    PROVE  /\ d = RingSize => Place(base, p, 0)
           /\ n > RingSize - d => Place(base, p + (RingSize - d), 0)
BY Sizes DEF Place

\* An address and its position move together.
LEMMA PlaceMoves ==
    ASSUME NEW base \in Nat, NEW p \in Nat, NEW d \in Nat, NEW n \in Nat, Place(base, p, d)
    PROVE  Place(base, p + n, d + n)
BY Sizes DEF Place

\* write_downstream: units are sent in one write, or in two around the end of the ring.
LEMMA SendUnits ==
    ASSUME NEW q, NEW sc, NEW rg, NEW base \in Nat, NEW from \in Nat, NEW wr \in Nat, NEW X, NEW lo, NEW hi \in Nat,
           Channel(q, sc, rg, base, from, wr, X, lo, hi), DOMAIN X \subseteq Nat, hi <= wr,
           NEW d \in 0 .. RingSize, Place(base, wr, d),
           NEW units \in Seq(Cell), Len(units) >= 1, Len(units) <= RingSize, wr + Len(units) <= base + RingSize + RingSize,
           \A j \in 0 .. Len(units) - 1 : wr + j \in DOMAIN X /\ X[wr + j] = units[j + 1]
    PROVE  /\ Len(units) <= RingSize - d =>
                Channel(Append(q, WriteUnits(d, units)), sc, rg, base, from, wr + Len(units), X, lo, hi)
           /\ Len(units) > RingSize - d =>
                Channel(q \o (IF RingSize - d > 0 THEN <<WriteUnits(d, SubSeq(units, 1, RingSize - d))>> ELSE <<>>)
                          \o <<WriteUnits(0, SubSeq(units, RingSize - d + 1, Len(units)))>>,
                        sc, rg, base, from, wr + Len(units), X, lo, hi)
<1> DEFINE n == Len(units)
           r == RingSize - d
<1>1. n \in Nat /\ r \in Nat /\ RingSize \in Nat /\ d \in Nat /\ d + r = RingSize
  <2>1. RingSize \in Nat
    BY Sizes
  <2>2. n \in Nat
    OBVIOUS
  <2>3. d \in Nat /\ r \in Nat /\ d + r = RingSize
    BY <2>1
  <2> QED
    BY <2>1, <2>2, <2>3
<1>2. q \in Seq(Msg)
  BY DEF Channel
<1>3. ASSUME NEW p \in Nat, NEW e \in Nat, NEW s \in Seq(Cell), NEW t \in Seq(Msg), Place(base, p, e), e + Len(s) <= RingSize,
             hi <= p, Channel(t, sc, rg, base, from, p, X, lo, hi),
             \A j \in 0 .. Len(s) - 1 : p + j \in DOMAIN X /\ X[p + j] = s[j + 1]
      PROVE  WriteUnits(e, s) \in Msg /\ Channel(Append(t, WriteUnits(e, s)), sc, rg, base, from, p + Len(s), X, lo, hi)
  <2> DEFINE m == WriteUnits(e, s)
  <2>1. m \in Msg /\ m.op = "units" /\ m.units = s /\ m.dst = e
    BY DEF Msg, WriteUnits
  <2> HIDE DEF m
  <2>2. Count(m) = Len(s) /\ IncOf(m) = 0 /\ Units(IncOf(m)) = 0
    BY <2>1, UnitsOf DEF Count, IncOf
  <2>3. \A j : Value(sc, m, j) = s[j + 1]
    BY <2>1 DEF Value
  <2>4. WriteAt(sc, base, X, m, p)
    BY <2>1, <2>2, <2>3, <1>3 DEF WriteAt
  <2>5. Channel(Append(t, m), sc, rg, base, from, p + Count(m), X, lo, hi + Units(IncOf(m)))
    BY <2>1, <2>4, <1>3, AddMessage
  <2>6. p + Count(m) = p + Len(s) /\ hi + Units(IncOf(m)) = hi
    BY <2>2
  <2>7. Channel(Append(t, m), sc, rg, base, from, p + Len(s), X, lo, hi)
    BY <2>5, <2>6
  <2> QED
    BY <2>1, <2>7 DEF m
<1>4. ASSUME n <= r PROVE Channel(Append(q, WriteUnits(d, units)), sc, rg, base, from, wr + n, X, lo, hi)
  <2>1. d + Len(units) <= RingSize
    BY <1>1, <1>4
  <2> QED
    BY <2>1, <1>1, <1>2, <1>3
<1>5. ASSUME n > r
      PROVE  Channel(q \o (IF r > 0 THEN <<WriteUnits(d, SubSeq(units, 1, r))>> ELSE <<>>)
                       \o <<WriteUnits(0, SubSeq(units, r + 1, n))>>, sc, rg, base, from, wr + n, X, lo, hi)
  <2> DEFINE s1 == SubSeq(units, 1, r)
             s2 == SubSeq(units, r + 1, n)
             p2 == wr + r
  <2>1. s1 \in Seq(Cell) /\ Len(s1) = r /\ \A j \in 1 .. r : s1[j] = units[j]
    BY <1>1, <1>5
  <2>2. s2 \in Seq(Cell) /\ Len(s2) = n - r /\ \A j \in 1 .. n - r : s2[j] = units[r + j]
    BY <1>1, <1>5
  <2>3. Place(base, p2, 0) /\ p2 \in Nat /\ hi <= p2
    <3>1. wr + n <= base + RingSize + RingSize /\ n >= 1
      OBVIOUS
    <3> HIDE DEF n
    <3>2. Place(base, wr + (RingSize - d), 0)
      BY <3>1, <1>1, <1>5, Wraps
    <3> QED
      BY <3>2, <1>1
  <2>4. \A j \in 0 .. n - r - 1 : p2 + j \in DOMAIN X /\ X[p2 + j] = s2[j + 1]
    <3> SUFFICES ASSUME NEW j \in 0 .. n - r - 1 PROVE p2 + j \in DOMAIN X /\ X[p2 + j] = s2[j + 1]
      OBVIOUS
    <3>1. r + j \in 0 .. n - 1 /\ p2 + j = wr + (r + j) /\ j + 1 \in 1 .. n - r /\ r + (j + 1) = (r + j) + 1
      BY <1>1, <1>5
    <3>2. wr + (r + j) \in DOMAIN X /\ X[wr + (r + j)] = units[(r + j) + 1]
      BY <3>1
    <3>3. s2[j + 1] = units[r + (j + 1)]
      BY <3>1, <2>2
    <3> HIDE DEF s2, p2, r, n
    <3> QED
      BY <3>1, <3>2, <3>3
  <2>5. 0 + Len(s2) <= RingSize
    <3>1. n <= RingSize
      OBVIOUS
    <3> HIDE DEF n, r, s2
    <3> QED
      BY <3>1, <2>2, <1>1
  <2>6. \A j \in 0 .. Len(s2) - 1 : p2 + j \in DOMAIN X /\ X[p2 + j] = s2[j + 1]
    BY <2>2, <2>4
  <2>7. p2 + Len(s2) = wr + n
    <3> HIDE DEF n, r, s2
    <3> QED
      BY <2>2, <1>1
  <2>8. CASE r > 0
    <3>1. \A j \in 0 .. r - 1 : wr + j \in DOMAIN X /\ X[wr + j] = s1[j + 1]
      <4> SUFFICES ASSUME NEW j \in 0 .. r - 1 PROVE wr + j \in DOMAIN X /\ X[wr + j] = s1[j + 1]
        OBVIOUS
      <4>1. j \in 0 .. n - 1 /\ j + 1 \in 1 .. r
        BY <1>1, <1>5
      <4>2. s1[j + 1] = units[j + 1]
        BY <4>1, <2>1
      <4> HIDE DEF s1
      <4> QED
        BY <4>1, <4>2
    <3>2. d + Len(s1) <= RingSize
      BY <2>1, <1>1
    <3>3. \A j \in 0 .. Len(s1) - 1 : wr + j \in DOMAIN X /\ X[wr + j] = s1[j + 1]
      BY <3>1, <2>1
    <3>4. WriteUnits(d, s1) \in Msg /\ Channel(Append(q, WriteUnits(d, s1)), sc, rg, base, from, wr + Len(s1), X, lo, hi)
      <4> HIDE DEF s1
      <4> QED
        BY <3>2, <3>3, <2>1, <1>1, <1>2, <1>3
    <3> DEFINE t == Append(q, WriteUnits(d, s1))
    <3>5. t \in Seq(Msg) /\ Channel(t, sc, rg, base, from, p2, X, lo, hi)
      <4>1. wr + Len(s1) = p2
        BY <2>1
      <4> HIDE DEF s1
      <4> QED
        BY <3>4, <4>1, <1>2
    <3>6. WriteUnits(0, s2) \in Msg /\ Channel(Append(t, WriteUnits(0, s2)), sc, rg, base, from, p2 + Len(s2), X, lo, hi)
      <4> HIDE DEF s2, p2, t
      <4> QED
        BY <3>5, <2>2, <2>3, <2>5, <2>6, <1>3
    <3>7. Append(t, WriteUnits(0, s2)) = q \o <<WriteUnits(d, s1)>> \o <<WriteUnits(0, s2)>>
      <4> HIDE DEF s1, s2
      <4>1. t = q \o <<WriteUnits(d, s1)>>
        BY <1>2, <3>4, AppendIsConcat
      <4>2. Append(t, WriteUnits(0, s2)) = t \o <<WriteUnits(0, s2)>>
        <5> HIDE DEF t
        <5> QED
          BY <3>5, <3>6, AppendIsConcat
      <4> QED
        BY <4>1, <4>2
    <3> QED
      BY <3>6, <3>7, <2>7, <2>8
  <2>9. CASE ~(r > 0)
    <3>1. r = 0 /\ p2 = wr
      BY <2>9, <1>1
    <3>2. WriteUnits(0, s2) \in Msg /\ Channel(Append(q, WriteUnits(0, s2)), sc, rg, base, from, wr + Len(s2), X, lo, hi)
      <4>1. \A j \in 0 .. Len(s2) - 1 : wr + j \in DOMAIN X /\ X[wr + j] = s2[j + 1]
        BY <3>1, <2>6
      <4>2. Place(base, wr, 0)
        BY <3>1, <2>3
      <4> HIDE DEF s2
      <4> QED
        BY <4>1, <4>2, <2>2, <2>5, <1>2, <1>3
    <3>3. Append(q, WriteUnits(0, s2)) = q \o <<>> \o <<WriteUnits(0, s2)>>
      <4> HIDE DEF s2
      <4>1. Append(q, WriteUnits(0, s2)) = q \o <<WriteUnits(0, s2)>>
        BY <3>2, <1>2, AppendIsConcat
      <4>2. q \o <<>> = q
        BY <1>2, ConcatEmptySeq
      <4> QED
        BY <4>1, <4>2
    <3>4. wr + Len(s2) = wr + n
      BY <2>7, <3>1
    <3> QED
      BY <3>2, <3>3, <3>4, <2>9
  <2> QED
    BY <2>8, <2>9
<1> QED
  BY <1>4, <1>5

\* The elements of a sequence with one more.
LEMMA AppendElements ==
    ASSUME NEW S, NEW t \in Seq(S), NEW m \in S
    PROVE  /\ Append(t, m) \in Seq(S) /\ Len(t) <= Len(Append(t, m))
           /\ \A i \in 1 .. Len(Append(t, m)) : (i \in 1 .. Len(t) /\ Append(t, m)[i] = t[i]) \/ Append(t, m)[i] = m
OBVIOUS

\* The messages q, then the writes of n units of a half h, then the release of k pages.
Sent(q, h, n, k) == q \o PageWrites(h, n) \o <<Inc(k)>>

\* The messages t that read another half than h are among q.
Others(t, q, h) ==
    \A i \in 1 .. Len(t) : t[i].op = "scratch" => t[i].half = h \/ (i \in 1 .. Len(q) /\ t[i] = q[i])

\* The plan has n units at p of the command and from the index that u names.
Chunk(X, p, n, u) ==
    \A j \in 0 .. n - 1 : p + j \in DOMAIN X /\ X[p + j] = [cmd |-> u.cmd, idx |-> u.first + j, len |-> 0]

\* write_pages_to_dispatcher and cb_release_pages: n units of a half are sent, then k pages are released.
LEMMA SendScratch ==
    ASSUME NEW q, NEW sc, NEW rg, NEW base \in Nat, NEW from \in Nat, NEW wr \in Nat, NEW X, NEW lo, NEW hi \in Nat,
           Channel(q, sc, rg, base, from, wr, X, lo, hi), DOMAIN X \subseteq Nat, hi <= wr,
           wrPtr \in 0 .. RingSize, Place(base, wr, wrPtr), NEW h \in 0 .. 1, sc[h + 1].first \in Nat, NEW k \in Nat,
           NEW n \in Nat, n >= 1, n <= RingSize, wr + n <= base + RingSize + RingSize,
           Chunk(X, wr, n, sc[h + 1])
    PROVE  /\ Channel(Sent(q, h, n, k), sc, rg, base, from, wr + n, X, lo, hi + Units(k))
           /\ Place(base, wr + n, PtrBehind(n)) /\ PtrBehind(n) \in 0 .. RingSize
           /\ Others(Sent(q, h, n, k), q, h)
<1> DEFINE d == Wrapped
           r == RingSize - d
           Only(t) == Others(t, q, h)
<1>1. /\ d \in Nat /\ r \in Nat /\ r >= 1 /\ RingSize \in Nat /\ d + r = RingSize /\ Place(base, wr, d)
      /\ n > r => Place(base, wr + r, 0)
  <2>1. RingSize \in Nat /\ RingSize >= 1
    <3>1. BlockSize <= RingSize
      <4>1. 0 \in 0 .. Blocks - 1
        BY Sizes
      <4>2. 0 * BlockSize = 0 /\ 0 * BlockSize + BlockSize <= RingSize
        BY <4>1, BlockBounds
      <4> QED
        BY <4>2, Sizes
    <3> QED
      BY <3>1, Sizes
  <2>2. d \in 0 .. RingSize - 1 /\ Place(base, wr, d)
    <3>1. wrPtr = RingSize => Place(base, wr, 0)
      BY Wraps
    <3> QED
      BY <3>1, <2>1 DEF Wrapped
  <2> HIDE DEF d
  <2>4. d \in 0 .. RingSize
    BY <2>1, <2>2
  <2>3. n > RingSize - d => Place(base, wr + (RingSize - d), 0)
    BY <2>2, <2>4, Wraps
  <2> QED
    BY <2>1, <2>2, <2>3
<1>2. q \in Seq(Msg)
  BY DEF Channel
<1>3. PageWrites(h, n) = IF n > r THEN <<WriteScratch(d, h, 0, r), WriteScratch(0, h, r, n - r)>>
                                  ELSE <<WriteScratch(d, h, 0, n)>>
  BY DEF PageWrites
<1>4. Place(base, wr + n, PtrBehind(n)) /\ PtrBehind(n) \in 0 .. RingSize
  <2>1. PtrBehind(n) = IF d + n > RingSize THEN d + n - RingSize ELSE d + n
    BY DEF PtrBehind
  <2> HIDE DEF d, r
  <2>2. CASE n > r
    <3>1. PtrBehind(n) = n - r /\ n - r \in 0 .. RingSize
      BY <2>1, <2>2, <1>1
    <3>2. wr + r - base \in {0, 0 + RingSize, 0 - RingSize}
      BY <2>2, <1>1 DEF Place
    <3>3. wr + n - base \in {n - r, n - r + RingSize, n - r - RingSize}
      BY <3>2, <1>1
    <3> QED
      BY <3>1, <3>3 DEF Place
  <2>3. CASE n <= r
    <3>1. PtrBehind(n) = d + n /\ d + n \in 0 .. RingSize
      BY <2>1, <2>3, <1>1
    <3>4. Place(base, wr + n, d + n)
      BY <1>1, PlaceMoves
    <3> QED
      BY <3>1, <3>4
  <2> QED
    BY <2>2, <2>3, <1>1
<1>5. ASSUME NEW p \in Nat, NEW e \in Nat, NEW o \in Nat, NEW c \in Nat, NEW t \in Seq(Msg), Place(base, p, e),
             e + c <= RingSize, hi <= p, Channel(t, sc, rg, base, from, p, X, lo, hi), Only(t), Len(q) <= Len(t),
             p = wr + o, o + c <= n
      PROVE  /\ WriteScratch(e, h, o, c) \in Msg /\ Append(t, WriteScratch(e, h, o, c)) \in Seq(Msg)
             /\ Channel(Append(t, WriteScratch(e, h, o, c)), sc, rg, base, from, p + c, X, lo, hi)
             /\ Only(Append(t, WriteScratch(e, h, o, c))) /\ Len(q) <= Len(Append(t, WriteScratch(e, h, o, c)))
  <2> DEFINE m == WriteScratch(e, h, o, c)
  <2>1. m \in Msg /\ m.op = "scratch" /\ m.n = c /\ m.dst = e /\ m.half = h /\ m.off = o
    BY DEF Msg, WriteScratch
  <2> HIDE DEF m
  <2>2. Count(m) = c /\ IncOf(m) = 0 /\ Units(IncOf(m)) = 0
    BY <2>1, UnitsOf DEF Count, IncOf
  <2>3. \A j : Value(sc, m, j) = [cmd |-> sc[h + 1].cmd, idx |-> sc[h + 1].first + o + j, len |-> 0]
    BY <2>1 DEF Value
  <2>4. \A j \in 0 .. c - 1 : p + j \in DOMAIN X /\ X[p + j] = Value(sc, m, j)
    <3> SUFFICES ASSUME NEW j \in 0 .. c - 1 PROVE p + j \in DOMAIN X /\ X[p + j] = Value(sc, m, j)
      OBVIOUS
    <3>1. o + j \in 0 .. n - 1 /\ p + j = wr + (o + j)
      <4>1. o \in Nat /\ c \in Nat /\ n \in Nat /\ p = wr + o /\ o + c <= n
        BY <1>5
      <4> QED
        BY <4>1
    <3>3. sc[h + 1].first + (o + j) = sc[h + 1].first + o + j
      <4> DEFINE f == sc[h + 1].first
      <4>1. f \in Nat
        OBVIOUS
      <4> HIDE DEF f
      <4>2. f + (o + j) = f + o + j
        BY <4>1
      <4> QED
        BY <4>2 DEF f
    <3>2. /\ wr + (o + j) \in DOMAIN X
          /\ X[wr + (o + j)] = [cmd |-> sc[h + 1].cmd, idx |-> sc[h + 1].first + (o + j), len |-> 0]
      BY <3>1 DEF Chunk
    <3> QED
      BY <3>1, <3>2, <3>3, <2>3
  <2>5. WriteAt(sc, base, X, m, p)
    BY <2>1, <2>2, <2>4, <1>5 DEF WriteAt
  <2>6. Channel(Append(t, m), sc, rg, base, from, p + Count(m), X, lo, hi + Units(IncOf(m)))
    BY <2>1, <2>5, <1>5, AddMessage
  <2>7. p + Count(m) = p + c /\ hi + Units(IncOf(m)) = hi
    BY <2>2
  <2>8. Channel(Append(t, m), sc, rg, base, from, p + c, X, lo, hi)
    BY <2>6, <2>7
  <2>9. Append(t, m) \in Seq(Msg) /\ Len(q) <= Len(Append(t, m))
    BY <2>1, <1>2, <1>5
  <2>10. Only(Append(t, m))
    <3>1. \A i \in 1 .. Len(Append(t, m)) : (i \in 1 .. Len(t) /\ Append(t, m)[i] = t[i]) \/ Append(t, m)[i] = m
      BY <2>1, <1>5, AppendElements
    <3> QED
      BY <3>1, <2>1, <1>5 DEF Others
  <2> QED
    BY <2>1, <2>8, <2>9, <2>10 DEF m
<1> HIDE DEF Only
<1>6. Only(q)
  BY DEF Only, Others
<1> DEFINE u == q \o PageWrites(h, n)
<1>7. u \in Seq(Msg) /\ Channel(u, sc, rg, base, from, wr + n, X, lo, hi) /\ Only(u) /\ Len(q) <= Len(u)
  <2>1. Len(q) \in Nat
    BY <1>2
  <2>2. CASE ~(n > r)
    <3> DEFINE m == WriteScratch(d, h, 0, n)
    <3>1. d + n <= RingSize /\ wr = wr + 0 /\ 0 + n <= n /\ Len(q) <= Len(q)
      BY <2>1, <2>2, <1>1
    <3>2. m \in Msg /\ Append(q, m) \in Seq(Msg) /\ Channel(Append(q, m), sc, rg, base, from, wr + n, X, lo, hi)
          /\ Only(Append(q, m)) /\ Len(q) <= Len(Append(q, m))
      <4> HIDE DEF d, r
      <4> QED
        BY <3>1, <1>1, <1>2, <1>5, <1>6
    <3>3. Append(q, m) = q \o <<m>>
      BY <3>2, <1>2, AppendIsConcat
    <3>4. u = Append(q, m)
      BY <3>3, <2>2, <1>3
    <3> QED
      BY <3>2, <3>4
  <2>3. CASE n > r
    <3> DEFINE m1 == WriteScratch(d, h, 0, r)
               m2 == WriteScratch(0, h, r, n - r)
               t == Append(q, m1)
               p2 == wr + r
    <3>1. d + r <= RingSize /\ wr = wr + 0 /\ 0 + r <= n /\ Len(q) <= Len(q)
      <4> HIDE DEF d, r
      <4>1. d + r <= RingSize /\ 0 + r <= n
        BY <2>3, <1>1
      <4> QED
        BY <4>1, <2>1
    <3>2. m1 \in Msg /\ t \in Seq(Msg) /\ Channel(t, sc, rg, base, from, p2, X, lo, hi) /\ Only(t) /\ Len(q) <= Len(t)
      <4> HIDE DEF d, r
      <4> QED
        BY <3>1, <1>1, <1>2, <1>5, <1>6
    <3>3. p2 \in Nat /\ hi <= p2 /\ n - r \in Nat /\ 0 + (n - r) <= RingSize /\ r + (n - r) <= n /\ Place(base, p2, 0)
          /\ p2 + (n - r) = wr + n
      <4> HIDE DEF d, r
      <4> QED
        BY <2>3, <1>1
    <3>4. /\ m2 \in Msg /\ Append(t, m2) \in Seq(Msg) /\ Channel(Append(t, m2), sc, rg, base, from, p2 + (n - r), X, lo, hi)
          /\ Only(Append(t, m2)) /\ Len(q) <= Len(Append(t, m2))
      <4>1. p2 = wr + r
        OBVIOUS
      <4> HIDE DEF p2, r, t
      <4> QED
        BY <3>2, <3>3, <4>1, <1>1, <1>5
    <3>5. u = Append(t, m2)
      <4>1. u = q \o <<m1, m2>>
        BY <2>3, <1>3
      <4> HIDE DEF m1, m2
      <4>6. m1 \in Msg /\ m2 \in Msg
        BY <3>2, <3>4
      <4>7. <<m1>> \in Seq(Msg) /\ <<m2>> \in Seq(Msg)
        BY <4>6
      <4>8. <<m1, m2>> = Append(<<m1>>, m2)
        OBVIOUS
      <4>9. Append(<<m1>>, m2) = <<m1>> \o <<m2>>
        BY <4>6, <4>7, AppendIsConcat
      <4>2. <<m1, m2>> = <<m1>> \o <<m2>> /\ <<m1>> \in Seq(Msg) /\ <<m2>> \in Seq(Msg)
        BY <4>7, <4>8, <4>9
      <4>3. q \o (<<m1>> \o <<m2>>) = (q \o <<m1>>) \o <<m2>>
        BY <4>2, <1>2, ConcatAssociative, SMTT(30)
      <4>4. Append(q, m1) = q \o <<m1>>
        BY <3>2, <1>2, AppendIsConcat
      <4>5. Append(t, m2) = t \o <<m2>>
        <5> HIDE DEF t
        <5> QED
          BY <3>2, <3>4, AppendIsConcat
      <4> QED
        BY <4>1, <4>2, <4>3, <4>4, <4>5
    <3> HIDE DEF t, m2, u, p2
    <3> QED
      BY <3>3, <3>4, <3>5
  <2> QED
    BY <2>2, <2>3
<1> DEFINE m == Inc(k)
<1>8. m \in Msg /\ m.op = "inc" /\ Count(m) = 0 /\ IncOf(m) = k
  BY DEF Inc, Msg, Count, IncOf
<1> HIDE DEF u
<1>9. Append(u, m) = u \o <<m>>
  BY <1>7, <1>8, AppendIsConcat
<1> HIDE DEF m
<1> DEFINE wr1 == wr + n
<1>10. wr1 \in Nat
  OBVIOUS
<1>11. Channel(Append(u, m), sc, rg, base, from, wr1 + Count(m), X, lo, hi + Units(IncOf(m)))
  <2>1. Channel(u, sc, rg, base, from, wr1, X, lo, hi)
    BY <1>7
  <2> HIDE DEF wr1
  <2> QED
    BY <2>1, <1>8, <1>10, AddMessage
<1>12. wr1 + Count(m) = wr + n /\ Units(IncOf(m)) = Units(k)
  BY <1>8
<1>13. Channel(u \o <<m>>, sc, rg, base, from, wr + n, X, lo, hi + Units(k))
  BY <1>9, <1>11, <1>12
<1>14. Others(Append(u, m), q, h)
  <2>1. \A i \in 1 .. Len(Append(u, m)) : (i \in 1 .. Len(u) /\ Append(u, m)[i] = u[i]) \/ Append(u, m)[i] = m
    BY <1>7, <1>8, AppendElements
  <2> QED
    BY <2>1, <1>7, <1>8 DEF Only, Others
<1>15. Sent(q, h, n, k) = u \o <<m>>
  BY DEF Sent, u, m
<1> QED
  BY <1>4, <1>9, <1>13, <1>14, <1>15

\* The plan with a command of n units, whose header says l, at its end.
Grown(W, end, par, n, l) ==
    [v \in DOMAIN W \cup (end .. end + n - 1) |->
       IF v < end THEN W[v] ELSE [cmd |-> par, idx |-> v - end, len |-> IF v = end THEN l ELSE 0]]

\* X is the plan W, which ends at end, with a command of n units whose header says l, and ends at e.
Longer(W, end, par, X, e, par1, n, l) ==
    /\ Plan(X, e, par1)
    /\ \A v \in DOMAIN W : v \in DOMAIN X /\ X[v] = W[v]
    /\ \A v, c : Begins(W, end, par, v, c) => Begins(X, e, par1, v, c)
    /\ \A v \in DOMAIN X : v \in DOMAIN W \/ ~(v < end)
    /\ \A v \in DOMAIN X : v < end + n
    /\ \A i \in 0 .. n - 1 : /\ end + i \in DOMAIN X
                             /\ X[end + i] = [cmd |-> par, idx |-> i, len |-> IF i = 0 THEN l ELSE 0]
    /\ \A s \in DOMAIN X : X[s].idx = 0 => s \in DOMAIN W \/ X[s].len = l

\* A command enters the plan.
LEMMA NewCommand ==
    ASSUME NEW W, NEW end \in Nat, Aligned(end), NEW par \in 0 .. 1, Plan(W, end, par),
           \A s \in DOMAIN W : W[s].idx = 0 => W[s].len # TerminateLen,
           NEW n \in Nat, n >= 1, NEW l \in Nat, l = n \/ (l = TerminateLen /\ n = 1),
           NEW X, X = Grown(W, end, par, n, l), NEW e \in Nat, e = end + RoundUp(n), NEW par1, par1 = 1 - par
    PROVE  Longer(W, end, par, X, e, par1, n, l)
<1>1. DOMAIN W \subseteq Nat /\ (\A v \in DOMAIN W : W[v] \in Cell /\ v < end)
      /\ \A s \in DOMAIN W : W[s].idx = 0 => CommandAt(W, end, par, s)
  BY DEF Plan
<1>2. DOMAIN X = DOMAIN W \cup (end .. end + n - 1)
  BY DEF Grown
<1>3. \A v \in DOMAIN W : v \in DOMAIN X /\ X[v] = W[v]
  BY <1>1 DEF Grown
<1>4. \A v \in end .. end + n - 1 : X[v] = [cmd |-> par, idx |-> v - end, len |-> IF v = end THEN l ELSE 0]
  BY DEF Grown
<1>5. \A v \in DOMAIN X : v \in DOMAIN W \/ v \in end .. end + n - 1
  BY <1>2
<1>6. RoundUp(n) \in Nat /\ n <= RoundUp(n) /\ e \in Nat
  BY RoundUpIs
<1>18. \A v \in end .. end + n - 1 :
          X[v].cmd = par /\ X[v].idx = v - end /\ X[v].len = (IF v = end THEN l ELSE 0) /\ X[v] \in Cell
  <2> SUFFICES ASSUME NEW v \in end .. end + n - 1
               PROVE  X[v].cmd = par /\ X[v].idx = v - end /\ X[v].len = (IF v = end THEN l ELSE 0) /\ X[v] \in Cell
    OBVIOUS
  <2> DEFINE i == v - end
             k == IF v = end THEN l ELSE 0
  <2>1. i \in Nat /\ k \in Nat
    OBVIOUS
  <2>2. X[v] = [cmd |-> par, idx |-> i, len |-> k]
    BY <1>4
  <2> HIDE DEF i, k
  <2>3. X[v].cmd = par /\ X[v].idx = i /\ X[v].len = k
    BY <2>2
  <2>4. X[v] \in Cell
    BY <2>1, <2>2 DEF Cell
  <2> QED
    BY <2>3, <2>4 DEF i, k
<1>7. \A v \in DOMAIN X : v \in Nat /\ v < end + n /\ (v \in DOMAIN W \/ ~(v < end))
  BY <1>1, <1>5
<1>8. \A v \in DOMAIN X : X[v] \in Cell /\ v < e
  <2> SUFFICES ASSUME NEW v \in DOMAIN X PROVE X[v] \in Cell /\ v < e
    OBVIOUS
  <2>1. v < e
    BY <1>6, <1>7
  <2>2. CASE v \in DOMAIN W
    BY <2>1, <2>2, <1>1, <1>3
  <2>3. CASE v \in end .. end + n - 1
    BY <2>1, <2>3, <1>18
  <2> QED
    BY <2>2, <2>3, <1>5
<1>9. /\ end \in DOMAIN X /\ X[end].idx = 0 /\ X[end].cmd = par /\ X[end].len = l
  <2>1. end \in end .. end + n - 1 /\ end - end = 0
    OBVIOUS
  <2> QED
    BY <2>1, <1>2, <1>18
<1>10. \A v, c : Begins(W, end, par, v, c) => Begins(X, e, par1, v, c)
  BY <1>3, <1>9 DEF Begins
<1>11. \A i \in 0 .. n - 1 : /\ end + i \in DOMAIN X
                             /\ X[end + i] = [cmd |-> par, idx |-> i, len |-> IF i = 0 THEN l ELSE 0]
  <2> SUFFICES ASSUME NEW i \in 0 .. n - 1
               PROVE  /\ end + i \in DOMAIN X
                      /\ X[end + i] = [cmd |-> par, idx |-> i, len |-> IF i = 0 THEN l ELSE 0]
    OBVIOUS
  <2>1. end + i \in end .. end + n - 1 /\ (end + i) - end = i /\ (end + i = end <=> i = 0)
    OBVIOUS
  <2> QED
    BY <2>1, <1>2, <1>4
<1>12. CommandAt(X, e, par1, end)
  <2>1. SizeOf(X[end]) = n
    BY <1>9 DEF SizeOf, TerminateLen
  <2>2. \A i \in 0 .. n - 1 : end + i \in DOMAIN X /\ X[end + i].cmd = X[end].cmd /\ X[end + i].idx = i
    <3> SUFFICES ASSUME NEW i \in 0 .. n - 1
                 PROVE  end + i \in DOMAIN X /\ X[end + i].cmd = X[end].cmd /\ X[end + i].idx = i
      OBVIOUS
    <3> DEFINE v == end + i
    <3>1. v \in end .. end + n - 1 /\ v - end = i
      OBVIOUS
    <3> HIDE DEF v
    <3>2. v \in DOMAIN X /\ X[v].cmd = par /\ X[v].idx = i
      BY <3>1, <1>2, <1>18
    <3> QED
      BY <3>2, <1>9 DEF v
  <2>3. Begins(X, e, par1, end + RoundUp(n), 1 - X[end].cmd)
    BY <1>9 DEF Begins
  <2>4. X[end].len = TerminateLen => end + PageSize = e
    <3> SUFFICES ASSUME X[end].len = TerminateLen PROVE end + PageSize = e
      OBVIOUS
    <3>1. n = 1
      BY <1>9 DEF TerminateLen
    <3>2. Aligned(PageSize) /\ PageSize \in Nat /\ 1 <= PageSize /\ PageSize < 1 + PageSize
      <4>1. PageSize = Units(1) /\ 1 \in Nat /\ PageSize \in Nat /\ PageSize > 1
        BY UnitsOf, Sizes
      <4>2. Aligned(PageSize)
        BY <4>1, AlignedIs
      <4> QED
        BY <4>1, <4>2
    <3>3. RoundUp(1) = PageSize
      BY <3>2, RoundUpUnique
    <3> QED
      BY <3>1, <3>3
  <2> QED
    BY <2>1, <2>2, <2>3, <2>4 DEF CommandAt
<1>13. ASSUME NEW s \in DOMAIN W, W[s].idx = 0 PROVE CommandAt(X, e, par1, s)
  <2>1. CommandAt(W, end, par, s) /\ X[s] = W[s]
    BY <1>1, <1>3, <1>13
  <2>2. \A i \in 0 .. SizeOf(X[s]) - 1 : s + i \in DOMAIN X /\ X[s + i].cmd = X[s].cmd /\ X[s + i].idx = i
    BY <2>1, <1>3 DEF CommandAt
  <2>3. Begins(X, e, par1, s + RoundUp(SizeOf(X[s])), 1 - X[s].cmd)
    BY <2>1, <1>10 DEF CommandAt
  <2>4. X[s].len # TerminateLen
    BY <2>1, <1>13
  <2> QED
    BY <2>1, <2>2, <2>3, <2>4 DEF CommandAt
<1>14. ASSUME NEW s \in DOMAIN X, X[s].idx = 0 PROVE s \in DOMAIN W \/ s = end
  <2>1. s \in end .. end + n - 1 => s - end = 0
    BY <1>14, <1>18
  <2> QED
    BY <2>1, <1>5
<1>15. \A s \in DOMAIN X : X[s].idx = 0 => CommandAt(X, e, par1, s)
  <2> SUFFICES ASSUME NEW s \in DOMAIN X, X[s].idx = 0 PROVE CommandAt(X, e, par1, s)
    OBVIOUS
  <2>1. CASE s \in DOMAIN W
    BY <2>1, <1>3, <1>13
  <2>2. CASE s = end
    BY <2>2, <1>12
  <2> QED
    BY <2>1, <2>2, <1>14
<1>16. Plan(X, e, par1)
  BY <1>7, <1>8, <1>15 DEF Plan
<1>17. \A s \in DOMAIN X : X[s].idx = 0 => s \in DOMAIN W \/ X[s].len = l
  BY <1>9, <1>14
<1> QED
  BY <1>3, <1>7, <1>10, <1>11, <1>16, <1>17 DEF Longer

\* What is acquired fits between the prefetcher and the dispatcher.
LEMMA Room ==
    ASSUME Types, NEW base \in Nat, NEW wr \in Nat, NEW end \in Nat, NEW hi \in Nat, NEW W, Inside(base, wr, end, W, hi),
           NEW k \in Nat, upSem >= k
    PROVE  /\ Units(k) \in Nat /\ Units(upSem - k) \in Nat /\ Units(upSem) = Units(upSem - k) + Units(k)
           /\ hi + Units(job.release) + Units(k) <= base + RingSize + RingSize
           /\ Units(job.release) + Units(k) <= RingSize /\ base <= hi
<1>1. upSem \in Nat /\ fence \in Nat /\ fence <= RingSize /\ ptr \in Nat /\ ptr <= RingSize /\ RingSize \in Nat /\ upSem - k \in Nat
  BY Sizes DEF Types
<1>2. Units(k) \in Nat /\ Units(upSem - k) \in Nat
  BY <1>1, UnitsOf
<1>3. Units(upSem - k) = Units(upSem) - Units(k)
  <2>1. \A x, y \in Nat : Units(x - y) = Units(x) - Units(y)
    BY UnitsOf
  <2> QED
    BY <2>1, <1>1
<1>4. /\ Units(upSem) \in Nat /\ Units(job.release) \in Nat /\ Units(credits) \in Nat /\ HeldUnits \in Nat
      /\ Units(delivered) \in Nat /\ base + fence + Units(delivered) <= hi /\ fence - HeldUnits <= ptr
      /\ hi + Units(job.release) + Units(upSem) + Units(credits) + HeldUnits = base + fence + RingSize
  BY Geometry
<1> QED
  BY <1>1, <1>2, <1>3, <1>4

\* Where the next command begins behind one of n units.
LEMMA WrapRound ==
    ASSUME NEW base \in Nat, NEW p \in Nat, NEW d \in 0 .. RingSize, Place(base, p, d), Aligned(p), Aligned(base),
           NEW n \in Nat, n >= 1, p + RoundUp(n) <= base + RingSize + RingSize, RoundUp(n) <= RingSize
    PROVE  /\ n > RingSize - d =>
                RoundUp(n - (RingSize - d)) \in 0 .. RingSize /\ Place(base, p + RoundUp(n), RoundUp(n - (RingSize - d)))
           /\ ~(n > RingSize - d) =>
                RoundUp(d + n) \in 0 .. RingSize /\ Place(base, p + RoundUp(n), RoundUp(d + n))
<1> DEFINE r == RingSize - d
<1>1. RingSize \in Nat /\ Aligned(RingSize) /\ d \in Nat /\ r \in Nat /\ d <= RingSize /\ r <= RingSize /\ d + r = RingSize
  BY Sizes
<1>2. \A x, y \in Nat : Aligned(x) /\ Aligned(y) => Aligned(x + y) /\ (x <= y => Aligned(y - x))
  BY AlignedSum
<1>3. Aligned(d)
  <2>1. CASE p - base = d
    BY <2>1, <1>1, <1>2
  <2>2. CASE p - base = d + RingSize
    <3>1. base + RingSize \in Nat /\ Aligned(base + RingSize) /\ base + RingSize <= p /\ p - (base + RingSize) = d
      BY <2>2, <1>1, <1>2
    <3> QED
      BY <3>1, <1>2
  <2>3. CASE p - base = d - RingSize
    <3>1. p + RingSize \in Nat /\ Aligned(p + RingSize) /\ base <= p + RingSize /\ (p + RingSize) - base = d
      BY <2>3, <1>1, <1>2
    <3> QED
      BY <3>1, <1>2
  <2> QED
    BY <2>1, <2>2, <2>3 DEF Place
<1>4. Aligned(r)
  BY <1>1, <1>2, <1>3
<1>5. RoundUp(n) \in Nat /\ RoundUp(n) >= n
  BY RoundUpIs
<1>6. \A x, y \in Nat : Aligned(y) => RoundUp(y + x) = y + RoundUp(x)
  BY RoundUpFacts
<1>7. ASSUME n > r PROVE RoundUp(n - r) \in 0 .. RingSize /\ Place(base, p + RoundUp(n), RoundUp(n - r))
  <2> DEFINE x == n - r
  <2>1. x \in Nat /\ x >= 1 /\ n = r + x
    BY <1>1, <1>7
  <2> HIDE DEF x, r
  <2>2. RoundUp(n) = r + RoundUp(x) /\ RoundUp(x) \in Nat
    BY <2>1, <1>1, <1>4, <1>6, RoundUpIs
  <2>3. Place(base, p + r, 0)
    <3>1. p + n <= base + RingSize + RingSize
      BY <1>1, <1>5
    <3> QED
      BY <3>1, <1>7, Wraps DEF r
  <2>4. RoundUp(x) \in 0 .. RingSize
    BY <2>2, <1>1
  <2> DEFINE y == RoundUp(x)
  <2>5. Place(base, (p + r) + y, 0 + y)
    <3>1. p + r \in Nat /\ y \in Nat /\ 0 \in Nat
      BY <1>1, <2>2
    <3> HIDE DEF y
    <3> QED
      BY <3>1, <2>3, PlaceMoves
  <2>6. (p + r) + y = p + RoundUp(n) /\ 0 + y = y
    BY <1>1, <2>2
  <2>7. Place(base, p + RoundUp(n), y)
    BY <2>5, <2>6
  <2> QED
    BY <2>4, <2>7 DEF x
<1>8. ASSUME ~(n > r) PROVE RoundUp(d + n) \in 0 .. RingSize /\ Place(base, p + RoundUp(n), RoundUp(d + n))
  <2> DEFINE y == RoundUp(n)
  <2>1. RoundUp(d + n) = d + y
    BY <1>1, <1>3, <1>6
  <2>2. d + n \in Nat /\ d + n <= RingSize
    BY <1>1, <1>8
  <2>3. RoundUp(d + n) <= RingSize
    <3> DEFINE z == d + n
    <3>1. z \in Nat /\ z <= RingSize
      BY <2>2
    <3> HIDE DEF z
    <3>2. RoundUp(z) <= RingSize
      BY <3>1, <1>1, RoundUpFacts
    <3> QED
      BY <3>2 DEF z
  <2>4. Place(base, p + y, d + y)
    <3>1. y \in Nat
      BY <1>5
    <3> HIDE DEF y
    <3> QED
      BY <3>1, <1>1, PlaceMoves
  <2> QED
    BY <2>1, <2>3, <2>4, <1>1, <1>5
<1> QED
  BY <1>7, <1>8

\* An inline command is written.
LEMMA RelayInlinePreserves ==
    ASSUME IInv, NEW terminate \in BOOLEAN, RelayInline(terminate), UNCHANGED lengths
    PROVE  IInv'
<1>1. Types /\ HalvesApart /\ Unsent
  BY DEF IInv
<1>inside. PICK base \in Nat, wr \in Nat, end \in Nat, hi \in Nat : \E W : Inside(base, wr, end, W, hi)
  BY DEF IInv
<1>2. PICK W : Inside(base, wr, end, W, hi)
  BY <1>inside
<1>4. Prefetcher(base, wr, end, W, hi)
  BY <1>2 DEF Inside
<1>26. PICK n \in Nat : n = job.len
  BY <1>1 DEF Types
<1>27. n >= 1 /\ (terminate => n = 1)
  BY <1>4, <1>26 DEF Prefetcher, RelayInline
<1> DEFINE l == IF terminate THEN TerminateLen ELSE n
           k == PagesOf(n)
           us == [i \in 1 .. n |-> Unit(i - 1, l)]
<1>3. /\ ppc \in {"inline", "inlineLast"} /\ upSem >= k /\ upSem' = upSem - k /\ write_downstream(us)
      /\ job' = [NoJob EXCEPT !.release = k] /\ ppc' = IF terminate THEN "flushLast" ELSE "flush"
      /\ UNCHANGED <<pcmd, scratch, reading, toggle, delivered, credits, ring>>
      /\ UNCHANGED <<dpc, seen, fence, ptr, block, got, dcmd, len, left, part, prev, since, unsent>>
  BY <1>26 DEF RelayInline, dispatchVars, acquire
<1>5. /\ wr = end /\ hi = end /\ job.release = 0 /\ reading = None /\ Place(base, wr, wrPtr) /\ Aligned(end)
      /\ \A s \in DOMAIN W : W[s].idx = 0 => W[s].len # TerminateLen
  BY <1>3, <1>4 DEF Prefetcher, Between, Last
<1>6. pcmd \in 0 .. 1 /\ NextParity = pcmd /\ l \in Nat /\ (l = n \/ (l = TerminateLen /\ n = 1))
  BY <1>1, <1>3, <1>27 DEF Types, NextParity, Between, TerminateLen
<1>24. k \in Nat /\ RoundUp(n) = Units(k) /\ RoundUp(n) \in Nat /\ n <= RoundUp(n)
  BY <1>27, RoundUpIs
<1>25. PICK e \in Nat : e = end + RoundUp(n)
  BY <1>24
<1>7. k \in Nat /\ RoundUp(n) = Units(k) /\ RoundUp(n) \in Nat /\ n <= RoundUp(n) /\ e \in Nat /\ e = end + RoundUp(n)
  BY <1>24, <1>25
<1>22. PICK X : X = Grown(W, end, pcmd, n, l)
  OBVIOUS
<1>23. PICK par : par = 1 - pcmd
  OBVIOUS
<1>8. /\ Plan(X, e, par)
      /\ \A v \in DOMAIN W : v \in DOMAIN X /\ X[v] = W[v]
      /\ \A v, c : Begins(W, end, pcmd, v, c) => Begins(X, e, par, v, c)
      /\ \A v \in DOMAIN X : v \in DOMAIN W \/ ~(v < end)
      /\ \A v \in DOMAIN X : v < end + n
      /\ \A i \in 0 .. n - 1 : /\ end + i \in DOMAIN X
                               /\ X[end + i] = [cmd |-> pcmd, idx |-> i, len |-> IF i = 0 THEN l ELSE 0]
      /\ \A s \in DOMAIN X : X[s].idx = 0 => s \in DOMAIN W \/ X[s].len = l
  <2>1. Plan(W, end, pcmd)
    BY <1>2, <1>6 DEF Inside
  <2> HIDE DEF l
  <2>2. Longer(W, end, pcmd, X, e, par, n, l)
    BY <2>1, <1>5, <1>6, <1>7, <1>22, <1>23, <1>27, NewCommand
  <2> QED
    BY <2>2 DEF Longer
<1>9. /\ Units(k) \in Nat /\ Units(upSem - k) \in Nat /\ Units(upSem) = Units(upSem - k) + Units(k)
      /\ end + Units(k) <= base + RingSize + RingSize /\ Units(k) <= RingSize /\ base <= hi
  <2>1. Units(job.release) = 0
    BY <1>5, UnitsOf DEF NoJob
  <2> HIDE DEF k
  <2>2. /\ Units(k) \in Nat /\ Units(upSem - k) \in Nat /\ Units(upSem) = Units(upSem - k) + Units(k)
        /\ hi + Units(job.release) + Units(k) <= base + RingSize + RingSize
        /\ Units(job.release) + Units(k) <= RingSize /\ base <= hi
    BY <1>1, <1>2, <1>3, <1>7, Room
  <2> QED
    BY <2>1, <2>2, <1>5
<1>10. us \in Seq(Cell) /\ Len(us) = n /\ \A i \in 1 .. n : us[i] = [cmd |-> pcmd, idx |-> i - 1, len |-> IF i - 1 = 0 THEN l ELSE 0]
  <2>1. \A i \in 1 .. n : Unit(i - 1, l) = [cmd |-> pcmd, idx |-> i - 1, len |-> IF i - 1 = 0 THEN l ELSE 0]
    BY DEF Unit
  <2>2. \A i \in 1 .. n : Unit(i - 1, l) \in Cell
    <3> SUFFICES ASSUME NEW i \in 1 .. n PROVE Unit(i - 1, l) \in Cell
      OBVIOUS
    <3> DEFINE j == i - 1
               h == IF j = 0 THEN l ELSE 0
    <3>1. j \in Nat /\ h \in Nat
      BY <1>6
    <3>2. Unit(j, l) = [cmd |-> pcmd, idx |-> j, len |-> h]
      BY DEF Unit
    <3> HIDE DEF h, j
    <3>3. Unit(j, l) \in Cell
      BY <3>1, <3>2, <1>6 DEF Cell
    <3> QED
      BY <3>3 DEF j
  <2> HIDE DEF l
  <2> QED
    BY <2>1, <2>2
<1>11. wrPtr \in 0 .. RingSize /\ RingSize \in Nat /\ ptr \in Nat /\ base + ptr \in Nat
  BY <1>1, Sizes DEF Types
<1> DEFINE r == RingSize - wrPtr
<1>12. /\ n > r => /\ outbox' = outbox \o (IF r > 0 THEN <<WriteUnits(wrPtr, SubSeq(us, 1, r))>> ELSE <<>>)
                                       \o <<WriteUnits(0, SubSeq(us, r + 1, Len(us)))>>
                   /\ wrPtr' = RoundUp(n - r)
       /\ ~(n > r) => outbox' = Append(outbox, WriteUnits(wrPtr, us)) /\ wrPtr' = RoundUp(wrPtr + n)
  <2>1. Len(us) = n
    BY <1>10
  <2> HIDE DEF us
  <2> QED
    BY <2>1, <1>3 DEF write_downstream
<1>13. wrPtr' \in 0 .. RingSize /\ Place(base, e, wrPtr')
  <2>1. Aligned(base)
    BY <1>2 DEF Inside, Space
  <2>2. end + RoundUp(n) <= base + RingSize + RingSize /\ RoundUp(n) <= RingSize /\ Place(base, end, wrPtr)
    BY <1>5, <1>7, <1>9
  <2>3. /\ n > RingSize - wrPtr =>
             RoundUp(n - (RingSize - wrPtr)) \in 0 .. RingSize /\ Place(base, end + RoundUp(n), RoundUp(n - (RingSize - wrPtr)))
        /\ ~(n > RingSize - wrPtr) =>
             RoundUp(wrPtr + n) \in 0 .. RingSize /\ Place(base, end + RoundUp(n), RoundUp(wrPtr + n))
    BY <2>1, <2>2, <1>5, <1>11, <1>27, WrapRound
  <2> QED
    BY <2>3, <1>7, <1>12
<1>14. Channel(outbox', scratch', ring, base, base + ptr, e, X, base + fence + Units(delivered), hi)
  <2> DEFINE from == base + ptr
             lo == base + fence + Units(delivered)
  <2>1. Channel(outbox, scratch, ring, base, from, wr, W, lo, hi) /\ from \in Nat
    BY <1>2, <1>11 DEF Inside
  <2>2. DOMAIN X \subseteq Nat
    BY <1>8 DEF Plan
  <2>3. \A j \in 0 .. Len(us) - 1 : wr + j \in DOMAIN X /\ X[wr + j] = us[j + 1]
    <3> SUFFICES ASSUME NEW j \in 0 .. n - 1 PROVE end + j \in DOMAIN X /\ X[end + j] = us[j + 1]
      BY <1>5, <1>10
    <3>1. j + 1 \in 1 .. n /\ (j + 1) - 1 = j
      OBVIOUS
    <3>2. us[j + 1] = [cmd |-> pcmd, idx |-> j, len |-> IF j = 0 THEN l ELSE 0]
      <4> HIDE DEF us, l
      <4> QED
        BY <3>1, <1>10
    <3> HIDE DEF us, l
    <3> QED
      BY <3>2, <1>8
  <2>4. Len(us) >= 1 /\ Len(us) <= RingSize /\ wr + Len(us) <= base + RingSize + RingSize /\ hi <= wr
    <3>1. Len(us) = n
      BY <1>10
    <3>2. n <= Units(k) /\ Units(k) \in Nat /\ end + Units(k) <= base + RingSize + RingSize /\ Units(k) <= RingSize
      BY <1>7, <1>9
    <3> HIDE DEF us, k
    <3>3. n <= RingSize /\ end + n <= base + RingSize + RingSize
      BY <3>2, <1>11
    <3> QED
      BY <3>1, <3>3, <1>5, <1>27
  <2> HIDE DEF from, lo, us
  <2>5. Channel(outbox, scratch, ring, base, from, wr, X, lo, hi)
    BY <2>1, <1>5, <1>8, ExtendPlan
  <2>6. us \in Seq(Cell) /\ Len(us) = n
    BY <1>10
  <2>7. /\ Len(us) <= RingSize - wrPtr =>
                Channel(Append(outbox, WriteUnits(wrPtr, us)), scratch, ring, base, from, wr + Len(us), X, lo, hi)
        /\ Len(us) > RingSize - wrPtr =>
                Channel(outbox \o (IF RingSize - wrPtr > 0 THEN <<WriteUnits(wrPtr, SubSeq(us, 1, RingSize - wrPtr))>> ELSE <<>>)
                          \o <<WriteUnits(0, SubSeq(us, RingSize - wrPtr + 1, Len(us)))>>,
                        scratch, ring, base, from, wr + Len(us), X, lo, hi)
    BY <2>1, <2>2, <2>3, <2>4, <2>5, <2>6, <1>5, <1>11, SendUnits
  <2>8. Channel(outbox', scratch, ring, base, from, wr + n, X, lo, hi)
    <3>1. CASE n > r
      BY <3>1, <2>6, <2>7, <1>12
    <3>2. CASE ~(n > r)
      <4>1. Len(us) <= RingSize - wrPtr
        BY <3>2, <2>6, <1>11
      <4> QED
        BY <4>1, <3>2, <2>6, <2>7, <1>12
    <3> QED
      BY <3>1, <3>2
  <2>9. Channel(outbox', scratch, ring, base, from, e, X, lo, hi)
    <3> DEFINE w1 == wr + n
    <3>1. w1 \in Nat /\ w1 <= e /\ \A v \in DOMAIN X : v < w1 \/ e <= v
      BY <1>5, <1>7, <1>8
    <3>2. Channel(outbox', scratch, ring, base, from, w1, X, lo, hi)
      BY <2>8
    <3>3. e \in Nat
      BY <1>7
    <3> HIDE DEF w1
    <3> QED
      BY <3>1, <3>2, <3>3, <2>1, <2>2, SkipPadding
  <2> QED
    BY <2>9, <1>3 DEF from, lo
<1>15. /\ job' \in [len : Nat, idx : Nat, inScratch : Nat, release : Nat] /\ job'.release = k
  <2> HIDE DEF k
  <2> QED
    BY <1>3, <1>7 DEF NoJob
<1>16. Types'
  <2>1. upSem' \in Nat
    <3>1. upSem \in Nat
      BY <1>1 DEF Types
    <3>2. upSem >= k /\ upSem' = upSem - k
      BY <1>3
    <3> HIDE DEF k
    <3> QED
      BY <3>1, <3>2, <1>7
  <2>2. ppc' \in {"flush", "flushLast"}
    BY <1>3
  <2> HIDE DEF k, us
  <2> QED
    BY <2>1, <2>2, <1>1, <1>3, <1>13, <1>15 DEF Types
<1>17. HalvesApart'
  BY <1>3, <1>5 DEF HalvesApart
<1>18. NextParity' = par
  BY <1>3, <1>23 DEF NextParity, Between
<1>19. Prefetcher(base, e, e, X, hi)'
  <2>1. hi <= e /\ hi + Units(k) = e /\ Aligned(e)
    <3>1. Aligned(RoundUp(n))
      BY RoundUpIs
    <3>2. \A x, y \in Nat : Aligned(x) /\ Aligned(y) => Aligned(x + y)
      BY AlignedSum
    <3> QED
      BY <3>1, <3>2, <1>5, <1>7
  <2>2. ppc' \notin Last => \A s \in DOMAIN X : X[s].idx = 0 => X[s].len # TerminateLen
    <3> SUFFICES ASSUME ppc' \notin Last, NEW s \in DOMAIN X, X[s].idx = 0 PROVE X[s].len # TerminateLen
      OBVIOUS
    <3>1. l = n
      BY <1>3 DEF Last
    <3> HIDE DEF l
    <3> QED
      BY <3>1, <1>5, <1>8 DEF TerminateLen
  <2>3. ppc' \in {"flush", "flushLast"}
    BY <1>3
  <2>4. (hi + Units(job.release) = e)'
    BY <2>1, <1>15 DEF Units
  <2>5. Place(base, e, wrPtr)'
    BY <1>13 DEF Place
  <2>7. ppc' \notin Between /\ ppc' \notin Relaying
    BY <2>3 DEF Between, Relaying
  <2>8. Aligned(e)'
    BY <2>1 DEF Aligned
  <2>6. reading' = None
    BY <1>3, <1>5
  <2> HIDE DEF k
  <2> QED
    BY <2>1, <2>2, <2>3, <2>4, <2>5, <2>6, <2>7, <2>8 DEF Prefetcher
<1>20. hi + Units(job'.release) + Units(upSem') = hi + Units(job.release) + Units(upSem)
  <2>1. Units(job.release) = 0
    BY <1>5, UnitsOf DEF NoJob
  <2> HIDE DEF k
  <2> QED
    BY <2>1, <1>3, <1>9, <1>15
<1>21. ppc \notin Last
  BY <1>3 DEF Last
<1> HIDE DEF k, l, us
<1> QED
  BY <1>1, <1>2, <1>3, <1>6, <1>7, <1>8, <1>14, <1>16, <1>17, <1>18, <1>19, <1>20, <1>21, PrefetcherMoves, SMTT(30)

\* The header of a relayed command is written.
LEMMA RelayInlineNoflushPreserves ==
    ASSUME IInv, RelayInlineNoflush, UNCHANGED lengths
    PROVE  IInv'
<1>1. Types /\ HalvesApart /\ Unsent
  BY DEF IInv
<1>inside. PICK base \in Nat, wr \in Nat, end \in Nat, hi \in Nat : \E W : Inside(base, wr, end, W, hi)
  BY DEF IInv
<1>2. PICK W : Inside(base, wr, end, W, hi)
  BY <1>inside
<1>28. PICK n \in Nat : n = job.len
  BY <1>1 DEF Types
<1> DEFINE d == IF wrPtr = RingSize THEN 0 ELSE wrPtr
           us == <<Unit(0, n)>>
<1>3. /\ ppc = "header" /\ ppc' = "relay" /\ upSem >= 1 /\ upSem' = upSem - 1
      /\ outbox' = Append(outbox, WriteUnits(d, us)) /\ wrPtr' = d + 1
      /\ job' = [job EXCEPT !.idx = 1, !.release = 1]
      /\ UNCHANGED <<pcmd, scratch, reading, toggle, delivered, credits, ring>>
      /\ UNCHANGED <<dpc, seen, fence, ptr, block, got, dcmd, len, left, part, prev, since, unsent>>
  BY <1>28 DEF RelayInlineNoflush, dispatchVars, acquire
<1>4. Prefetcher(base, wr, end, W, hi)
  BY <1>2 DEF Inside
<1>5. /\ wr = end /\ hi = end /\ job.release = 0 /\ job.inScratch = 0 /\ n > 1 /\ reading = None /\ Place(base, wr, wrPtr) /\ Aligned(end)
      /\ \A s \in DOMAIN W : W[s].idx = 0 => W[s].len # TerminateLen
  BY <1>3, <1>4, <1>28 DEF Prefetcher, Between, Last
<1>6. pcmd \in 0 .. 1 /\ NextParity = pcmd /\ n \in Nat /\ n > 1
  BY <1>1, <1>3, <1>5 DEF Types, NextParity, Between
<1>7. RoundUp(n) \in Nat /\ n <= RoundUp(n) /\ Aligned(RoundUp(n))
  BY <1>6, RoundUpIs
<1>8. PICK e \in Nat : e = end + RoundUp(n)
  BY <1>7
<1>9. PICK X : X = Grown(W, end, pcmd, n, n)
  OBVIOUS
<1>10. PICK par : par = 1 - pcmd
  OBVIOUS
<1>11. /\ Plan(X, e, par)
       /\ \A v \in DOMAIN W : v \in DOMAIN X /\ X[v] = W[v]
       /\ \A v, c : Begins(W, end, pcmd, v, c) => Begins(X, e, par, v, c)
       /\ \A v \in DOMAIN X : v \in DOMAIN W \/ ~(v < end)
       /\ \A v \in DOMAIN X : v < end + n
       /\ \A i \in 0 .. n - 1 : /\ end + i \in DOMAIN X
                                /\ X[end + i] = [cmd |-> pcmd, idx |-> i, len |-> IF i = 0 THEN n ELSE 0]
       /\ \A s \in DOMAIN X : X[s].idx = 0 => s \in DOMAIN W \/ X[s].len = n
  <2>1. Plan(W, end, pcmd) /\ n >= 1
    BY <1>2, <1>6 DEF Inside
  <2>2. Longer(W, end, pcmd, X, e, par, n, n)
    BY <2>1, <1>5, <1>6, <1>8, <1>9, <1>10, NewCommand
  <2> QED
    BY <2>2 DEF Longer
<1>12. /\ PageSize \in Nat /\ PageSize > 1 /\ Units(upSem - 1) \in Nat /\ Units(upSem) = Units(upSem - 1) + PageSize
       /\ end + PageSize <= base + RingSize + RingSize /\ PageSize <= RingSize
  <2>1. Units(job.release) = 0 /\ Units(1) = PageSize /\ PageSize \in Nat /\ PageSize > 1
    BY <1>5, UnitsOf, Sizes DEF NoJob
  <2>2. /\ Units(1) \in Nat /\ Units(upSem - 1) \in Nat /\ Units(upSem) = Units(upSem - 1) + Units(1)
        /\ hi + Units(job.release) + Units(1) <= base + RingSize + RingSize
        /\ Units(job.release) + Units(1) <= RingSize /\ base <= hi
    BY <1>1, <1>2, <1>3, Room
  <2> QED
    BY <2>1, <2>2, <1>5
<1>13. wrPtr \in 0 .. RingSize /\ RingSize \in Nat /\ ptr \in Nat /\ base + ptr \in Nat
  BY <1>1, Sizes DEF Types
<1>14. d \in 0 .. RingSize - 1 /\ d \in 0 .. RingSize /\ Place(base, wr, d)
  <2>1. wr + 1 <= base + RingSize + RingSize
    BY <1>5, <1>12, <1>13
  <2>2. wrPtr = RingSize => Place(base, wr, 0)
    BY <2>1, <1>5, <1>13, Wraps
  <2> QED
    BY <2>2, <1>5, <1>12, <1>13
<1> HIDE DEF d
<1>15. wrPtr' \in 0 .. RingSize /\ Place(base, wr + 1, wrPtr')
  <2>1. d \in Nat /\ 1 \in Nat
    BY <1>13, <1>14
  <2>2. Place(base, wr + 1, d + 1)
    BY <2>1, <1>14, PlaceMoves
  <2>3. wrPtr' = d + 1
    BY <1>3
  <2>4. d + 1 \in 0 .. RingSize
    BY <1>13, <1>14
  <2> QED
    BY <2>2, <2>3, <2>4
<1>16. us \in Seq(Cell) /\ Len(us) = 1 /\ us[1] = [cmd |-> pcmd, idx |-> 0, len |-> n]
  <2>1. Unit(0, n) = [cmd |-> pcmd, idx |-> 0, len |-> n]
    BY DEF Unit
  <2>2. Unit(0, n) \in Cell
    BY <2>1, <1>6 DEF Cell
  <2> QED
    BY <2>1, <2>2
<1>17. Channel(outbox', scratch', ring, base, base + ptr, wr + 1, X, base + fence + Units(delivered), hi)
  <2> DEFINE from == base + ptr
             lo == base + fence + Units(delivered)
  <2>1. Channel(outbox, scratch, ring, base, from, wr, W, lo, hi) /\ from \in Nat
    BY <1>2, <1>13 DEF Inside
  <2>2. DOMAIN X \subseteq Nat
    BY <1>11 DEF Plan
  <2>3. \A j \in 0 .. Len(us) - 1 : wr + j \in DOMAIN X /\ X[wr + j] = us[j + 1]
    <3>1. 0 \in 0 .. n - 1 /\ end + 0 = end
      BY <1>6
    <3>2. end + 0 \in DOMAIN X /\ X[end + 0] = [cmd |-> pcmd, idx |-> 0, len |-> n]
      BY <3>1, <1>11
    <3>3. wr + 0 \in DOMAIN X /\ X[wr + 0] = us[0 + 1]
      BY <3>2, <1>5, <1>16
    <3>4. \A j \in 0 .. Len(us) - 1 : j = 0
      BY <1>16
    <3> QED
      BY <3>3, <3>4
  <2>4. Len(us) >= 1 /\ Len(us) <= RingSize /\ wr + Len(us) <= base + RingSize + RingSize /\ hi <= wr
        /\ Len(us) <= RingSize - d
    BY <1>5, <1>12, <1>13, <1>14, <1>16
  <2> HIDE DEF from, lo, us
  <2>5. Channel(outbox, scratch, ring, base, from, wr, X, lo, hi)
    BY <2>1, <1>5, <1>11, ExtendPlan
  <2>6. us \in Seq(Cell) /\ Len(us) = 1
    BY <1>16
  <2>7. Channel(Append(outbox, WriteUnits(d, us)), scratch, ring, base, from, wr + Len(us), X, lo, hi)
    BY <2>1, <2>2, <2>3, <2>4, <2>5, <2>6, <1>14, SendUnits
  <2> QED
    BY <2>6, <2>7, <1>3 DEF from, lo
<1>18. /\ job' \in [len : Nat, idx : Nat, inScratch : Nat, release : Nat]
       /\ job'.release = 1 /\ job'.idx = 1 /\ job'.len = n /\ job'.inScratch = 0
  BY <1>1, <1>3, <1>5, <1>28 DEF Types
<1>19. Types'
  <2>1. upSem' \in Nat
    <3>1. upSem \in Nat
      BY <1>1 DEF Types
    <3> HIDE DEF us
    <3> QED
      BY <3>1, <1>3
  <2> HIDE DEF us
  <2> QED
    BY <2>1, <1>1, <1>3, <1>15, <1>18 DEF Types
<1>20. HalvesApart'
  BY <1>3, <1>5 DEF HalvesApart
<1>21. NextParity' = par
  BY <1>3, <1>10 DEF NextParity, Between
<1>22. PICK wr1 \in Nat : wr1 = wr + 1
  OBVIOUS
<1>23. RelayInPlan(wr1, e, X, hi)'
  <2>1. wr1 - 1 = end /\ 1 <= wr1 /\ wr1 < hi + PageSize
    BY <1>5, <1>12, <1>22
  <2>2. \A i : Unit(i, n)' = [cmd |-> pcmd, idx |-> i, len |-> IF i = 0 THEN n ELSE 0]
    BY <1>3 DEF Unit
  <2>3. \A i \in 0 .. n - 1 : (wr1 - 1) + i \in DOMAIN X /\ X[(wr1 - 1) + i] = Unit(i, n)'
    BY <2>1, <2>2, <1>11
  <2>4. \A v \in DOMAIN X : v < (wr1 - 1) + n
    BY <2>1, <1>11
  <2>5. reading' = None
    BY <1>3, <1>5
  <2>6. Aligned(wr1 - 1) /\ Aligned(hi) /\ e = (wr1 - 1) + RoundUp(n)
    BY <2>1, <1>5, <1>8
  <2> QED
    BY <2>1, <2>3, <2>4, <2>5, <2>6, <1>3, <1>6, <1>18 DEF RelayInPlan, Aligned, RoundUp, PagesOf, Unit
<1>24. Prefetcher(base, wr1, e, X, hi)'
  <2>1. hi <= wr1 /\ wr1 <= e
    BY <1>5, <1>6, <1>7, <1>8, <1>22
  <2>2. \A s \in DOMAIN X : X[s].idx = 0 => X[s].len # TerminateLen
    BY <1>5, <1>6, <1>11 DEF TerminateLen
  <2>3. ppc' \notin Between /\ ppc' \notin {"flush", "flushLast", "inline", "inlineLast", "header"}
    BY <1>3 DEF Between
  <2>4. Aligned(e)'
    <3>1. \A x, y \in Nat : Aligned(x) /\ Aligned(y) => Aligned(x + y)
      BY AlignedSum
    <3>2. Aligned(e)
      BY <3>1, <1>5, <1>7, <1>8
    <3> QED
      BY <3>2 DEF Aligned
  <2>5. Place(base, wr1, wrPtr)'
    BY <1>15, <1>22 DEF Place
  <2> QED
    BY <2>1, <2>2, <2>3, <2>4, <2>5, <1>23 DEF Prefetcher
<1>25. hi + Units(job'.release) + Units(upSem') = hi + Units(job.release) + Units(upSem)
  <2>1. Units(job.release) = 0 /\ Units(job'.release) = PageSize
    BY <1>5, <1>18, UnitsOf DEF NoJob
  <2> QED
    BY <2>1, <1>3, <1>12
<1>26. ppc \notin Last
  BY <1>3 DEF Last
<1>27. Channel(outbox', scratch', ring, base, base + ptr, wr1, X, base + fence + Units(delivered), hi)
  BY <1>17, <1>22
<1> HIDE DEF us
<1> QED
  BY <1>1, <1>2, <1>3, <1>6, <1>11, <1>19, <1>20, <1>21, <1>24, <1>25, <1>26, <1>27, PrefetcherMoves, SMTT(30)

\* The offset in a page.
LEMMA OffsetIs ==
    ASSUME NEW base \in Nat, NEW p \in Nat, NEW hi \in Nat, NEW d \in 0 .. RingSize, Place(base, p, d), Aligned(base),
           Aligned(hi), hi <= p, p < hi + PageSize
    PROVE  d % PageSize = p - hi
<1>1. PageSize \in Nat /\ PageSize > 1 /\ RingSize \in Nat /\ Aligned(RingSize) /\ d \in Nat
  BY Sizes
<1> DEFINE o == p - hi
<1>2. o \in Nat /\ o < PageSize
  BY <1>1
<1>3. \A x, y \in Nat : Aligned(x) /\ Aligned(y) => Aligned(x + y)
  BY AlignedSum
<1>4. \E x, y \in Nat : Aligned(x) /\ Aligned(y) /\ d + x = y + o
  <2>1. CASE p - base = d
    BY <2>1, <1>1
  <2>2. CASE p - base = d + RingSize
    <3>1. base + RingSize \in Nat /\ Aligned(base + RingSize) /\ d + (base + RingSize) = hi + o
      BY <2>2, <1>1, <1>3
    <3> QED
      BY <3>1
  <2>3. CASE p - base = d - RingSize
    <3>1. hi + RingSize \in Nat /\ Aligned(hi + RingSize) /\ d + base = (hi + RingSize) + o
      BY <2>3, <1>1, <1>3
    <3> QED
      BY <3>1
  <2> QED
    BY <2>1, <2>2, <2>3 DEF Place
<1> HIDE DEF o
<1>5. PICK x \in Nat, y \in Nat : Aligned(x) /\ Aligned(y) /\ d + x = y + o
  BY <1>4
<1>6. x <= y
  <2>1. y < x => y + PageSize <= x
    BY <1>5, AlignedSum
  <2> QED
    BY <2>1, <1>1, <1>2, <1>5
<1>7. Aligned(y - x) /\ y - x \in Nat /\ d = (y - x) + o
  <2>1. Aligned(y - x)
    BY <1>5, <1>6, AlignedSum
  <2> QED
    BY <2>1, <1>1, <1>2, <1>5, <1>6
<1>8. PICK k \in Nat : y - x = Units(k)
  BY <1>7, AlignedIs
<1>9. d = k * PageSize + o
  BY <1>7, <1>8 DEF Units
<1>10. d = PageSize * (d \div PageSize) + (d % PageSize) /\ d \div PageSize \in Nat /\ d % PageSize \in 0 .. PageSize - 1
  BY <1>1, Quotient
<1> DEFINE q == d \div PageSize
           r == d % PageSize
<1>11. Units(q) + r = Units(k) + o /\ q \in Nat /\ r \in Nat /\ r < PageSize
  <2>1. Units(q) = PageSize * q /\ Units(k) = k * PageSize
    BY <1>1, <1>10 DEF Units
  <2>2. d = PageSize * q + r /\ q \in Nat /\ r \in 0 .. PageSize - 1
    BY <1>10
  <2> HIDE DEF q, r
  <2>3. d = Units(q) + r /\ d = Units(k) + o
    BY <2>1, <2>2, <1>9
  <2> QED
    BY <2>2, <2>3, <1>1
<1> HIDE DEF q, r
<1>12. Units(q) \in Nat /\ Units(k) \in Nat /\ (q < k => Units(q) + PageSize <= Units(k)) /\ (k < q => Units(k) + PageSize <= Units(q))
  <2>1. \A a, b \in Nat : a < b => Units(a) + PageSize <= Units(b)
    BY UnitsOf
  <2>2. \A a \in Nat : Units(a) \in Nat
    BY UnitsOf
  <2> QED
    BY <2>1, <2>2, <1>11
<1>13. q = k
  BY <1>1, <1>2, <1>11, <1>12
<1> QED
  BY <1>2, <1>11, <1>12, <1>13 DEF r, o

\* An address and its position round up to the next page together.
LEMMA RoundPlace ==
    ASSUME NEW base \in Nat, NEW p \in Nat, NEW d \in 0 .. RingSize, Place(base, p, d), Aligned(base)
    PROVE  Place(base, RoundUp(p), RoundUp(d)) /\ RoundUp(d) \in 0 .. RingSize
<1>1. RingSize \in Nat /\ Aligned(RingSize) /\ d \in Nat
  BY Sizes
<1>2. \A x, y \in Nat : Aligned(x) /\ Aligned(y) => Aligned(x + y)
  BY AlignedSum
<1>3. \A x, y \in Nat : Aligned(y) => RoundUp(y + x) = y + RoundUp(x)
  BY RoundUpFacts
<1>4. RoundUp(d) \in Nat /\ RoundUp(p) \in Nat
  BY <1>1, RoundUpIs
<1>5. RoundUp(d) <= RingSize
  BY <1>1, RoundUpFacts
<1>6. CASE p - base = d
  <2>1. RoundUp(base + d) = base + RoundUp(d) /\ p = base + d
    BY <1>1, <1>3, <1>6
  <2> QED
    BY <2>1, <1>1, <1>4, <1>5 DEF Place
<1>7. CASE p - base = d + RingSize
  <2> DEFINE y == base + RingSize
  <2>1. y \in Nat /\ Aligned(y) /\ p = y + d
    BY <1>1, <1>2, <1>7
  <2> HIDE DEF y
  <2>2. RoundUp(p) = y + RoundUp(d)
    BY <2>1, <1>1, <1>3
  <2> QED
    BY <2>2, <1>1, <1>4, <1>5 DEF Place, y
<1>8. CASE p - base = d - RingSize
  <2>1. RingSize + p = base + d
    BY <1>1, <1>8
  <2>2. RoundUp(RingSize + p) = RingSize + RoundUp(p) /\ RoundUp(base + d) = base + RoundUp(d)
    BY <1>1, <1>3
  <2> QED
    BY <2>1, <2>2, <1>1, <1>4, <1>5 DEF Place
<1> QED
  BY <1>6, <1>7, <1>8 DEF Place

\* The half h holds the n units that are written next, and k pages can be acquired for them.
ChunkIs(h, n, k, round) ==
    /\ scratch[h + 1].cmd = pcmd /\ scratch[h + 1].first = job.idx
    /\ n = job.inScratch /\ k = npages(n, round) /\ upSem >= k

\* What the two calls of write_pages_to_dispatcher have in common: n units follow at the position wr, k pages are
\* acquired for them.
LEMMA RelayChunk ==
    ASSUME Types, NEW base \in Nat, NEW wr \in Nat, NEW end \in Nat, NEW hi \in Nat, NEW W, Inside(base, wr, end, W, hi),
           ppc \in {"barrier", "acquire"}, NEW h \in 0 .. 1, NEW round \in 0 .. 1, NEW n, NEW k, ChunkIs(h, n, k, round)
    PROVE  /\ k \in Nat /\ n \in Nat /\ n >= 1
           /\ Units(k) \in Nat /\ Units(k) + hi <= wr + n - round /\ wr + n - round < Units(k) + hi + PageSize
           /\ Units(upSem - k) \in Nat /\ Units(upSem) = Units(upSem - k) + Units(k)
           /\ Place(base, wr + n, PtrBehind(n)) /\ PtrBehind(n) \in 0 .. RingSize
           /\ \A x \in Nat :
                /\ Channel(Sent(outbox, h, n, x), scratch, ring, base, base + ptr, wr + n, W,
                           base + fence + Units(delivered), hi + Units(x))
                /\ Others(Sent(outbox, h, n, x), outbox, h)
<1>18. /\ scratch[h + 1].cmd = pcmd /\ scratch[h + 1].first = job.idx
       /\ n = job.inScratch /\ k = npages(n, round) /\ upSem >= k
  BY DEF ChunkIs
<1>1. Prefetcher(base, wr, end, W, hi)
  BY DEF Inside
<1>2. RelayInPlan(wr, end, W, hi) /\ ppc # "relay" /\ Place(base, wr, wrPtr) /\ hi <= wr
  BY <1>1 DEF Prefetcher, Relaying
<1>3. /\ job.idx \in Nat /\ job.len \in Nat /\ job.inScratch \in Nat /\ n \in Nat /\ wrPtr \in 0 .. RingSize /\ upSem \in Nat
      /\ RingSize \in Nat /\ PageSize \in Nat /\ PageSize > 1 /\ ptr \in Nat /\ base + ptr \in Nat /\ pcmd \in 0 .. 1
  BY <1>18, Sizes DEF Types
<1>4. /\ n >= 1 /\ job.idx >= 1 /\ job.idx + n <= job.len /\ job.idx <= wr /\ job.release = 1
      /\ Aligned(hi) /\ wr < hi + PageSize
  BY <1>2, <1>18 DEF RelayInPlan
<1> DEFINE o == wr - hi
           y == n + o - round
<1>5. o \in Nat /\ o < PageSize /\ wrPtr % PageSize = o /\ y \in Nat
  <2>1. Aligned(base)
    BY DEF Inside, Space
  <2>2. wrPtr % PageSize = wr - hi
    BY <2>1, <1>2, <1>3, <1>4, OffsetIs
  <2> QED
    BY <2>2, <1>2, <1>3, <1>4
<1>6. k = y \div PageSize
  <2>1. page_residual_space = PageSize - o
    BY <1>5 DEF page_residual_space
  <2>2. ((n + PageSize) - page_residual_space - round) = y
    <3>1. o \in Nat
      BY <1>5
    <3> HIDE DEF o
    <3> QED
      BY <2>1, <3>1, <1>3
  <2> QED
    BY <2>2, <1>18 DEF npages
<1>7. k \in Nat /\ Units(k) \in Nat /\ Units(k) <= y /\ y < Units(k) + PageSize
  <2> HIDE DEF y
  <2>1. y = PageSize * (y \div PageSize) + (y % PageSize) /\ y \div PageSize \in Nat /\ y % PageSize \in 0 .. PageSize - 1
    BY <1>3, <1>5, Quotient
  <2>2. k \in Nat /\ Units(k) = PageSize * k
    BY <2>1, <1>3, <1>6 DEF Units
  <2>3. Units(k) \in Nat
    BY <2>2, UnitsOf
  <2> DEFINE r == y % PageSize
  <2>4. y = Units(k) + r /\ r \in 0 .. PageSize - 1
    BY <2>1, <2>2, <1>6
  <2> HIDE DEF r
  <2> QED
    BY <2>2, <2>3, <2>4, <1>3
<1>8. Units(k) + hi <= wr + n - round /\ wr + n - round < Units(k) + hi + PageSize
  BY <1>3, <1>7
<1>9. /\ Units(upSem - k) \in Nat /\ Units(upSem) = Units(upSem - k) + Units(k)
      /\ hi + PageSize + Units(k) <= base + RingSize + RingSize /\ PageSize + Units(k) <= RingSize
  <2>1. Units(job.release) = PageSize
    BY <1>4, UnitsOf
  <2> QED
    BY <2>1, <1>7, <1>18, Room
<1>10. n <= RingSize /\ wr + n <= base + RingSize + RingSize
  BY <1>2, <1>3, <1>5, <1>7, <1>8, <1>9
<1>11. scratch[h + 1].cmd = pcmd /\ scratch[h + 1].first = job.idx
  BY <1>18
<1>12. Chunk(W, wr, n, scratch[h + 1])
  <2> SUFFICES ASSUME NEW j \in 0 .. n - 1
               PROVE  wr + j \in DOMAIN W /\ W[wr + j] = [cmd |-> pcmd, idx |-> job.idx + j, len |-> 0]
    BY <1>11 DEF Chunk
  <2> DEFINE i == job.idx + j
  <2>1. i \in 0 .. job.len - 1 /\ i # 0 /\ (wr - job.idx) + i = wr + j
    BY <1>3, <1>4
  <2> HIDE DEF i
  <2>2. (wr - job.idx) + i \in DOMAIN W /\ W[(wr - job.idx) + i] = Unit(i, job.len)
    BY <2>1, <1>2 DEF RelayInPlan
  <2>3. Unit(i, job.len) = [cmd |-> pcmd, idx |-> i, len |-> 0]
    BY <2>1 DEF Unit
  <2> QED
    BY <2>1, <2>2, <2>3 DEF i
<1>13. Channel(outbox, scratch, ring, base, base + ptr, wr, W, base + fence + Units(delivered), hi) /\ DOMAIN W \subseteq Nat
  BY DEF Inside, Plan
<1> DEFINE from == base + ptr
           lo == base + fence + Units(delivered)
<1>14. from \in Nat /\ Channel(outbox, scratch, ring, base, from, wr, W, lo, hi)
  BY <1>3, <1>13
<1>15. scratch[h + 1].first \in Nat
  BY <1>3, <1>11
<1> HIDE DEF from, lo
<1>16. Place(base, wr + n, PtrBehind(n)) /\ PtrBehind(n) \in 0 .. RingSize
  <2>1. PICK x \in Nat : x = 0
    OBVIOUS
  <2> QED
    BY <2>1, <1>2, <1>3, <1>4, <1>10, <1>12, <1>13, <1>14, <1>15, SendScratch
<1>17. ASSUME NEW x \in Nat
       PROVE  /\ Channel(Sent(outbox, h, n, x), scratch, ring, base, from, wr + n, W, lo, hi + Units(x))
              /\ Others(Sent(outbox, h, n, x), outbox, h)
  BY <1>2, <1>3, <1>4, <1>10, <1>12, <1>13, <1>14, <1>15, <1>17, SendScratch
<1> QED
  BY <1>3, <1>4, <1>7, <1>8, <1>9, <1>16, <1>17 DEF from, lo

\* A half of the scratch buffer is written.
LEMMA RelayWritePreserves ==
    ASSUME IInv, RelayWrite, UNCHANGED lengths
    PROVE  IInv'
<1>1. Types /\ HalvesApart /\ Unsent
  BY DEF IInv
<1>inside. PICK base \in Nat, wr \in Nat, end \in Nat, hi \in Nat : \E W : Inside(base, wr, end, W, hi)
  BY DEF IInv
<1>2. PICK W : Inside(base, wr, end, W, hi)
  BY <1>inside
<1>3. PICK n : n = job.inScratch
  OBVIOUS
<1>4. PICK k : k = npages(n, 0)
  OBVIOUS
<1>5. PICK h : h = 1 - toggle
  OBVIOUS
<1>6. /\ ppc = "acquire" /\ ppc' = "barrier" /\ upSem >= k /\ upSem' = upSem - k
      /\ outbox' = Sent(outbox, h, n, k) /\ wrPtr' = PtrBehind(n)
      /\ job' = [job EXCEPT !.idx = @ + n, !.inScratch = amt_to_read]
      /\ UNCHANGED <<pcmd, scratch, reading, toggle, delivered, credits, ring>>
      /\ UNCHANGED <<dpc, seen, fence, ptr, block, got, dcmd, len, left, part, prev, since, unsent>>
  BY <1>3, <1>4, <1>5 DEF RelayWrite, dispatchVars, acquire, Sent
<1>7. Prefetcher(base, wr, end, W, hi)
  BY <1>2 DEF Inside
<1>8. RelayInPlan(wr, end, W, hi)
  BY <1>6, <1>7 DEF Prefetcher, Relaying
<1>9. /\ job \in [len : Nat, idx : Nat, inScratch : Nat, release : Nat] /\ job.len \in Nat /\ job.idx \in Nat /\ n \in Nat
      /\ toggle \in 0 .. 1 /\ h \in 0 .. 1 /\ h # toggle /\ upSem \in Nat
  BY <1>1, <1>3, <1>5 DEF Types
<1>10. /\ job.idx + n < job.len /\ scratch[h + 1] = [cmd |-> pcmd, first |-> job.idx]
       /\ HalfHolds(toggle, job.idx + n) /\ n >= 1 /\ job.release = 1 /\ Aligned(hi)
       /\ job.idx >= 1 /\ job.idx <= wr
  BY <1>3, <1>5, <1>6, <1>8 DEF RelayInPlan
<1>26. PICK round \in 0 .. 1 : round = 0
  OBVIOUS
<1>27. k = npages(n, round) /\ ppc \in {"barrier", "acquire"}
  BY <1>4, <1>6, <1>26
<1>28. /\ k \in Nat /\ n \in Nat /\ n >= 1
       /\ Units(k) \in Nat /\ Units(k) + hi <= wr + n - round /\ wr + n - round < Units(k) + hi + PageSize
       /\ Units(upSem - k) \in Nat /\ Units(upSem) = Units(upSem - k) + Units(k)
       /\ Place(base, wr + n, PtrBehind(n)) /\ PtrBehind(n) \in 0 .. RingSize
       /\ \A x \in Nat :
            /\ Channel(Sent(outbox, h, n, x), scratch, ring, base, base + ptr, wr + n, W,
                       base + fence + Units(delivered), hi + Units(x))
            /\ Others(Sent(outbox, h, n, x), outbox, h)
  <2>1. upSem >= k
    BY <1>6
  <2>2. h \in 0 .. 1
    BY <1>9
  <2>3. scratch[h + 1].cmd = pcmd /\ scratch[h + 1].first = job.idx
    BY <1>10
  <2>4. Types
    BY <1>1
  <2>5. ChunkIs(h, n, k, round)
    BY <2>1, <2>3, <1>3, <1>27 DEF ChunkIs
  <2>6. ppc \in {"barrier", "acquire"}
    BY <1>27
  <2> QED
    BY <2>2, <2>4, <2>5, <2>6, <1>2, RelayChunk, Zenon
<1>29. /\ k \in Nat /\ Units(k) \in Nat /\ Units(k) + hi <= wr + n /\ wr + n < Units(k) + hi + PageSize
       /\ Units(upSem - k) \in Nat /\ Units(upSem) = Units(upSem - k) + Units(k)
  BY <1>9, <1>26, <1>28
<1>11. /\ Channel(outbox', scratch, ring, base, base + ptr, wr + n, W, base + fence + Units(delivered), hi + Units(k))
       /\ Place(base, wr + n, wrPtr') /\ wrPtr' \in 0 .. RingSize
       /\ Others(outbox', outbox, h)
  <2>1. outbox' = Sent(outbox, h, n, k) /\ wrPtr' = PtrBehind(n)
    BY <1>6
  <2> QED
    BY <2>1, <1>28
<1>12. amt_to_read \in Nat /\ amt_to_read >= 1 /\ job.idx + n + amt_to_read <= job.len
  BY <1>3, <1>9, <1>10, SizeAssumption DEF amt_to_read, unread
<1>13. /\ job' \in [len : Nat, idx : Nat, inScratch : Nat, release : Nat]
       /\ job'.len = job.len /\ job'.idx = job.idx + n /\ job'.inScratch = amt_to_read /\ job'.release = 1
  <2> DEFINE a == amt_to_read
  <2> DEFINE b == job.idx + n
  <2>1. a \in Nat /\ b \in Nat /\ job' = [job EXCEPT !.idx = b, !.inScratch = a]
    BY <1>6, <1>9, <1>12
  <2> HIDE DEF a, b
  <2>2. /\ job' \in [len : Nat, idx : Nat, inScratch : Nat, release : Nat]
        /\ job'.len = job.len /\ job'.idx = b /\ job'.inScratch = a /\ job'.release = job.release
    BY <2>1, <1>9
  <2> QED
    BY <2>2, <1>10 DEF a, b
<1>14. Types'
  <2>1. upSem' \in Nat
    BY <1>6, <1>9, <1>29
  <2>2. ppc' = "barrier" /\ UNCHANGED <<pcmd, scratch, reading, toggle, delivered, credits, ring>>
    BY <1>6
  <2>3. UNCHANGED <<dpc, seen, fence, ptr, block, got, dcmd, len, left, part, prev, since, unsent>>
    BY <1>6
  <2> QED
    BY <2>1, <2>2, <2>3, <1>1, <1>11, <1>13 DEF Types
<1>15. HalvesApart'
  <2> SUFFICES ASSUME reading # None, NEW i \in 1 .. Len(outbox'), outbox'[i].op = "scratch"
               PROVE  outbox'[i].half # reading.half
    BY <1>6 DEF HalvesApart
  <2>1. reading.half = toggle
    BY <1>10 DEF HalfHolds
  <2>2. CASE outbox'[i].half = h
    BY <2>1, <2>2, <1>9
  <2>3. CASE i \in 1 .. Len(outbox) /\ outbox'[i] = outbox[i]
    BY <2>3, <1>1 DEF HalvesApart
  <2> QED
    BY <2>2, <2>3, <1>11 DEF Others
<1>16. NextParity' = NextParity
  BY <1>6 DEF NextParity, Between
<1>17. PICK par : NextParity = par
  OBVIOUS
<1>18. PICK wr1 \in Nat, hi1 \in Nat : wr1 = wr + n /\ hi1 = hi + Units(k)
  <2>1. wr + n \in Nat /\ hi + Units(k) \in Nat
    BY <1>9, <1>29
  <2> QED
    BY <2>1
<1>19. RelayInPlan(wr1, end, W, hi1)'
  <2>1. wr1 - job'.idx = wr - job.idx /\ job'.idx <= wr1 /\ job'.idx >= 1
    BY <1>9, <1>10, <1>13, <1>18
  <2>2. \A i, l : Unit(i, l)' = Unit(i, l)
    BY <1>6 DEF Unit
  <2>3. /\ Aligned(wr - job.idx) /\ end = (wr - job.idx) + RoundUp(job.len)
        /\ \A i \in 0 .. job.len - 1 : (wr - job.idx) + i \in DOMAIN W /\ W[(wr - job.idx) + i] = Unit(i, job.len)
        /\ \A v \in DOMAIN W : v < (wr - job.idx) + job.len
    BY <1>8 DEF RelayInPlan
  <2>4. HalfHolds(toggle, job.idx)'
    BY <1>6, <1>10, <1>13 DEF HalfHolds
  <2>5. Aligned(hi1) /\ wr1 < hi1 + PageSize
    <3>1. \A u, w \in Nat : Aligned(u) /\ Aligned(w) => Aligned(u + w)
      BY AlignedSum
    <3>2. Aligned(Units(k))
      BY <1>29, AlignedIs
    <3> QED
      BY <3>1, <3>2, <1>10, <1>18, <1>29, Sizes
  <2>6. job'.inScratch >= 1 /\ job'.idx + job'.inScratch <= job'.len /\ job'.release = 1 /\ job'.len = job.len
    BY <1>12, <1>13
  <2>7. ppc' = "barrier"
    BY <1>6
  <2> QED
    BY <2>1, <2>2, <2>3, <2>4, <2>5, <2>6, <2>7 DEF RelayInPlan, Aligned, RoundUp, PagesOf, Unit
<1>20. Prefetcher(base, wr1, end, W, hi1)'
  <2>1. hi1 <= wr1 /\ wr1 <= end
    <3>1. job.len <= RoundUp(job.len) /\ RoundUp(job.len) \in Nat
      BY <1>9, RoundUpIs
    <3>2. end = (wr - job.idx) + RoundUp(job.len)
      BY <1>8 DEF RelayInPlan
    <3> QED
      BY <3>1, <3>2, <1>9, <1>10, <1>18, <1>29
  <2>2. Place(base, wr1, wrPtr)'
    BY <1>11, <1>18 DEF Place
  <2>3. Aligned(end)'
    BY <1>7 DEF Prefetcher, Aligned
  <2>4. \A s \in DOMAIN W : W[s].idx = 0 => W[s].len # TerminateLen
    BY <1>6, <1>7 DEF Prefetcher, Last
  <2>5. ppc' \notin Between /\ ppc' \notin {"flush", "flushLast", "inline", "inlineLast", "header"}
    BY <1>6 DEF Between
  <2> QED
    BY <2>1, <2>2, <2>3, <2>4, <2>5, <1>19 DEF Prefetcher
<1>21. hi1 + Units(job'.release) + Units(upSem') = hi + Units(job.release) + Units(upSem)
  <2>1. Units(job.release) = Units(job'.release) /\ Units(job.release) \in Nat
    BY <1>1, <1>2, <1>10, <1>13, Geometry
  <2>2. upSem' = upSem - k
    BY <1>6
  <2> QED
    BY <2>1, <2>2, <1>18, <1>29
<1>22. ppc \notin Last
  BY <1>6 DEF Last
<1>23. Channel(outbox', scratch', ring, base, base + ptr, wr1, W, base + fence + Units(delivered), hi1)
  BY <1>6, <1>11, <1>18
<1>24. Plan(W, end, par)
  BY <1>2, <1>17 DEF Inside
<1>25. /\ UNCHANGED <<dpc, seen, fence, ptr, block, got, dcmd, len, left, part, prev, since, unsent>>
       /\ UNCHANGED <<delivered, credits, ring>>
  BY <1>6
<1> QED
  BY <1>1, <1>2, <1>14, <1>15, <1>16, <1>17, <1>20, <1>21, <1>22, <1>23, <1>24, <1>25, PrefetcherMoves

\* The last chunk of a relayed command is written, and the page of its header is released with it.
LEMMA RelayLastPreserves ==
    ASSUME IInv, RelayLast, UNCHANGED lengths
    PROVE  IInv'
<1>1. Types /\ HalvesApart /\ Unsent
  BY DEF IInv
<1>inside. PICK base \in Nat, wr \in Nat, end \in Nat, hi \in Nat : \E W : Inside(base, wr, end, W, hi)
  BY DEF IInv
<1>2. PICK W : Inside(base, wr, end, W, hi)
  BY <1>inside
<1>3. PICK n : n = job.inScratch
  OBVIOUS
<1>4. PICK round \in 0 .. 1 : round = 1
  OBVIOUS
<1>5. PICK k : k = npages(n, round)
  OBVIOUS
<1>6. PICK h : h = toggle
  OBVIOUS
<1>7. /\ ppc = "barrier" /\ ppc' = "idle" /\ reading = None /\ unread = 0 /\ upSem >= k /\ upSem' = upSem - k
      /\ outbox' = Sent(outbox, h, n, k + 1) /\ wrPtr' = RoundUp(PtrBehind(n))
      /\ job' = NoJob /\ toggle' = 0 /\ pcmd' = 1 - pcmd
      /\ UNCHANGED <<scratch, reading, delivered, credits, ring>>
      /\ UNCHANGED <<dpc, seen, fence, ptr, block, got, dcmd, len, left, part, prev, since, unsent>>
  BY <1>3, <1>4, <1>5, <1>6 DEF RelayLast, dispatchVars, acquire, Sent
<1>8. Prefetcher(base, wr, end, W, hi)
  BY <1>2 DEF Inside
<1>9. RelayInPlan(wr, end, W, hi) /\ Aligned(end)
  BY <1>7, <1>8 DEF Prefetcher, Relaying
<1>10. /\ job.len \in Nat /\ job.idx \in Nat /\ n \in Nat /\ toggle \in 0 .. 1 /\ h \in 0 .. 1 /\ upSem \in Nat
       /\ PageSize \in Nat /\ PageSize > 1
  BY <1>1, <1>3, <1>6, Sizes DEF Types
<1>11. /\ job.idx + n = job.len /\ job.idx <= wr /\ job.release = 1 /\ Aligned(hi)
       /\ Aligned(wr - job.idx) /\ end = (wr - job.idx) + RoundUp(job.len)
       /\ \A v \in DOMAIN W : v < (wr - job.idx) + job.len
  BY <1>3, <1>7, <1>9, <1>10 DEF RelayInPlan, unread
<1>12. scratch[h + 1].cmd = pcmd /\ scratch[h + 1].first = job.idx
  BY <1>6, <1>7, <1>9 DEF RelayInPlan, HalfHolds
<1>13. /\ k \in Nat /\ n \in Nat /\ n >= 1
       /\ Units(k) \in Nat /\ Units(k) + hi <= wr + n - round /\ wr + n - round < Units(k) + hi + PageSize
       /\ Units(upSem - k) \in Nat /\ Units(upSem) = Units(upSem - k) + Units(k)
       /\ Place(base, wr + n, PtrBehind(n)) /\ PtrBehind(n) \in 0 .. RingSize
       /\ \A x \in Nat :
            /\ Channel(Sent(outbox, h, n, x), scratch, ring, base, base + ptr, wr + n, W,
                       base + fence + Units(delivered), hi + Units(x))
            /\ Others(Sent(outbox, h, n, x), outbox, h)
  <2>1. upSem >= k
    BY <1>7
  <2>2. h \in 0 .. 1
    BY <1>10
  <2>3. Types
    BY <1>1
  <2>4. ChunkIs(h, n, k, round)
    BY <2>1, <1>3, <1>5, <1>12 DEF ChunkIs
  <2>5. ppc \in {"barrier", "acquire"}
    BY <1>7
  <2> QED
    BY <2>2, <2>3, <2>4, <2>5, <1>2, RelayChunk, Zenon
<1>14. PICK p \in Nat : p = wr + n
  BY <1>10
<1>15. PICK d : d = PtrBehind(n)
  OBVIOUS
<1>16. PICK x \in Nat : x = k + 1
  BY <1>13
<1>17. /\ k \in Nat /\ Units(k) \in Nat /\ Units(k) + hi < p /\ p <= Units(k) + hi + PageSize
       /\ Units(upSem - k) \in Nat /\ Units(upSem) = Units(upSem - k) + Units(k)
  BY <1>4, <1>10, <1>13, <1>14
<1>18. /\ Channel(outbox', scratch, ring, base, base + ptr, p, W, base + fence + Units(delivered), hi + Units(x))
       /\ Place(base, p, d) /\ d \in 0 .. RingSize
  BY <1>7, <1>13, <1>14, <1>15, <1>16
<1>19. RoundUp(p) = end
  <2>1. PICK s \in Nat : s = wr - job.idx
    BY <1>10, <1>11
  <2>2. Aligned(s) /\ s + job.len = p /\ end = s + RoundUp(job.len)
    BY <2>1, <1>10, <1>11, <1>14
  <2> QED
    BY <2>2, <1>10, RoundUpFacts
<1>20. hi + Units(x) = end
  <2>1. Units(x) = Units(k) + PageSize
    BY <1>10, <1>16, <1>17, UnitsOf
  <2>2. PICK e \in Nat : e = hi + Units(x)
    BY <2>1, <1>10, <1>17
  <2>3. Aligned(e)
    <3>1. Units(x) \in Nat /\ Aligned(Units(x))
      BY UnitsOf, AlignedIs
    <3> QED
      BY <3>1, <2>2, <1>11, AlignedSum
  <2>4. p <= e /\ e < p + PageSize
    BY <2>1, <2>2, <1>10, <1>17
  <2> QED
    BY <2>2, <2>3, <2>4, <1>19, RoundUpUnique
<1>21. Place(base, end, wrPtr') /\ wrPtr' \in 0 .. RingSize
  <2>1. Aligned(base)
    BY <1>2 DEF Inside, Space
  <2>2. Place(base, RoundUp(p), RoundUp(d)) /\ RoundUp(d) \in 0 .. RingSize
    BY <2>1, <1>18, RoundPlace
  <2> QED
    BY <2>2, <1>7, <1>15, <1>19
<1>22. Channel(outbox', scratch', ring, base, base + ptr, end, W, base + fence + Units(delivered), end)
  <2>1. PICK from \in Nat : from = base + ptr
    BY <1>1, Sizes DEF Types
  <2>2. PICK lo : lo = base + fence + Units(delivered)
    OBVIOUS
  <2>3. Channel(outbox', scratch, ring, base, from, p, W, lo, end)
    BY <2>1, <2>2, <1>18, <1>20
  <2>4. DOMAIN W \subseteq Nat
    BY <1>2 DEF Inside, Plan
  <2>5. p <= end
    BY <1>19, RoundUpIs
  <2>6. \A v \in DOMAIN W : v < p \/ end <= v
    <3>1. (wr - job.idx) + job.len = p
      BY <1>10, <1>11, <1>14
    <3> QED
      BY <3>1, <1>11
  <2>7. Channel(outbox', scratch, ring, base, from, end, W, lo, end)
    BY <2>3, <2>4, <2>5, <2>6, SkipPadding
  <2> QED
    BY <2>1, <2>2, <2>7, <1>7
<1>23. Types'
  <2>1. NoJob \in [len : Nat, idx : Nat, inScratch : Nat, release : Nat]
    BY DEF NoJob
  <2>2. upSem' \in Nat
    BY <1>7, <1>10, <1>17
  <2>3. /\ ppc' = "idle" /\ job' = NoJob /\ toggle' \in 0 .. 1
        /\ UNCHANGED <<scratch, reading, delivered, credits, ring>>
    BY <1>7
  <2>4. UNCHANGED <<dpc, seen, fence, ptr, block, got, dcmd, len, left, part, prev, since, unsent>>
    BY <1>7
  <2>5. pcmd' \in 0 .. 1
    BY <1>1, <1>7 DEF Types
  <2> QED
    BY <2>1, <2>2, <2>3, <2>4, <2>5, <1>1, <1>21 DEF Types
<1>24. HalvesApart'
  BY <1>7 DEF HalvesApart
<1>25. NextParity' = NextParity
  BY <1>7 DEF NextParity, Between
<1>26. PICK par : NextParity = par
  OBVIOUS
<1>27. Prefetcher(base, end, end, W, end)'
  <2>1. Place(base, end, wrPtr)'
    BY <1>21 DEF Place
  <2>2. Aligned(end)'
    BY <1>9 DEF Aligned
  <2>3. \A s \in DOMAIN W : W[s].idx = 0 => W[s].len # TerminateLen
    BY <1>7, <1>8 DEF Prefetcher, Last
  <2>4. ppc' = "idle" /\ ppc' \notin Relaying /\ job' = NoJob /\ reading' = None
    BY <1>7 DEF Relaying
  <2> QED
    BY <2>1, <2>2, <2>3, <2>4 DEF Prefetcher, NoJob
<1>28. end + Units(job'.release) + Units(upSem') = hi + Units(job.release) + Units(upSem)
  <2>1. Units(job'.release) = 0 /\ Units(job.release) = PageSize
    BY <1>7, <1>11, UnitsOf DEF NoJob
  <2>2. upSem' = upSem - k
    BY <1>7
  <2>3. Units(x) = Units(k) + PageSize
    BY <1>10, <1>16, <1>17, UnitsOf
  <2> QED
    BY <2>1, <2>2, <2>3, <1>10, <1>17, <1>20
<1>29. ppc \notin Last
  BY <1>7 DEF Last
<1>30. Plan(W, end, par)
  BY <1>2, <1>26 DEF Inside
<1>31. /\ UNCHANGED <<dpc, seen, fence, ptr, block, got, dcmd, len, left, part, prev, since, unsent>>
       /\ UNCHANGED <<delivered, credits, ring>>
  BY <1>7
<1> QED
  BY <1>1, <1>2, <1>22, <1>23, <1>24, <1>25, <1>26, <1>27, <1>28, <1>29, <1>30, <1>31, PrefetcherMoves

-----------------------------------------------------------------------------
(* Steps of the dispatcher *)

\* What is left to show of a step of the dispatcher: it leaves the prefetcher and the messages alone.
LEMMA DispatcherMoves ==
    ASSUME HalvesApart, NEW base \in Nat, NEW wr \in Nat, NEW end \in Nat, NEW hi \in Nat, NEW W,
           Inside(base, wr, end, W, hi),
           UNCHANGED <<ppc, upSem, wrPtr, pcmd, job, scratch, reading, toggle, outbox>>,
           NEW base1 \in Nat, Place(base1, wr, wrPtr), NEW par, par = NextParity,
           Types', Unsent',
           Channel(outbox, scratch, ring', base1, base1 + ptr', wr, W, base1 + fence' + Units(delivered'), hi),
           Space(base1, hi)', Dispatcher(base1, end, par, W)'
    PROVE  IInv'
<1>1. Prefetcher(base, wr, end, W, hi) /\ Plan(W, end, par)
  BY DEF Inside
<1>2. Prefetcher(base1, wr, end, W, hi)' /\ NextParity' = par
  BY <1>1, PrefetcherSame
<1>3. HalvesApart'
  BY DEF HalvesApart
<1>4. Channel(outbox', scratch', ring', base1, base1 + ptr', wr, W, base1 + fence' + Units(delivered'), hi)
  OBVIOUS
<1>5. Dispatcher(base1, end, NextParity, W)'
  BY <1>2 DEF Dispatcher
<1> QED
  BY <1>1, <1>2, <1>3, <1>4, <1>5, InsideNext

\* What is in the ring from address p on, up to the position wr, stays.
Kept(base, p, wr, rg, rg1) == \A v \in Nat : base + p <= v /\ v < wr => rg1[At(base, v)] = rg[At(base, v)]

\* ... and of a step that stays in the block and takes no page.
LEMMA DispatcherInBlock ==
    ASSUME Types, HalvesApart, NEW base \in Nat, NEW wr \in Nat, NEW end \in Nat, NEW hi \in Nat, NEW W,
           Inside(base, wr, end, W, hi),
           UNCHANGED <<ppc, upSem, wrPtr, pcmd, job, scratch, reading, toggle, outbox>>,
           UNCHANGED <<seen, fence, block, prev, delivered, credits>>,
           dpc \notin {"releaseBlock", "waitAll", "out"}, dpc' \notin {"releaseBlock", "waitAll", "out"},
           NEW par, par = NextParity,
           Types', Unsent', ptr <= ptr',
           Kept(base, ptr', wr, ring, ring'),
           Dispatcher(base, end, par, W)'
    PROVE  IInv'
<1>10. ptr \in Nat /\ ptr' \in Nat
  <2>1. ptr \in 0 .. RingSize
    BY DEF Types
  <2>2. ptr' \in 0 .. RingSize
    BY DEF Types
  <2> QED
    BY <2>1, <2>2, Sizes
<1>1. PICK from \in Nat : from = base + ptr
  BY <1>10
<1>11. PICK x \in Nat : x = ptr'
  BY <1>10
<1>2. PICK from1 \in Nat : from1 = base + x
  OBVIOUS
<1>3. PICK lo : lo = base + fence + Units(delivered)
  OBVIOUS
<1>4. Channel(outbox, scratch, ring, base, from, wr, W, lo, hi) /\ DOMAIN W \subseteq Nat
  BY <1>1, <1>3 DEF Inside, Plan
<1>5. from <= from1
  <2>1. PICK y \in Nat : y = ptr
    BY <1>10
  <2>2. y <= x
    BY <2>1, <1>11
  <2> QED
    BY <2>1, <2>2, <1>1, <1>2
<1>6. Channel(outbox, scratch, ring', base, from1, wr, W, lo, hi)
  <2>1. \A v \in Nat : from1 <= v /\ v < wr => ring'[At(base, v)] = ring[At(base, v)]
    BY <1>2, <1>11 DEF Kept
  <2> QED
    BY <2>1, <1>4, <1>5, RingKept
<1>7. Channel(outbox, scratch, ring', base, base + ptr', wr, W, base + fence' + Units(delivered'), hi)
  BY <1>2, <1>3, <1>6, <1>11
<1>8. Space(base, hi)'
  BY DEF Inside, Space, HeldUnits, BlockStart, block_end, Aligned, Units
<1>9. Place(base, wr, wrPtr)
  BY DEF Inside, Prefetcher
<1> QED
  BY <1>7, <1>8, <1>9, DispatcherMoves

\* The types of what the dispatcher's steps compute with.
LEMMA DispatcherTypes ==
    ASSUME Types
    PROVE  /\ ptr \in Nat /\ fence \in Nat /\ ptr <= RingSize /\ fence <= RingSize /\ RingSize \in Nat
           /\ left \in Nat /\ len \in Nat /\ part \in Nat /\ dcmd \in 0 .. 1
           /\ PageSize \in Nat /\ PageSize > 1
BY Sizes DEF Types

\* What is delivered and not taken from the ring is in it.
LEMMA Delivered ==
    ASSUME Types, NEW base \in Nat, NEW wr \in Nat, NEW end \in Nat, NEW hi \in Nat, NEW W, Inside(base, wr, end, W, hi),
           NEW from \in Nat, from = base + ptr, NEW lo, lo = base + fence + Units(delivered)
    PROVE  Present(ring, base, W, from, lo)
<1>1. hi <= wr
  BY Geometry
<1>2. Channel(outbox, scratch, ring, base, from, wr, W, lo, hi)
  BY DEF Inside
<1>3. DOMAIN W \subseteq Nat
  BY DEF Inside, Plan
<1> QED
  BY <1>1, <1>2, <1>3, IsThere

\* What the dispatcher has acquired and not taken from the ring is in it.
LEMMA Acquired ==
    ASSUME Types, NEW base \in Nat, NEW wr \in Nat, NEW end \in Nat, NEW hi \in Nat, NEW W, Inside(base, wr, end, W, hi),
           NEW a \in Nat, ptr <= a, a < fence, NEW v \in DOMAIN W, v = base + a
    PROVE  ring[a] = W[v]
<1>1. /\ v \in Nat
      /\ \E from \in Nat : from = base + ptr
  BY DispatcherTypes
<1>8. PICK from \in Nat : from = base + ptr
  BY <1>1
<1>2. PICK lo : lo = base + fence + Units(delivered)
  OBVIOUS
<1>3. \A u \in DOMAIN W : from <= u /\ u < lo => ring[At(base, u)] = W[u]
  <2>1. Present(ring, base, W, from, lo)
    BY <1>8, <1>2, Delivered
  <2> QED
    BY <2>1 DEF Present
<1>4. lo \in Nat /\ base + fence <= lo
  <2>1. Units(delivered) \in Nat
    BY Geometry
  <2> QED
    BY <2>1, <1>2, DispatcherTypes
<1>5. v \in DOMAIN W /\ from <= v /\ v < lo
  BY <1>1, <1>4, <1>8, DispatcherTypes
<1>6. ring[At(base, v)] = W[v]
  BY <1>3, <1>5
<1>7. At(base, v) = a
  BY <1>1, DispatcherTypes DEF At
<1> QED
  BY <1>1, <1>6, <1>7

\* The units that the command has next are in the ring.
LEMMA OwnUnits ==
    ASSUME Types, NEW base \in Nat, NEW wr \in Nat, NEW end \in Nat, NEW hi \in Nat, NEW W, Inside(base, wr, end, W, hi),
           dpc \in Executing, NEW x \in Nat, x <= left, ptr + x <= fence, NEW k \in 0 .. x - 1
    PROVE  ring[ptr + k].cmd = dcmd /\ ring[ptr + k].idx = len - left + k
<1>1. PICK a \in Nat : a = ptr + k
  BY DispatcherTypes
<1>2. ptr <= a /\ a < fence /\ k \in 0 .. left - 1 /\ base + ptr + k = base + a
  BY <1>1, DispatcherTypes
<1>3. base + a \in DOMAIN W /\ W[base + a].cmd = dcmd /\ W[base + a].idx = len - left + k
  BY <1>2 DEF Inside, Dispatcher
<1>4. PICK v \in DOMAIN W : v = base + a /\ W[v].cmd = dcmd /\ W[v].idx = len - left + k
  BY <1>3
<1>5. ring[a] = W[v]
  <2>1. ptr <= a /\ a < fence /\ v = base + a
    BY <1>2, <1>4
  <2>2. Types /\ Inside(base, wr, end, W, hi) /\ base \in Nat /\ wr \in Nat /\ end \in Nat /\ hi \in Nat
    OBVIOUS
  <2>3. a \in Nat /\ v \in DOMAIN W
    OBVIOUS
  <2> QED
    BY ONLY <2>1, <2>2, <2>3, Acquired
<1> QED
  BY <1>1, <1>4, <1>5

\* A NOC write is issued.
LEMMA Issued ==
    ASSUME Types, NEW base \in Nat, NEW wr \in Nat, NEW end \in Nat, NEW hi \in Nat, NEW W, Inside(base, wr, end, W, hi),
           dpc \in Executing, ~InPad, NEW x \in Nat, x >= 1, x <= left, ptr + x <= fence,
           NEW p \in Nat, p = ptr', ptr + x <= p, IssueWrite(x), UNCHANGED <<block, ring>>,
           dpc' \notin {"releaseBlock", "waitAll", "out"}
    PROVE  /\ Unsent' /\ since' \in 0 .. 1
           /\ unsent' \in Seq([src : Nat, n : Nat, cmd : 0 .. 1, first : Nat]) /\ Len(unsent') <= 1
<1>1. Dispatcher(base, end, NextParity, W) /\ Executes
  BY DEF Inside, Dispatcher
<1>2. PICK f \in Nat : f = len - left
  BY <1>1, DispatcherTypes DEF Executes
<1>3. PICK w : w = [src |-> ptr, n |-> x, cmd |-> dcmd, first |-> f]
  OBVIOUS
<1>4. w \in [src : Nat, n : Nat, cmd : 0 .. 1, first : Nat]
  BY <1>2, <1>3, DispatcherTypes
<1>5. unsent' = <<w>> /\ since' = 1
  BY <1>2, <1>3 DEF IssueWrite
<1>6. unsent' \in Seq([src : Nat, n : Nat, cmd : 0 .. 1, first : Nat]) /\ Len(unsent') = 1 /\ unsent'[1] = w
  BY <1>4, <1>5
<1>7. BlockStart' <= ptr
  BY <1>1 DEF Executes, BlockStart
<1>8. ptr + x <= RingSize /\ ptr + x <= ptr'
  BY DispatcherTypes
<1>9. \A k \in 0 .. x - 1 : ring'[ptr + k].cmd = dcmd /\ ring'[ptr + k].idx = f + k
  BY <1>2, OwnUnits
<1>10. Unsent'
  <2>1. w.src = ptr /\ w.n = x /\ w.cmd = dcmd /\ w.first = f
    BY <1>3
  <2>2. since' = 1
    BY <1>5
  <2>3. unsent'[1] = w
    BY <1>6
  <2> HIDE <1>3, <1>4, <1>5, <1>6
  <2> QED
    BY <2>1, <2>2, <2>3, <1>7, <1>8, <1>9, SMTT(30) DEF Unsent
<1> QED
  BY <1>5, <1>6, <1>10

-----------------------------------------------------------------------------
(* Transfers.  Without a preamble the transfers of a relay are whole pages. *)

\* The transfer of a packed write, and of a relay without a preamble.
LEMMA XferOfIs ==
    ASSUME Types, Executes, Preamble = 0
    PROVE  /\ dpc = "packed" => /\ XferOf = XferSize - part /\ XferOf \in Nat /\ XferOf >= 1 /\ XferOf <= left
                                /\ XferOf <= PageSize
           /\ dpc = "relay" => XferOf = IF left > PageSize THEN PageSize ELSE left
<1>1. /\ left \in Nat /\ part \in Nat /\ left >= 1 /\ XferSize \in Nat /\ XferSize >= 1 /\ XferSize <= PageSize
      /\ PageSize \in Nat
  BY DispatcherTypes, Sizes DEF Executes
<1>2. ASSUME dpc = "packed"
      PROVE  XferOf = XferSize - part /\ XferOf \in Nat /\ XferOf >= 1 /\ XferOf <= left /\ XferOf <= PageSize
  <2>1. part < XferSize /\ (left + part) % XferSize = 0
    BY <1>2 DEF Executes
  <2>2. PICK t \in Nat : t = left + part
    BY <1>1
  <2>3. t >= XferSize
    BY <2>1, <2>2, <1>1, OneLess
  <2>4. XferOf = XferSize - part
    BY <1>2 DEF XferOf
  <2>5. part \in Nat /\ part < XferSize /\ left + part >= XferSize
    BY <2>1, <2>2, <2>3, <1>1
  <2> QED
    BY <2>4, <2>5, <1>1
<1>3. ASSUME dpc = "relay" PROVE XferOf = IF left > PageSize THEN PageSize ELSE left
  <2>1. part = 0
    BY <1>3 DEF Executes
  <2>2. left + part = left /\ PageSize - Preamble = PageSize /\ \A y \in Nat : y - part = y
    BY <2>1, <1>1
  <2> QED
    BY <2>2, <1>1, <1>3 DEF XferOf
<1> QED
  BY <1>2, <1>3

\* A transfer takes at least a unit, no more than the command has and no more than is acquired.
LEMMA XferIs ==
    ASSUME Types, Executes, Preamble = 0, dpc \in Executing, ~InPad, ptr <= fence, ~NeedsPage
    PROVE  /\ XferNow \in Nat /\ XferNow >= 1 /\ XferNow <= left /\ ptr + XferNow <= fence
           /\ dpc = "relay" => XferNow = left \/ XferNow = PageSize
           /\ dpc = "packed" => XferNow = XferSize - part
<1>1. /\ left \in Nat /\ left >= 1 /\ left <= len /\ len \in Nat /\ part \in Nat /\ ptr \in Nat /\ fence \in Nat
      /\ XferSize \in Nat /\ XferSize >= 1 /\ PageSize \in Nat /\ PageSize > 1
  BY DispatcherTypes, Sizes DEF Executes
<1> DEFINE available == IF left > fence - ptr THEN fence - ptr ELSE left
<1>2. ASSUME ptr # fence
      PROVE  available \in Nat /\ available >= 1 /\ available <= left /\ ptr + available <= fence
  BY <1>1, <1>2
<1>3. CASE dpc = "linear"
  <2>1. ptr # fence
    BY <1>1, <1>3 DEF NeedsPage
  <2>2. XferNow = available
    BY <1>3 DEF XferNow
  <2> HIDE DEF available
  <2> QED
    BY <2>1, <2>2, <1>2, <1>3
<1>4. CASE dpc = "paged"
  <2>1. ptr # fence
    BY <1>1, <1>4 DEF NeedsPage
  <2>2. PICK d \in Nat : d = len - 1 - left
    BY <1>1, <1>4 DEF Executes
  <2>3. PICK page \in Nat : page = XferSize - (d % XferSize) /\ page >= 1
    <3>1. d % XferSize \in 0 .. XferSize - 1
      BY <1>1, Quotient
    <3> QED
      BY <3>1, <1>1
  <2>4. XferNow = IF page > available THEN available ELSE page
    BY <2>2, <2>3, <1>4 DEF XferNow
  <2> HIDE DEF available
  <2> QED
    BY <2>1, <2>3, <2>4, <1>1, <1>2, <1>4
<1>5. CASE dpc = "large"
  <2>1. ptr # fence
    BY <1>1, <1>5 DEF NeedsPage
  <2>2. LargePos \in Nat /\ LargePos < LargeSize /\ LargeSize \in Nat
    BY <1>5, PadIs, SpanIs, Sizes
  <2>3. PICK r \in Nat : r = LargeSize - LargePos /\ r >= 1
    BY <2>2
  <2>4. XferNow = IF r > available THEN available ELSE r
    BY <2>3, <1>5 DEF XferNow
  <2> HIDE DEF available
  <2> QED
    BY <2>1, <2>3, <2>4, <1>1, <1>2, <1>5
<1>6. CASE dpc = "packed"
  <2>1. XferNow = XferOf /\ ~(ptr + XferOf > fence)
    BY <1>1, <1>6 DEF XferNow, NeedsPage
  <2>2. XferOf = XferSize - part /\ XferOf \in Nat /\ XferOf >= 1 /\ XferOf <= left
    BY <1>6, XferOfIs
  <2> QED
    BY <2>1, <2>2, <1>1, <1>6
<1>7. CASE dpc = "relay"
  <2>1. XferNow = XferOf /\ ~(ptr + XferOf > fence)
    BY <1>1, <1>7 DEF XferNow, NeedsPage
  <2>2. XferOf = IF left > PageSize THEN PageSize ELSE left
    BY <1>7, XferOfIs
  <2> QED
    BY <2>1, <2>2, <1>1, <1>7
<1> QED
  BY <1>3, <1>4, <1>5, <1>6, <1>7 DEF Executing

\* A relay that lacks a page has taken all that it has, a packed write less than a transfer.
LEMMA Lacks ==
    ASSUME Types, Executes, Preamble = 0, ptr <= fence, Aligned(fence), NeedsPage
    PROVE  /\ dpc = "relay" => ptr = fence
           /\ dpc = "packed" /\ ptr # fence => part = 0
           /\ dpc = "packed" => ptr + XferSize - part > fence
<1>1. /\ left \in Nat /\ left >= 1 /\ part \in Nat /\ ptr \in Nat /\ fence \in Nat
      /\ XferSize \in Nat /\ XferSize >= 1 /\ XferSize <= PageSize /\ PageSize \in Nat /\ PageSize > 1
  BY DispatcherTypes, Sizes DEF Executes
<1>2. ASSUME Aligned(ptr), ptr # fence PROVE ptr + PageSize <= fence
  BY <1>1, <1>2, AlignedSum
<1>3. ASSUME dpc = "relay" PROVE ptr = fence
  <2>1. XferOf = IF left > PageSize THEN PageSize ELSE left
    BY <1>3, XferOfIs
  <2>2. ptr + XferOf > fence
    BY <1>3 DEF NeedsPage
  <2>3. Aligned(ptr)
    BY <1>3 DEF Executes
  <2> QED
    BY <2>1, <2>2, <2>3, <1>1, <1>2
<1>4. ASSUME dpc = "packed" PROVE ptr + XferSize - part > fence /\ (ptr # fence => part = 0)
  <2>1. XferOf = XferSize - part /\ XferOf \in Nat /\ part < XferSize
    BY <1>4, XferOfIs DEF Executes
  <2>2. ptr + XferOf > fence
    BY <1>4 DEF NeedsPage
  <2>3. part # 0 => Aligned(ptr)
    BY <1>4 DEF Executes
  <2> QED
    BY <2>1, <2>2, <2>3, <1>1, <1>2
<1> QED
  BY <1>3, <1>4

-----------------------------------------------------------------------------
(* Where a step leaves the dispatcher *)

\* The plan has the last l units of a command of n units and parity c at v.
Rest(W, v, l, c, n) == \A j \in 0 .. l - 1 : v + j \in DOMAIN W /\ W[v + j].cmd = c /\ W[v + j].idx = n - l + j

\* Before a command ...
LEMMA AtCommand ==
    ASSUME NEW base, NEW end, NEW par, NEW W, NEW p \in Nat, p = ptr', NEW c, c = dcmd', NEW f \in Nat, f = fence',
           dpc' = "cmd", left' = 0, part' = 0, p <= f, ~got', BlockStart' <= ptr', Aligned(p),
           Begins(W, end, par, base + p, c)
    PROVE  Dispatcher(base, end, par, W)'
<1>1. Aligned(ptr)'
  BY DEF Aligned
<1>2. Begins(W, end, par, base + ptr, dcmd)'
  BY DEF Begins
<1>3. ptr' <= fence'
  OBVIOUS
<1>4. dpc' \notin Executing /\ dpc' \notin Ending
  BY DEF Executing, Ending
<1> QED
  BY <1>1, <1>2, <1>3, <1>4 DEF Dispatcher

\* ... in the middle of one ...
LEMMA AtUnits ==
    ASSUME NEW base, NEW end, NEW par, NEW W, NEW p \in Nat, p = ptr', NEW c, c = dcmd', NEW f \in Nat, f = fence',
           NEW l \in Nat, l = left', NEW n, n = len',
           dpc' \in Executing, p <= f, got' => ~NeedsPage', Executes', Rest(W, base + p, l, c, n),
           Begins(W, end, par, base + RoundUp(p + l), 1 - c)
    PROVE  Dispatcher(base, end, par, W)'
<1>1. ptr' <= fence'
  OBVIOUS
<1>2. dpc' # "cmd" /\ dpc' \notin Ending
  BY DEF Executing, Ending
<1>3. Begins(W, end, par, base + RoundUp(ptr + left), 1 - dcmd)'
  BY DEF Begins, RoundUp, PagesOf
<1>4. (\A j \in 0 .. left - 1 : /\ base + ptr + j \in DOMAIN W
                                /\ W[base + ptr + j].cmd = dcmd /\ W[base + ptr + j].idx = len - left + j)'
  BY DEF Rest
<1> QED
  BY <1>1, <1>2, <1>3, <1>4 DEF Dispatcher

\* ... or behind the last one.
LEMMA AtEnd ==
    ASSUME NEW base, NEW end, NEW par, NEW W, NEW p \in Nat, p = ptr', NEW f \in Nat, f = fence', dpc' \in Ending,
           left' = 0, part' = 0, ~got', ppc' \in Last, base + f = end, RoundUp(p) = f, p <= f, BlockStart' <= ptr',
           dpc' # "barrier" => p = f /\ prev'
    PROVE  Dispatcher(base, end, par, W)'
<1>1. ptr' <= fence'
  OBVIOUS
<1>2. dpc' # "cmd" /\ dpc' \notin Executing
  BY DEF Executing, Ending
<1>3. (RoundUp(ptr) = fence)'
  BY DEF RoundUp, PagesOf
<1>4. base + fence' = end
  OBVIOUS
<1> QED
  BY <1>1, <1>2, <1>3, <1>4 DEF Dispatcher

\* x units of the command are taken; it ends when there are no more.
LEMMA TakesUnits ==
    ASSUME Types, NEW base \in Nat, NEW end \in Nat, NEW par, NEW W, Dispatcher(base, end, par, W), Aligned(fence),
           dpc \in Executing, NEW x \in Nat, x >= 1, x <= left, ptr + x <= fence, BlockStart <= ptr + x,
           left' = left - x, ~got', UNCHANGED <<fence, block, prev>>,
           IF left = x THEN EndCmd(ptr + x) ELSE ptr' = ptr + x /\ UNCHANGED <<dpc, dcmd, len>>,
           NEW z \in Nat, z = part', left = x => z = 0,
           left # x => /\ dpc = "packed" => z < XferSize /\ ((left - x) + z) % XferSize = 0
                       /\ dpc # "packed" => z = 0
                       /\ dpc = "relay" \/ z # 0 => Aligned(ptr + x)
    PROVE  /\ Dispatcher(base, end, par, W)'
           /\ \E p \in Nat : p = ptr' /\ ptr + x <= p /\ p <= fence
           /\ dpc' \in {"cmd"} \cup Executing /\ dcmd' \in 0 .. 1 /\ len' \in Nat /\ left' \in Nat
<1>1. /\ ptr \in Nat /\ fence \in Nat /\ left \in Nat /\ len \in Nat /\ dcmd \in 0 .. 1 /\ BlockStart \in Nat
      /\ PageSize \in Nat
  BY DispatcherTypes, BlockIs
<1>2. Executes /\ Begins(W, end, par, base + RoundUp(ptr + left), 1 - dcmd)
  BY DEF Dispatcher
<1>3. left <= len /\ (dpc # "relay" => left < len) /\ (dpc = "large" => (len - 1) % LargeSpan = 0)
  BY <1>2 DEF Executes
<1>4. PICK f \in Nat : f = fence' /\ f = fence
  BY <1>1
<1>5. PICK b \in Nat : b = BlockStart' /\ b = BlockStart
  BY <1>1 DEF BlockStart
<1>6. PICK q \in Nat : q = ptr + x
  BY <1>1
<1>7. CASE left = x
  <2>1. dpc' = "cmd" /\ dcmd' = 1 - dcmd /\ len' = 0 /\ left' = 0 /\ part' = 0
    BY <1>1, <1>7 DEF EndCmd
  <2>2. PICK p \in Nat : p = ptr' /\ p = RoundUp(q) /\ q <= p /\ Aligned(p) /\ p <= f
    <3>1. ptr' = RoundUp(q)
      BY <1>6, <1>7 DEF EndCmd
    <3>2. RoundUp(q) \in Nat /\ q <= RoundUp(q) /\ Aligned(RoundUp(q))
      BY RoundUpIs
    <3>3. q <= f /\ Aligned(f)
      BY <1>4, <1>6
    <3>4. RoundUp(q) <= f
      BY <3>3, RoundUpFacts
    <3> QED
      BY <3>1, <3>2, <3>4
  <2>3. PICK c \in 0 .. 1 : c = dcmd' /\ c = 1 - dcmd
    BY <2>1, <1>1
  <2>4. Begins(W, end, par, base + p, c)
    BY <2>2, <2>3, <1>2, <1>6, <1>7
  <2>5. BlockStart' <= ptr'
    BY <2>2, <1>5, <1>6
  <2>6. Dispatcher(base, end, par, W)'
    BY <2>1, <2>2, <2>3, <2>4, <2>5, <1>4, AtCommand
  <2> QED
    BY <2>1, <2>2, <2>3, <2>6, <1>4, <1>6
<1>8. CASE left # x
  <2>1. PICK p \in Nat : p = ptr' /\ p = q
    BY <1>6, <1>8
  <2>2. PICK l \in Nat : l = left' /\ l = left - x /\ l >= 1 /\ l <= left
    BY <1>1, <1>8
  <2>3. PICK c \in 0 .. 1, n \in Nat : c = dcmd' /\ c = dcmd /\ n = len' /\ n = len
    BY <1>1, <1>8
  <2>4. dpc' = dpc
    BY <1>8
  <2>5. Rest(W, base + p, l, c, n)
    <3> SUFFICES ASSUME NEW j \in 0 .. l - 1
                 PROVE  base + p + j \in DOMAIN W /\ W[base + p + j].cmd = c /\ W[base + p + j].idx = n - l + j
      BY DEF Rest
    <3>1. PICK i \in Nat : i = x + j
      OBVIOUS
    <3>2. i \in 0 .. left - 1 /\ base + p + j = base + ptr + i /\ n - l + j = len - left + i
      BY <3>1, <2>1, <2>2, <2>3, <1>1, <1>6
    <3>3. base + ptr + i \in DOMAIN W /\ W[base + ptr + i].cmd = dcmd /\ W[base + ptr + i].idx = len - left + i
      BY <3>2 DEF Dispatcher
    <3> QED
      BY <3>2, <3>3, <2>3
  <2>6. Begins(W, end, par, base + RoundUp(p + l), 1 - c)
    <3>1. p + l = ptr + left
      BY <2>1, <2>2, <1>1, <1>6
    <3> QED
      BY <3>1, <2>3, <1>2
  <2>7. Executes'
    <3>1. BlockStart' <= ptr' /\ ~(ptr' < BlockStart')
      <4>1. b <= p /\ ~(p < b)
        BY <2>1, <1>5, <1>6
      <4> QED
        BY <4>1, <2>1, <1>5
    <3>2. left' >= 1 /\ left' <= len' /\ (dpc # "relay" => left' < len')
      <4>1. l >= 1 /\ l <= n /\ (dpc # "relay" => l < n)
        BY <2>2, <2>3, <1>1, <1>3
      <4> QED
        BY <4>1, <2>2, <2>3
    <3>3. dpc = "packed" => part' < XferSize /\ (left' + part') % XferSize = 0
      BY <2>2, <1>8
    <3>4. (dpc # "packed" => part' = 0)
      BY <1>8
    <3>5. dpc = "relay" \/ part' # 0 => Aligned(ptr)'
      BY <2>1, <1>6, <1>8 DEF Aligned
    <3>6. (dpc = "large" => (len - 1) % LargeSpan = 0)'
      BY <2>3, <2>4, <1>3 DEF LargeSpan
    <3> QED
      BY <3>1, <3>2, <3>3, <3>4, <3>5, <3>6, <2>4 DEF Executes
  <2>8. p <= f
    BY <2>1, <1>4, <1>6
  <2>9. Dispatcher(base, end, par, W)'
    BY <2>1, <2>2, <2>3, <2>4, <2>5, <2>6, <2>7, <2>8, <1>4, AtUnits
  <2> QED
    BY <2>1, <2>2, <2>3, <2>4, <2>8, <2>9, <1>4, <1>6
<1> QED
  BY <1>7, <1>8

\* A step that issues a NOC write of x units.
LEMMA WritePreserves ==
    ASSUME IInv, NEW base \in Nat, NEW wr \in Nat, NEW end \in Nat, NEW hi \in Nat, NEW W, Inside(base, wr, end, W, hi),
           UNCHANGED <<lengths, ppc, upSem, wrPtr, pcmd, job, scratch, reading, toggle, outbox>>,
           UNCHANGED <<seen, fence, block, prev, delivered, credits, ring>>,
           dpc \in Executing, ~InPad, NEW x \in Nat, x >= 1, x <= left, ptr + x <= fence, IssueWrite(x),
           left' = left - x, got' = FALSE,
           IF left = x THEN EndCmd(ptr + x) ELSE ptr' = ptr + x /\ UNCHANGED <<dpc, dcmd, len>>,
           NEW z \in Nat, z = part', left = x => z = 0,
           left # x => /\ dpc = "packed" => z < XferSize /\ ((left - x) + z) % XferSize = 0
                       /\ dpc # "packed" => z = 0
                       /\ dpc = "relay" \/ z # 0 => Aligned(ptr + x)
    PROVE  IInv'
<1>1. Types /\ HalvesApart /\ Unsent
  BY DEF IInv
<1>2. PICK par : par = NextParity
  OBVIOUS
<1>3. Dispatcher(base, end, par, W) /\ Aligned(fence)
  BY <1>2 DEF Inside, Space
<1>4. BlockStart <= ptr + x
  <2>1. BlockStart <= ptr
    BY <1>3 DEF Dispatcher, Executes
  <2>2. BlockStart \in Nat /\ ptr \in Nat
    BY <1>1, BlockIs, DispatcherTypes
  <2> QED
    BY <2>1, <2>2
<1>5. /\ Dispatcher(base, end, par, W)'
      /\ \E p \in Nat : p = ptr' /\ ptr + x <= p /\ p <= fence
      /\ dpc' \in {"cmd"} \cup Executing /\ dcmd' \in 0 .. 1 /\ len' \in Nat /\ left' \in Nat
  BY <1>1, <1>3, <1>4, TakesUnits
<1>6. PICK p \in Nat : p = ptr' /\ ptr + x <= p /\ p <= fence
  BY <1>5
<1>7. dpc \notin {"releaseBlock", "waitAll", "out"} /\ dpc' \notin {"releaseBlock", "waitAll", "out"}
  BY <1>5 DEF Executing
<1>8. /\ Unsent' /\ since' \in 0 .. 1
      /\ unsent' \in Seq([src : Nat, n : Nat, cmd : 0 .. 1, first : Nat]) /\ Len(unsent') <= 1
  BY <1>1, <1>6, <1>7, Issued
<1>9. Types'
  <2>1. ptr' \in 0 .. RingSize
    BY <1>1, <1>6, DispatcherTypes
  <2>2. got' \in BOOLEAN /\ part' \in Nat
    OBVIOUS
  <2>3. dpc' \in {"cmd"} \cup Executing /\ dcmd' \in 0 .. 1 /\ len' \in Nat /\ left' \in Nat
    BY <1>5
  <2> QED
    BY <2>1, <2>2, <2>3, <1>1, <1>8 DEF Types
<1>10. Kept(base, ptr', wr, ring, ring')
  BY DEF Kept
<1>11. ptr <= ptr'
  <2>1. ptr <= p
    BY <1>1, <1>6, DispatcherTypes
  <2> QED
    BY <2>1, <1>6
<1>12. Dispatcher(base, end, par, W)' /\ Unsent'
  BY <1>5, <1>8
<1> QED
  BY <1>1, <1>2, <1>7, <1>9, <1>10, <1>11, <1>12, DispatcherInBlock

\* A transfer.
LEMMA TransferPreserves ==
    ASSUME IInv, Preamble = 0, Transfer, UNCHANGED lengths
    PROVE  IInv'
<1>1. Types
  BY DEF IInv
<1>inside. PICK base \in Nat, wr \in Nat, end \in Nat, hi \in Nat : \E W : Inside(base, wr, end, W, hi)
  BY DEF IInv
<1>2. PICK W : Inside(base, wr, end, W, hi)
  BY <1>inside
<1>3. /\ dpc \in Executing /\ ~InPad /\ (got \/ ~NeedsPage) /\ IssueWrite(XferNow) /\ left' = left - XferNow
      /\ IF left = XferNow THEN EndCmd(ptr + XferNow) ELSE ptr' = ptr + XferNow /\ UNCHANGED <<dpc, dcmd, len>>
      /\ part' = 0 /\ got' = FALSE
      /\ UNCHANGED <<lengths, ppc, upSem, wrPtr, pcmd, job, scratch, reading, toggle, outbox>>
      /\ UNCHANGED <<seen, fence, block, prev, delivered, credits, ring>>
  BY DEF Transfer, Executing, prefetchVars
<1>4. ptr <= fence /\ (got => ~NeedsPage) /\ Executes
  BY <1>2, <1>3 DEF Inside, Dispatcher
<1>5. /\ XferNow \in Nat /\ XferNow >= 1 /\ XferNow <= left /\ ptr + XferNow <= fence
      /\ dpc = "relay" => XferNow = left \/ XferNow = PageSize
      /\ dpc = "packed" => XferNow = XferSize - part
  BY <1>1, <1>3, <1>4, XferIs
<1>6. PICK x \in Nat : x = XferNow
  BY <1>5
<1>7. PICK z \in Nat : z = 0
  OBVIOUS
<1>8. /\ left \in Nat /\ part \in Nat /\ ptr \in Nat /\ left >= 1 /\ XferSize \in Nat /\ XferSize >= 1
      /\ PageSize \in Nat /\ PageSize > 1
  BY <1>1, <1>4, DispatcherTypes, Sizes DEF Executes
<1>9. ASSUME dpc = "packed" PROVE z < XferSize /\ ((left - x) + z) % XferSize = 0
  <2>1. (left + part) % XferSize = 0 /\ part < XferSize
    BY <1>4, <1>9 DEF Executes
  <2>2. PICK t \in Nat : t = left + part /\ t >= 1
    BY <1>8
  <2>3. (t - XferSize) % XferSize = 0
    BY <2>1, <2>2, <1>8, OneLess
  <2>4. (left - x) + z = t - XferSize
    BY <2>2, <1>5, <1>6, <1>7, <1>8, <1>9
  <2> QED
    BY <2>3, <2>4, <1>7, <1>8
<1>10. ASSUME dpc = "relay", left # x PROVE Aligned(ptr + x)
  <2>1. Aligned(ptr) /\ x = PageSize
    BY <1>4, <1>5, <1>6, <1>10 DEF Executes
  <2>2. Aligned(PageSize)
    BY <1>8, UnitsOf, AlignedIs
  <2> QED
    BY <2>1, <2>2, <1>8, AlignedSum
<1>11. IssueWrite(x) /\ left' = left - x /\ x >= 1 /\ x <= left /\ ptr + x <= fence /\ z = part'
  BY <1>3, <1>5, <1>6, <1>7
<1>12. IF left = x THEN EndCmd(ptr + x) ELSE ptr' = ptr + x /\ UNCHANGED <<dpc, dcmd, len>>
  BY <1>3, <1>6
<1>13. left # x => /\ dpc = "packed" => z < XferSize /\ ((left - x) + z) % XferSize = 0
                   /\ dpc # "packed" => z = 0
                   /\ dpc = "relay" \/ z # 0 => Aligned(ptr + x)
  BY <1>7, <1>9, <1>10
<1>14. left = x => z = 0
  BY <1>7
<1>15. /\ dpc \in Executing /\ ~InPad /\ got' = FALSE
       /\ UNCHANGED <<lengths, ppc, upSem, wrPtr, pcmd, job, scratch, reading, toggle, outbox>>
       /\ UNCHANGED <<seen, fence, block, prev, delivered, credits, ring>>
  BY <1>3
<1> QED
  BY <1>2, <1>11, <1>12, <1>13, <1>14, <1>15, WritePreserves

\* What is left of a packed write at the end of a block is written.
LEMMA OrphanWritePreserves ==
    ASSUME IInv, Preamble = 0, OrphanWrite, UNCHANGED lengths
    PROVE  IInv'
<1>1. Types
  BY DEF IInv
<1>inside. PICK base \in Nat, wr \in Nat, end \in Nat, hi \in Nat : \E W : Inside(base, wr, end, W, hi)
  BY DEF IInv
<1>2. PICK W : Inside(base, wr, end, W, hi)
  BY <1>inside
<1>3. /\ NeedsPage /\ ~got /\ ptr # fence /\ dpc \in {"packed", "relay"} /\ IssueWrite(fence - ptr)
      /\ part' = fence - ptr /\ left' = left - (fence - ptr) /\ ptr' = fence
      /\ UNCHANGED <<lengths, ppc, upSem, wrPtr, pcmd, job, scratch, reading, toggle, outbox>>
      /\ UNCHANGED <<dpc, dcmd, len, got>> /\ UNCHANGED <<seen, fence, block, prev, delivered, credits, ring>>
  BY DEF OrphanWrite, Starved, prefetchVars
<1>4. ptr <= fence /\ Executes /\ Aligned(fence)
  BY <1>2, <1>3 DEF Inside, Dispatcher, Executing, Space
<1>5. dpc = "packed" /\ part = 0 /\ ptr + XferSize - part > fence
  BY <1>1, <1>3, <1>4, Lacks
<1>6. /\ left \in Nat /\ ptr \in Nat /\ fence \in Nat /\ left >= 1 /\ XferSize \in Nat /\ XferSize >= 1
  BY <1>1, <1>4, DispatcherTypes, Sizes DEF Executes
<1>7. PICK x \in Nat : x = fence - ptr /\ x >= 1 /\ x < XferSize
  BY <1>3, <1>4, <1>5, <1>6
<1>8. left % XferSize = 0
  <2>1. (left + part) % XferSize = 0
    BY <1>4, <1>5 DEF Executes
  <2>2. left + part = left
    BY <1>5, <1>6
  <2> QED
    BY <2>1, <2>2
<1>9. left >= XferSize
  BY <1>6, <1>8, OneLess
<1>10. left # x /\ x <= left /\ (left - x) + x = left /\ ptr + x = fence /\ ptr + x <= fence
  BY <1>6, <1>7, <1>9
<1>11. IssueWrite(x) /\ left' = left - x /\ ptr' = ptr + x /\ x = part'
  BY <1>3, <1>7, <1>10
<1>12. IF left = x THEN EndCmd(ptr + x) ELSE ptr' = ptr + x /\ UNCHANGED <<dpc, dcmd, len>>
  BY <1>3, <1>10, <1>11
<1>13. left # x => /\ dpc = "packed" => x < XferSize /\ ((left - x) + x) % XferSize = 0
                   /\ dpc # "packed" => x = 0
                   /\ dpc = "relay" \/ x # 0 => Aligned(ptr + x)
  BY <1>4, <1>5, <1>7, <1>8, <1>10
<1>14. dpc \in Executing /\ ~InPad
  BY <1>5 DEF Executing, InPad
<1>15. got' = FALSE
  BY <1>1, <1>3 DEF Types
<1>16. /\ UNCHANGED <<lengths, ppc, upSem, wrPtr, pcmd, job, scratch, reading, toggle, outbox>>
       /\ UNCHANGED <<seen, fence, block, prev, delivered, credits, ring>>
  BY <1>3
<1> QED
  BY <1>2, <1>7, <1>10, <1>11, <1>12, <1>13, <1>14, <1>15, <1>16, WritePreserves

\* The ring changes between ptr and q only.
Cleared(q) == \A a \in 0 .. RingSize - 1 : ~(ptr <= a /\ a < q) => ring'[a] = ring[a]

\* What comes later stays in the ring when units that are taken are cleared ...
LEMMA ClearedKeeps ==
    ASSUME Types, NEW base \in Nat, NEW wr \in Nat, NEW end \in Nat, NEW hi \in Nat, NEW W, Inside(base, wr, end, W, hi),
           NEW q \in Nat, Cleared(q), NEW p \in Nat, q <= p
    PROVE  Kept(base, p, wr, ring, ring')
<1>1. /\ ptr \in Nat /\ RingSize \in Nat /\ wr <= base + ptr + RingSize /\ wr <= base + RingSize + RingSize
  BY DispatcherTypes, Geometry
<1> SUFFICES ASSUME NEW v \in Nat, base + p <= v, v < wr PROVE ring'[At(base, v)] = ring[At(base, v)]
  BY DEF Kept
<1>2. PICK a : a = At(base, v)
  OBVIOUS
<1>3. a \in 0 .. RingSize - 1 /\ ~(ptr <= a /\ a < q)
  <2>1. PICK r \in Nat : r = ptr
    BY <1>1
  <2>2. PICK d \in Nat : v = base + d
    <3>1. v - base \in Nat /\ v = base + (v - base)
      OBVIOUS
    <3> QED
      BY <3>1
  <2>3. p <= d /\ d < r + RingSize /\ d < RingSize + RingSize
    BY <2>1, <2>2, <1>1
  <2>4. v - base = d
    BY <2>2
  <2>5. a = IF d < RingSize THEN d ELSE d - RingSize
    BY <2>4, <1>2 DEF At
  <2>6. a \in 0 .. RingSize - 1 /\ ~(r <= a /\ a < q)
    BY <2>3, <2>5, <1>1
  <2> QED
    BY <2>1, <2>6
<1> QED
  BY <1>2, <1>3 DEF Cleared

\* ... and so does what a NOC write has still to read.
LEMMA FenceBehind ==
    ASSUME Types, NEW base \in Nat, NEW wr \in Nat, NEW end \in Nat, NEW hi \in Nat, NEW W, Inside(base, wr, end, W, hi)
    PROVE  base + fence <= wr
<1>1. Units(delivered) \in Nat /\ base + fence + Units(delivered) <= hi /\ hi <= wr
  BY Geometry
<1> QED
  BY <1>1, DispatcherTypes

\* Clearing the units up to q leaves those alone that a NOC write is still to read ...
LEMMA ClearedReads ==
    ASSUME Types, Unsent, NEW base \in Nat, NEW wr \in Nat, NEW end \in Nat, NEW hi \in Nat, NEW W,
           Inside(base, wr, end, W, hi), NEW q \in Nat, q <= fence, Cleared(q), unsent # <<>>,
           NEW a \in 0 .. RingSize - 1, unsent[1].src <= a, a < unsent[1].src + unsent[1].n
    PROVE  ring'[a] = ring[a]
<1>1. ptr \in Nat /\ fence \in Nat /\ RingSize \in Nat /\ fence <= RingSize
  BY DispatcherTypes
<1>2. base + fence <= wr
  BY FenceBehind
<1>3. a \in Nat
  BY <1>1
<1>4. ASSUME ptr <= a, a < q PROVE FALSE
  <2>1. PICK v \in Nat : v = base + a
    BY <1>3
  <2>2. base + ptr <= v /\ v < wr /\ Place(base, v, a)
    BY <2>1, <1>1, <1>2, <1>3, <1>4 DEF Place
  <2> QED
    BY <2>2, <1>3, UnsentHeld
<1> QED
  BY <1>4 DEF Cleared

\* ... so what the invariant says of that write stays.
LEMMA ClearedUnsent ==
    ASSUME Types, Unsent, NEW base \in Nat, NEW wr \in Nat, NEW end \in Nat, NEW hi \in Nat, NEW W,
           Inside(base, wr, end, W, hi), NEW q \in Nat, q <= fence, Cleared(q), ptr <= ptr', ptr' \in Nat,
           UNCHANGED <<block, prev, since, unsent>>, dpc' \notin {"releaseBlock", "waitAll", "out"}
    PROVE  Unsent'
<1> SUFFICES ASSUME unsent # <<>> PROVE Unsent'
  BY DEF Unsent
<1>1. ptr \in Nat /\ unsent[1].src \in Nat /\ unsent[1].n \in Nat
  BY DispatcherTypes, UnsentIs
<1>2. PICK s \in Nat, m \in Nat : s = unsent[1].src /\ m = unsent[1].n
  BY <1>1
<1>3. s + m <= RingSize /\ (since = 1 \/ block # 0 => s + m <= ptr)
  BY <1>2 DEF Unsent
<1>4. ASSUME NEW k \in 0 .. m - 1 PROVE ring'[s + k] = ring[s + k]
  <2>1. PICK a : a = s + k
    OBVIOUS
  <2>2. a \in 0 .. RingSize - 1 /\ s <= a /\ a < s + m
    <3>1. s + m <= RingSize /\ RingSize \in Nat
      BY <1>3, Sizes
    <3> QED
      BY <3>1, <2>1
  <2>3. unsent[1].src <= a /\ a < unsent[1].src + unsent[1].n
    BY <2>2, <1>2
  <2> QED
    BY <2>1, <2>2, <2>3, ClearedReads
<1>5. \A k \in 0 .. m - 1 : ring'[s + k].cmd = unsent[1].cmd /\ ring'[s + k].idx = unsent[1].first + k
  <2>1. \A k \in 0 .. m - 1 : ring[s + k].cmd = unsent[1].cmd /\ ring[s + k].idx = unsent[1].first + k
    BY <1>2 DEF Unsent
  <2> QED
    BY <2>1, <1>4
<1>6. BlockStart' = BlockStart
  BY DEF BlockStart
<1>7. since = 1 \/ block # 0 => s + m <= ptr'
  <2>1. PICK p \in Nat, r \in Nat, t \in Nat : p = ptr' /\ r = ptr /\ t = s + m
    BY <1>1
  <2>2. r <= p
    BY <2>1
  <2>3. t <= r => t <= p
    BY <2>2
  <2> QED
    BY <2>1, <2>3, <1>3
<1>8. /\ unsent[1].n >= 1
      /\ since = 1 => BlockStart <= unsent[1].src
      /\ since = 0 => prev /\ IF block = 0 THEN RingSize - BlockSize <= unsent[1].src
                              ELSE BlockStart - BlockSize <= unsent[1].src /\ unsent[1].src + unsent[1].n <= BlockStart
  BY DEF Unsent
<1> QED
  BY <1>2, <1>3, <1>5, <1>6, <1>7, <1>8 DEF Unsent

\* A step that takes units from the ring without a NOC write.
LEMMA ClearPreserves ==
    ASSUME IInv, NEW base \in Nat, NEW wr \in Nat, NEW end \in Nat, NEW hi \in Nat, NEW W, Inside(base, wr, end, W, hi),
           UNCHANGED <<lengths, ppc, upSem, wrPtr, pcmd, job, scratch, reading, toggle, outbox>>,
           UNCHANGED <<seen, fence, block, prev, delivered, credits, since, unsent>>,
           dpc \notin {"releaseBlock", "waitAll", "out"}, dpc' \in {"cmd", "barrier"} \cup Executing,
           dcmd' \in 0 .. 1, len' \in Nat, left' \in Nat, part' \in Nat, got' = FALSE, DOMAIN ring' = 0 .. RingSize - 1,
           NEW q \in Nat, q <= fence, Cleared(q),
           \E p \in Nat : p = ptr' /\ ptr <= p /\ q <= p /\ p <= fence,
           NEW par, par = NextParity, Dispatcher(base, end, par, W)'
    PROVE  IInv'
<1>1. Types /\ HalvesApart /\ Unsent
  BY DEF IInv
<1>2. PICK p \in Nat : p = ptr' /\ ptr <= p /\ q <= p /\ p <= fence
  OBVIOUS
<1>3. dpc' \notin {"releaseBlock", "waitAll", "out"}
  BY DEF Executing
<1>4. ptr' \in Nat /\ ptr <= ptr'
  BY <1>2
<1>5. Unsent'
  BY <1>1, <1>3, <1>4, ClearedUnsent
<1>6. Kept(base, p, wr, ring, ring')
  BY <1>1, <1>2, ClearedKeeps
<1>7. p \in 0 .. RingSize
  <2>1. p <= fence
    BY <1>2
  <2>2. fence \in Nat /\ fence <= RingSize /\ RingSize \in Nat
    BY <1>1, DispatcherTypes
  <2> QED
    BY <2>1, <2>2
<1>8. Types'
  <2>1. ptr' \in 0 .. RingSize
    BY <1>2, <1>7
  <2>2. dpc' \in {"cmd"} \cup Executing \cup Ending
    BY DEF Ending
  <2>3. got' \in BOOLEAN
    OBVIOUS
  <2> QED
    BY <2>1, <2>2, <2>3, <1>1 DEF Types
<1>9. Kept(base, ptr', wr, ring, ring')
  BY <1>2, <1>6
<1> QED
  BY <1>1, <1>3, <1>4, <1>5, <1>8, <1>9, DispatcherInBlock

\* The padding behind a sub-command is skipped.
LEMMA SkipPadPreserves ==
    ASSUME IInv, SkipPad, UNCHANGED lengths
    PROVE  IInv'
<1>1. Types
  BY DEF IInv
<1>inside. PICK base \in Nat, wr \in Nat, end \in Nat, hi \in Nat : \E W : Inside(base, wr, end, W, hi)
  BY DEF IInv
<1>2. PICK W : Inside(base, wr, end, W, hi)
  BY <1>inside
<1>3. /\ InPad /\ (got \/ ~NeedsPage) /\ left' = left - pad_size
      /\ IF left = pad_size THEN EndCmd(ptr + pad_size) ELSE ptr' = ptr + pad_size /\ UNCHANGED <<dpc, dcmd, len>>
      /\ got' = FALSE /\ part' = part
      /\ ring' = [a \in DOMAIN ring |-> IF a >= ptr /\ a < ptr + pad_size THEN Junk ELSE ring[a]]
      /\ UNCHANGED <<lengths, ppc, upSem, wrPtr, pcmd, job, scratch, reading, toggle, outbox>>
      /\ UNCHANGED <<seen, fence, block, prev, delivered, credits, since, unsent>>
  BY DEF SkipPad, prefetchVars
<1>4. dpc = "large" /\ dpc \in Executing
  BY <1>3 DEF InPad, Executing
<1>5. PICK par : par = NextParity
  OBVIOUS
<1>6. Dispatcher(base, end, par, W) /\ Aligned(fence)
  BY <1>2, <1>5 DEF Inside, Space
<1>7. ptr <= fence /\ (got => ~NeedsPage) /\ Executes
  BY <1>4, <1>6 DEF Dispatcher
<1>8. ~(ptr + pad_size > fence)
  BY <1>3, <1>4, <1>7 DEF NeedsPage
<1>9. PICK x \in Nat : x = pad_size /\ x >= 1 /\ x <= left
  BY <1>1, <1>4, <1>7, PadIs
<1>10. ptr \in Nat /\ fence \in Nat /\ RingSize \in Nat /\ BlockStart \in Nat
  BY <1>1, DispatcherTypes, BlockIs
<1>11. ptr + x <= fence /\ BlockStart <= ptr + x
  <2>1. BlockStart <= ptr \/ ptr + x > BlockStart
    BY <1>3, <1>7, <1>9, <1>10 DEF Executes
  <2> QED
    BY <2>1, <1>8, <1>9, <1>10
<1>12. PICK z \in Nat : z = part' /\ z = 0
  BY <1>3, <1>4, <1>7 DEF Executes
<1>13. left' = left - x /\ ~got' /\ UNCHANGED <<fence, block, prev>>
  BY <1>3, <1>9
<1>14. IF left = x THEN EndCmd(ptr + x) ELSE ptr' = ptr + x /\ UNCHANGED <<dpc, dcmd, len>>
  BY <1>3, <1>9
<1>15. /\ Dispatcher(base, end, par, W)'
       /\ \E p \in Nat : p = ptr' /\ ptr + x <= p /\ p <= fence
       /\ dpc' \in {"cmd"} \cup Executing /\ dcmd' \in 0 .. 1 /\ len' \in Nat /\ left' \in Nat
  BY <1>1, <1>4, <1>6, <1>9, <1>11, <1>12, <1>13, <1>14, TakesUnits
<1>16. PICK q \in Nat : q = ptr + x
  BY <1>10
<1>17. DOMAIN ring = 0 .. RingSize - 1
  BY <1>1 DEF Types
<1>18. Cleared(q) /\ DOMAIN ring' = 0 .. RingSize - 1
  BY <1>3, <1>9, <1>10, <1>16, <1>17 DEF Cleared
<1>19. \E p \in Nat : p = ptr' /\ ptr <= p /\ q <= p /\ p <= fence
  <2>1. PICK p \in Nat : p = ptr' /\ ptr + x <= p /\ p <= fence
    BY <1>15
  <2>2. ptr <= p /\ q <= p
    BY <2>1, <1>10, <1>16
  <2> QED
    BY <2>1, <2>2
<1>20. /\ UNCHANGED <<lengths, ppc, upSem, wrPtr, pcmd, job, scratch, reading, toggle, outbox>>
       /\ UNCHANGED <<seen, fence, block, prev, delivered, credits, since, unsent>>
       /\ got' = FALSE /\ part' \in Nat /\ dpc \notin {"releaseBlock", "waitAll", "out"}
  BY <1>3, <1>4, <1>12
<1>21. q <= fence
  BY <1>11, <1>16
<1> QED
  BY <1>2, <1>5, <1>15, <1>18, <1>19, <1>20, <1>21, ClearPreserves

\* Where the dispatcher looks for a command and has a page, the header of the next one is.
LEMMA HeaderIs ==
    ASSUME Types, NEW base \in Nat, NEW wr \in Nat, NEW end \in Nat, NEW hi \in Nat, NEW W, Inside(base, wr, end, W, hi),
           dpc = "cmd", ptr # fence, NEW par, par = NextParity, NEW s, s = base + ptr
    PROVE  /\ ptr < fence /\ BlockStart <= ptr /\ Aligned(ptr) /\ base + fence <= end /\ ptr + PageSize <= fence
           /\ s \in DOMAIN W /\ ring[ptr] = W[s] /\ W[s].cmd = dcmd /\ W[s].idx = 0 /\ W[s].len \in Nat
           /\ CommandAt(W, end, par, s)
<1>1. ptr \in Nat /\ fence \in Nat /\ PageSize \in Nat
  BY DispatcherTypes
<1>2. ptr <= fence /\ BlockStart <= ptr /\ Aligned(ptr) /\ Begins(W, end, par, s, dcmd) /\ Aligned(fence)
  BY DEF Inside, Dispatcher, Space
<1>3. base + fence <= end
  <2>1. base + fence <= wr /\ wr <= end
    BY FenceBehind, Geometry
  <2> QED
    BY <2>1, <1>1
<1>4. ptr < fence /\ s # end /\ s \in Nat
  BY <1>1, <1>2, <1>3
<1>5. s \in DOMAIN W /\ W[s].cmd = dcmd /\ W[s].idx = 0
  BY <1>2, <1>4 DEF Begins
<1>6. W[s] \in Cell /\ CommandAt(W, end, par, s)
  BY <1>5 DEF Inside, Plan
<1>7. ring[ptr] = W[s]
  <2>1. PICK a \in Nat : a = ptr
    BY <1>1
  <2>2. ptr <= a /\ a < fence /\ s = base + a
    BY <2>1, <1>1, <1>4
  <2>3. ring[a] = W[s]
    <3>1. Types /\ Inside(base, wr, end, W, hi) /\ base \in Nat /\ wr \in Nat /\ end \in Nat /\ hi \in Nat
      OBVIOUS
    <3>2. a \in Nat /\ s \in DOMAIN W
      BY <1>5
    <3> QED
      BY ONLY <3>1, <3>2, <2>2, Acquired
  <2> QED
    BY <2>1, <2>2, <2>3
<1>8. W[s].len \in Nat
  BY <1>6 DEF Cell
<1>9. ptr + PageSize <= fence
  BY <1>1, <1>2, <1>4, AlignedSum
<1> QED
  BY <1>2, <1>3, <1>4, <1>5, <1>6, <1>7, <1>8, <1>9

\* The header of a command is read.
LEMMA BeginCmdPreserves ==
    ASSUME IInv, BeginCmd, UNCHANGED lengths
    PROVE  IInv'
<1>1. Types
  BY DEF IInv
<1>inside. PICK base \in Nat, wr \in Nat, end \in Nat, hi \in Nat : \E W : Inside(base, wr, end, W, hi)
  BY DEF IInv
<1>2. PICK W : Inside(base, wr, end, W, hi)
  BY <1>inside
<1>3. PICK n : n = ring[ptr].len
  OBVIOUS
<1>4. PICK kind \in Commands :
            /\ n # TerminateLen
            /\ kind = "packed" => (n - 1) % XferSize = 0
            /\ kind = "large" => (n - 1) % LargeSpan = 0
            /\ left' = IF kind = "relay" THEN n ELSE n - 1
            /\ ring' = IF kind = "relay" THEN ring ELSE [ring EXCEPT ![ptr] = Junk]
            /\ IF left' = 0 THEN EndCmd(ptr + 1)
               ELSE /\ ptr' = IF kind = "relay" THEN ptr ELSE ptr + 1
                    /\ dpc' = kind /\ len' = n /\ dcmd' = dcmd
  BY <1>3 DEF BeginCmd
<1>5. /\ dpc = "cmd" /\ (got \/ ~NeedsPage) /\ got' = FALSE /\ part' = part
      /\ UNCHANGED <<lengths, ppc, upSem, wrPtr, pcmd, job, scratch, reading, toggle, outbox>>
      /\ UNCHANGED <<seen, fence, block, prev, delivered, credits, since, unsent>>
  BY DEF BeginCmd, prefetchVars
<1>6. PICK par : par = NextParity
  OBVIOUS
<1>7. Dispatcher(base, end, par, W) /\ Aligned(base)
  BY <1>2, <1>6 DEF Inside, Space
<1>8. ptr # fence /\ part = 0
  BY <1>5, <1>7 DEF Dispatcher, NeedsPage, Executing
<1>9. PICK s \in Nat : s = base + ptr
  BY <1>1, DispatcherTypes
<1>10. /\ ptr < fence /\ BlockStart <= ptr /\ Aligned(ptr) /\ base + fence <= end /\ ptr + PageSize <= fence
       /\ s \in DOMAIN W /\ ring[ptr] = W[s] /\ W[s].cmd = dcmd /\ W[s].idx = 0 /\ W[s].len \in Nat
       /\ CommandAt(W, end, par, s)
  BY <1>1, <1>2, <1>5, <1>6, <1>8, <1>9, HeaderIs
<1>11. n \in Nat /\ n >= 1 /\ SizeOf(W[s]) = n
  BY <1>3, <1>4, <1>10 DEF SizeOf, TerminateLen
<1>12. /\ ptr \in Nat /\ fence \in Nat /\ RingSize \in Nat /\ BlockStart \in Nat /\ dcmd \in 0 .. 1 /\ fence <= RingSize
       /\ PageSize \in Nat /\ PageSize > 1
  BY <1>1, DispatcherTypes, BlockIs
<1>13. /\ \A i \in 0 .. n - 1 : s + i \in DOMAIN W /\ W[s + i].cmd = dcmd /\ W[s + i].idx = i
       /\ Begins(W, end, par, s + RoundUp(n), 1 - dcmd)
  BY <1>10, <1>11 DEF CommandAt
<1>14. kind \in Executing
  BY SizeAssumption DEF Executing
<1>15. PICK f \in Nat : f = fence' /\ f = fence
  BY <1>5, <1>12
<1>16. PICK b \in Nat : b = BlockStart' /\ b = BlockStart
  BY <1>5, <1>12 DEF BlockStart
<1>17. Begins(W, end, par, base + RoundUp(ptr + n), 1 - dcmd)
  <2>1. RoundUp(ptr + n) = ptr + RoundUp(n) /\ RoundUp(n) \in Nat
    BY <1>10, <1>11, <1>12, RoundUpFacts, RoundUpIs
  <2>2. base + RoundUp(ptr + n) = s + RoundUp(n)
    BY <2>1, <1>9, <1>12
  <2> QED
    BY <2>2, <1>13
<1>18. /\ UNCHANGED <<lengths, ppc, upSem, wrPtr, pcmd, job, scratch, reading, toggle, outbox>>
       /\ UNCHANGED <<seen, fence, block, prev, delivered, credits, since, unsent>>
       /\ got' = FALSE /\ part' \in Nat /\ dpc \notin {"releaseBlock", "waitAll", "out"}
  BY <1>5, <1>8
<1>19. PICK q \in Nat : q = ptr + 1
  BY <1>12
<1>20. Cleared(q) /\ DOMAIN ring' = 0 .. RingSize - 1
  <2>1. DOMAIN ring = 0 .. RingSize - 1
    BY <1>1 DEF Types
  <2>2. CASE kind = "relay"
    BY <2>1, <2>2, <1>4 DEF Cleared
  <2>3. CASE kind # "relay"
    <3>1. ring' = [ring EXCEPT ![ptr] = Junk]
      BY <2>3, <1>4
    <3> QED
      BY <3>1, <2>1, <1>12, <1>19 DEF Cleared
  <2> QED
    BY <2>2, <2>3
<1>21. q <= fence
  BY <1>10, <1>12, <1>19
<1>22. CASE left' = 0
  <2>1. n = 1 /\ EndCmd(ptr + 1)
    BY <1>4, <1>11, <1>22
  <2>2. dpc' = "cmd" /\ dcmd' = 1 - dcmd /\ len' = 0
    BY <2>1 DEF EndCmd
  <2>3. PICK c \in 0 .. 1 : c = dcmd' /\ c = 1 - dcmd
    BY <2>2, <1>12
  <2>4. PICK p \in Nat : p = ptr' /\ p = RoundUp(q) /\ q <= p /\ Aligned(p) /\ p <= f
    <3>1. ptr' = RoundUp(q)
      BY <2>1, <1>19 DEF EndCmd
    <3>2. RoundUp(q) \in Nat /\ q <= RoundUp(q) /\ Aligned(RoundUp(q))
      BY RoundUpIs
    <3>3. q <= f /\ Aligned(f)
      BY <1>2, <1>15, <1>21 DEF Inside, Space
    <3>4. RoundUp(q) <= f
      BY <3>3, RoundUpFacts
    <3> QED
      BY <3>1, <3>2, <3>4
  <2>5. Begins(W, end, par, base + p, c)
    BY <2>1, <2>3, <2>4, <1>17, <1>19
  <2>6. BlockStart' <= ptr'
    <3>1. b <= p
      BY <2>4, <1>10, <1>12, <1>16, <1>19
    <3> QED
      BY <3>1, <2>4, <1>16
  <2>7. ~got' /\ part' = 0
    BY <1>5, <1>8
  <2>8. Dispatcher(base, end, par, W)'
    BY <2>2, <2>3, <2>4, <2>5, <2>6, <2>7, <1>15, <1>22, AtCommand
  <2>9. \E r \in Nat : r = ptr' /\ ptr <= r /\ q <= r /\ r <= fence
    <3>1. ptr <= p /\ q <= p /\ p <= fence
      BY <2>4, <1>12, <1>15, <1>19
    <3> QED
      BY <3>1, <2>4
  <2>10. dpc' \in {"cmd", "barrier"} \cup Executing /\ dcmd' \in 0 .. 1 /\ len' \in Nat /\ left' \in Nat
    BY <2>2, <2>3, <1>22
  <2> QED
    BY <2>8, <2>9, <2>10, <1>2, <1>6, <1>18, <1>20, <1>21, ClearPreserves
<1>23. CASE left' # 0 /\ kind # "relay"
  <2>1. /\ dpc' = kind /\ len' = n /\ dcmd' = dcmd /\ ptr' = ptr + 1 /\ left' = n - 1
    BY <1>4, <1>23
  <2>2. PICK c \in 0 .. 1 : c = dcmd' /\ c = dcmd
    BY <2>1, <1>12
  <2>3. PICK l \in Nat : l = left' /\ l = n - 1 /\ l >= 1
    <3>1. n - 1 # 0
      BY <2>1, <1>23
    <3> QED
      BY <3>1, <2>1, <1>11
  <2>4. PICK p \in Nat : p = ptr' /\ p = q
    BY <2>1, <1>19
  <2>5. Rest(W, base + p, l, c, n)
    <3> SUFFICES ASSUME NEW j \in 0 .. l - 1
                 PROVE  base + p + j \in DOMAIN W /\ W[base + p + j].cmd = c /\ W[base + p + j].idx = n - l + j
      BY DEF Rest
    <3>1. PICK i \in Nat : i = 1 + j
      OBVIOUS
    <3>2. i \in 0 .. n - 1 /\ base + p + j = s + i /\ n - l + j = i
      BY <3>1, <2>3, <2>4, <1>9, <1>11, <1>12, <1>19
    <3> QED
      BY <3>2, <2>2, <1>13
  <2>6. Begins(W, end, par, base + RoundUp(p + l), 1 - c)
    <3>1. p + l = ptr + n
      BY <2>3, <2>4, <1>11, <1>12, <1>19
    <3> QED
      BY <3>1, <2>2, <1>17
  <2>7. p <= f
    BY <2>4, <1>15, <1>21
  <2>8. Executes'
    <3>1. BlockStart' <= ptr' /\ ~(ptr' < BlockStart')
      <4>1. b <= p /\ ~(p < b)
        BY <2>4, <1>10, <1>12, <1>16, <1>19
      <4> QED
        BY <4>1, <2>4, <1>16
    <3>2. left' >= 1 /\ left' <= len' /\ left' < len'
      <4>1. l >= 1 /\ l <= n /\ l < n
        BY <2>3, <1>11
      <4> QED
        BY <4>1, <2>1, <2>3
    <3>3. part' = 0
      BY <1>5, <1>8
    <3>4. dpc' = "packed" => part' < XferSize /\ (left' + part') % XferSize = 0
      <4>1. l + 0 = l /\ 0 < XferSize
        BY Sizes
      <4>2. kind = "packed" => l % XferSize = 0
        BY <2>3, <1>4
      <4> QED
        BY <4>1, <4>2, <3>3, <2>1, <2>3
    <3>5. (dpc = "large" => (len - 1) % LargeSpan = 0)'
      BY <2>1, <1>4 DEF LargeSpan
    <3>6. dpc' # "relay"
      BY <2>1, <1>23
    <3> QED
      BY <3>1, <3>2, <3>3, <3>4, <3>5, <3>6 DEF Executes
  <2>9. dpc' \in Executing /\ ~got'
    BY <2>1, <1>5, <1>14
  <2>10. Dispatcher(base, end, par, W)'
    BY <2>1, <2>2, <2>3, <2>4, <2>5, <2>6, <2>7, <2>8, <2>9, <1>11, <1>15, AtUnits
  <2>11. \E r \in Nat : r = ptr' /\ ptr <= r /\ q <= r /\ r <= fence
    <3>1. ptr <= p /\ q <= p /\ p <= fence
      BY <2>4, <1>12, <1>19, <1>21
    <3> QED
      BY <3>1, <2>4
  <2>12. dpc' \in {"cmd", "barrier"} \cup Executing /\ dcmd' \in 0 .. 1 /\ len' \in Nat /\ left' \in Nat
    BY <2>1, <2>2, <2>3, <2>9, <1>11
  <2> QED
    BY <2>10, <2>11, <2>12, <1>2, <1>6, <1>18, <1>20, <1>21, ClearPreserves
<1>24. CASE left' # 0 /\ kind = "relay"
  <2>1. /\ dpc' = "relay" /\ len' = n /\ dcmd' = dcmd /\ ptr' = ptr /\ left' = n /\ ring' = ring
    BY <1>4, <1>24
  <2>2. PICK c \in 0 .. 1 : c = dcmd' /\ c = dcmd
    BY <2>1, <1>12
  <2>3. PICK p \in Nat : p = ptr' /\ p = ptr
    BY <2>1, <1>12
  <2>4. Rest(W, base + p, n, c, n)
    <3> SUFFICES ASSUME NEW j \in 0 .. n - 1
                 PROVE  base + p + j \in DOMAIN W /\ W[base + p + j].cmd = c /\ W[base + p + j].idx = n - n + j
      BY DEF Rest
    <3>1. base + p + j = s + j /\ n - n + j = j
      BY <2>3, <1>9, <1>11, <1>12
    <3> QED
      BY <3>1, <2>2, <1>13
  <2>5. Begins(W, end, par, base + RoundUp(p + n), 1 - c)
    BY <2>2, <2>3, <1>17
  <2>6. p <= f
    BY <2>3, <1>10, <1>12, <1>15
  <2>7. Executes'
    <3>1. BlockStart' <= ptr' /\ ~(ptr' < BlockStart')
      <4>1. b <= p /\ ~(p < b)
        BY <2>3, <1>10, <1>12, <1>16
      <4> QED
        BY <4>1, <2>3, <1>16
    <3>2. left' >= 1 /\ left' <= len'
      BY <2>1, <1>11
    <3>3. part' = 0
      BY <1>5, <1>8
    <3>4. Aligned(ptr)'
      BY <2>1, <1>10 DEF Aligned
    <3>5. dpc' = "relay"
      BY <2>1
    <3> QED
      BY <3>1, <3>2, <3>3, <3>4, <3>5 DEF Executes
  <2>8. dpc' \in Executing /\ ~got'
    BY <2>1, <1>5 DEF Executing
  <2>9. Dispatcher(base, end, par, W)'
    BY <2>1, <2>2, <2>3, <2>4, <2>5, <2>6, <2>7, <2>8, <1>11, <1>15, AtUnits
  <2>10. PICK y \in Nat : y = ptr
    BY <1>12
  <2>11. Cleared(y)
    BY <2>1 DEF Cleared
  <2>12. \E r \in Nat : r = ptr' /\ ptr <= r /\ y <= r /\ r <= fence
    BY <2>3, <2>6, <2>10, <1>15
  <2>13. dpc' \in {"cmd", "barrier"} \cup Executing /\ dcmd' \in 0 .. 1 /\ len' \in Nat /\ left' \in Nat
    BY <2>1, <2>2, <2>8, <1>11
  <2>14. y <= fence
    BY <2>10, <1>10, <1>12
  <2> QED
    BY <2>9, <2>11, <2>12, <2>13, <2>14, <1>2, <1>6, <1>18, <1>20, ClearPreserves
<1> QED
  BY <1>22, <1>23, <1>24

\* The terminate is read: nothing comes behind it.
LEMMA BeginTerminatePreserves ==
    ASSUME IInv, BeginTerminate, UNCHANGED lengths
    PROVE  IInv'
<1>1. Types
  BY DEF IInv
<1>inside. PICK base \in Nat, wr \in Nat, end \in Nat, hi \in Nat : \E W : Inside(base, wr, end, W, hi)
  BY DEF IInv
<1>2. PICK W : Inside(base, wr, end, W, hi)
  BY <1>inside
<1>3. /\ dpc = "cmd" /\ (got \/ ~NeedsPage) /\ ring[ptr].len = TerminateLen /\ dpc' = "barrier" /\ ptr' = ptr + 1
      /\ ring' = [ring EXCEPT ![ptr] = Junk] /\ got' = FALSE /\ UNCHANGED <<dcmd, len, left, part>>
      /\ UNCHANGED <<lengths, ppc, upSem, wrPtr, pcmd, job, scratch, reading, toggle, outbox>>
      /\ UNCHANGED <<seen, fence, block, prev, delivered, credits, since, unsent>>
  BY DEF BeginTerminate, prefetchVars
<1>4. PICK par : par = NextParity
  OBVIOUS
<1>5. Dispatcher(base, end, par, W) /\ Prefetcher(base, wr, end, W, hi) /\ Aligned(fence)
  BY <1>2, <1>4 DEF Inside, Space
<1>6. ptr # fence /\ part = 0 /\ left = 0
  BY <1>3, <1>5 DEF Dispatcher, NeedsPage, Executing
<1>7. PICK s \in Nat : s = base + ptr
  BY <1>1, DispatcherTypes
<1>8. /\ ptr < fence /\ BlockStart <= ptr /\ Aligned(ptr) /\ base + fence <= end /\ ptr + PageSize <= fence
      /\ s \in DOMAIN W /\ ring[ptr] = W[s] /\ W[s].cmd = dcmd /\ W[s].idx = 0 /\ W[s].len \in Nat
      /\ CommandAt(W, end, par, s)
  BY <1>1, <1>2, <1>3, <1>4, <1>6, <1>7, HeaderIs
<1>9. W[s].len = TerminateLen
  BY <1>3, <1>8
<1>10. s + PageSize = end
  BY <1>8, <1>9 DEF CommandAt
<1>11. ppc \in Last
  BY <1>5, <1>8, <1>9 DEF Prefetcher
<1>12. /\ ptr \in Nat /\ fence \in Nat /\ RingSize \in Nat /\ BlockStart \in Nat /\ dcmd \in 0 .. 1 /\ fence <= RingSize
       /\ PageSize \in Nat /\ PageSize > 1 /\ len \in Nat
  BY <1>1, DispatcherTypes, BlockIs
<1>13. fence = ptr + PageSize /\ base + fence = end
  BY <1>7, <1>8, <1>10, <1>12
<1>14. PICK q \in Nat : q = ptr + 1
  BY <1>12
<1>15. PICK f \in Nat : f = fence' /\ f = fence
  BY <1>3, <1>12
<1>16. PICK p \in Nat : p = ptr' /\ p = q
  BY <1>3, <1>14
<1>17. RoundUp(p) = f /\ p <= f
  <2>1. q <= f /\ f < q + PageSize /\ Aligned(f)
    BY <1>5, <1>12, <1>13, <1>14, <1>15
  <2> QED
    BY <2>1, <1>16, RoundUpUnique
<1>18. BlockStart' <= ptr'
  <2>1. PICK b \in Nat : b = BlockStart' /\ b = BlockStart
    BY <1>3, <1>12 DEF BlockStart
  <2>2. b <= p
    BY <2>1, <1>8, <1>12, <1>14, <1>16
  <2> QED
    BY <2>1, <2>2, <1>16
<1>19. Dispatcher(base, end, par, W)'
  <2>1. dpc' \in Ending /\ dpc' = "barrier" /\ left' = 0 /\ part' = 0 /\ ~got'
    BY <1>3, <1>6 DEF Ending
  <2>2. ppc' \in Last
    BY <1>3, <1>11
  <2>3. base + f = end
    BY <1>13, <1>15
  <2> QED
    BY <2>1, <2>2, <2>3, <1>15, <1>16, <1>17, <1>18, AtEnd
<1>20. Cleared(q) /\ DOMAIN ring' = 0 .. RingSize - 1
  <2>1. DOMAIN ring = 0 .. RingSize - 1
    BY <1>1 DEF Types
  <2> QED
    BY <2>1, <1>3, <1>12, <1>14 DEF Cleared
<1>21. q <= fence /\ \E r \in Nat : r = ptr' /\ ptr <= r /\ q <= r /\ r <= fence
  <2>1. q <= fence /\ ptr <= p /\ q <= p /\ p <= fence
    BY <1>8, <1>12, <1>14, <1>16
  <2> QED
    BY <2>1, <1>16
<1>22. /\ UNCHANGED <<lengths, ppc, upSem, wrPtr, pcmd, job, scratch, reading, toggle, outbox>>
       /\ UNCHANGED <<seen, fence, block, prev, delivered, credits, since, unsent>>
       /\ got' = FALSE /\ part' \in Nat /\ dpc \notin {"releaseBlock", "waitAll", "out"}
       /\ dpc' \in {"cmd", "barrier"} \cup Executing /\ dcmd' \in 0 .. 1 /\ len' \in Nat /\ left' \in Nat
  BY <1>3, <1>6, <1>12
<1> QED
  BY <1>2, <1>4, <1>19, <1>20, <1>21, <1>22, ClearPreserves

\* No NOC write is under way once the dispatcher's write barrier is passed.
LEMMA NothingUnsent ==
    ASSUME Unsent, dpc \in {"releaseBlock", "waitAll", "out"}
    PROVE  unsent = <<>>
BY DEF Unsent

\* The pages add up after a step of the dispatcher that gives back what it no longer holds.
LEMMA Balance ==
    ASSUME Types, NEW base \in Nat, NEW wr \in Nat, NEW end \in Nat, NEW hi \in Nat, NEW W, Inside(base, wr, end, W, hi),
           NEW base1 \in Nat, NEW f1 \in Nat, NEW t \in Nat, NEW h1 \in Nat,
           t + h1 + base + fence = Units(credits) + HeldUnits + base1 + f1
    PROVE  hi + Units(job.release) + Units(upSem) + t + h1 = base1 + f1 + RingSize
<1>1. /\ Units(job.release) \in Nat /\ Units(upSem) \in Nat /\ Units(credits) \in Nat /\ HeldUnits \in Nat
      /\ hi + Units(job.release) + Units(upSem) + Units(credits) + HeldUnits = base + fence + RingSize
  BY Geometry
<1>2. RingSize \in Nat /\ fence \in Nat
  BY DispatcherTypes
<1> QED
  BY <1>1, <1>2

\* The fence after the step, the units on their way back and those that are held.
Will(f1, t, h1) == f1 = fence' /\ t = Units(credits') /\ h1 = HeldUnits'

\* The same for the invariant on the pages.
LEMMA SpaceNext ==
    ASSUME Types, NEW base \in Nat, NEW wr \in Nat, NEW end \in Nat, NEW hi \in Nat, NEW W, Inside(base, wr, end, W, hi),
           NEW base1 \in Nat, UNCHANGED <<job, upSem>>, NEW f1 \in Nat, NEW t \in Nat, NEW h1 \in Nat, Will(f1, t, h1),
           t + h1 + base + fence = Units(credits) + HeldUnits + base1 + f1,
           Aligned(base1), Aligned(f1), BlockStart' <= fence', fence' <= block_end'
    PROVE  Space(base1, hi)'
<1>1. hi + Units(job.release) + Units(upSem) + t + h1 = base1 + f1 + RingSize
  BY Balance
<1>2. (hi + Units(job.release) + Units(upSem) + Units(credits) + HeldUnits = base1 + fence + RingSize)'
  BY <1>1 DEF Units, Will
<1>3. (Aligned(base1) /\ Aligned(fence))'
  BY DEF Aligned, Will
<1> QED
  BY <1>2, <1>3 DEF Space

\* The pages of a block are given back if there is one before the current.
LEMMA BlockReleased ==
    ASSUME Types, credits' = IF prev THEN credits + BlockPages ELSE credits
    PROVE  /\ credits' \in Nat
           /\ \E t \in Nat : t = Units(credits') /\ t = Units(credits) + IF prev THEN BlockSize ELSE 0
<1>1. credits \in Nat /\ BlockPages \in Nat /\ BlockSize = Units(BlockPages) /\ BlockSize \in Nat
  BY Sizes DEF Types
<1>2. (\A a, b \in Nat : Units(a + b) = Units(a) + Units(b)) /\ (\A a \in Nat : Units(a) \in Nat)
  BY UnitsOf
<1>3. CASE prev
  <2>1. PICK c \in Nat : c = credits + BlockPages
    BY <1>1
  <2>2. Units(c) = Units(credits) + BlockSize /\ Units(c) \in Nat
    BY <2>1, <1>1, <1>2
  <2>3. credits' = c
    BY <2>1, <1>3
  <2> QED
    BY <2>2, <2>3, <1>3
<1>4. CASE ~prev
  <2>1. Units(credits) \in Nat /\ credits' = credits
    BY <1>1, <1>2, <1>4
  <2>2. Units(credits) + 0 = Units(credits)
    BY <2>1
  <2> QED
    BY <2>1, <2>2, <1>1, <1>4
<1> QED
  BY <1>3, <1>4

\* After the terminate: the block before the current one is given back.
LEMMA TerminatePreserves ==
    ASSUME IInv, Terminate, UNCHANGED lengths
    PROVE  IInv'
<1>1. Types /\ HalvesApart /\ Unsent
  BY DEF IInv
<1>inside. PICK base \in Nat, wr \in Nat, end \in Nat, hi \in Nat : \E W : Inside(base, wr, end, W, hi)
  BY DEF IInv
<1>2. PICK W : Inside(base, wr, end, W, hi)
  BY <1>inside
<1>3. /\ dpc = "barrier" /\ unsent = <<>> /\ ptr' = RoundUp(ptr) /\ dpc' = "releaseBlock" /\ prev' = TRUE /\ since' = 0
      /\ credits' = (IF prev THEN credits + BlockPages ELSE credits)
      /\ UNCHANGED <<lengths, ppc, upSem, wrPtr, pcmd, job, scratch, reading, toggle, outbox>>
      /\ UNCHANGED <<seen, fence, block, got, dcmd, len, left, part, unsent, delivered, ring>>
  BY DEF Terminate, cb_block_release_pages, prefetchVars
<1>4. PICK par : par = NextParity
  OBVIOUS
<1>5. Dispatcher(base, end, par, W) /\ Space(base, hi) /\ Aligned(fence)
  BY <1>2, <1>4 DEF Inside, Space
<1>6. /\ ppc \in Last /\ ~got /\ base + fence = end /\ RoundUp(ptr) = fence /\ BlockStart <= ptr /\ ptr <= fence
      /\ left = 0 /\ part = 0
  BY <1>3, <1>5 DEF Dispatcher, Ending, Executing
<1>7. ptr \in Nat /\ fence \in Nat /\ fence <= RingSize /\ BlockStart \in Nat /\ RingSize \in Nat
  BY <1>1, DispatcherTypes, BlockIs
<1>8. PICK f \in Nat : f = fence' /\ f = fence /\ f = ptr'
  BY <1>3, <1>6, <1>7
<1>9. RoundUp(f) = f
  BY <1>5, <1>8, RoundUpFacts
<1>10. BlockStart' <= ptr'
  <2>1. PICK b \in Nat : b = BlockStart' /\ b = BlockStart
    BY <1>3, <1>7 DEF BlockStart
  <2>2. b <= f
    BY <2>1, <1>6, <1>7, <1>8
  <2> QED
    BY <2>1, <2>2, <1>8
<1>11. Dispatcher(base, end, par, W)'
  <2>1. dpc' \in Ending /\ left' = 0 /\ part' = 0 /\ ~got' /\ prev'
    BY <1>3, <1>6 DEF Ending
  <2>2. ppc' \in Last
    BY <1>3, <1>6
  <2>3. base + f = end /\ f <= f
    <3>1. f = fence
      BY <1>8
    <3> QED
      BY <3>1, <1>6
  <2> QED
    BY <2>1, <2>2, <2>3, <1>8, <1>9, <1>10, AtEnd
<1>12. PICK t \in Nat : t = Units(credits') /\ t = Units(credits) + IF prev THEN BlockSize ELSE 0
  BY <1>1, <1>3, BlockReleased
<1>19. credits' \in Nat
  BY <1>1, <1>3, BlockReleased
<1>13. Types'
  <2>1. ptr' \in 0 .. RingSize
    BY <1>7, <1>8
  <2>2. dpc' \in {"cmd"} \cup Executing \cup Ending /\ since' \in 0 .. 1 /\ prev' \in BOOLEAN
    BY <1>3 DEF Ending
  <2> QED
    BY <2>1, <2>2, <1>1, <1>3, <1>19 DEF Types
<1>14. Unsent'
  BY <1>3 DEF Unsent
<1>15. Space(base, hi)'
  <2>1. HeldUnits = fence - BlockStart + IF prev THEN BlockSize ELSE 0
    BY <1>3 DEF HeldUnits
  <2>2. PICK d \in Nat : d = IF prev THEN BlockSize ELSE 0
    BY Sizes
  <2>3. PICK h1 \in Nat : h1 = fence - BlockStart
    BY <1>6, <1>7
  <2>4. h1 = HeldUnits'
    <3>1. HeldUnits' = fence - BlockStart + 0
      BY <1>3 DEF HeldUnits, BlockStart
    <3> QED
      BY <3>1, <2>3
  <2>5. Units(credits) \in Nat
    BY <1>1, <1>2, Geometry
  <2>6. t + h1 + base + fence = Units(credits) + HeldUnits + base + f
    <3>1. f = fence /\ t = Units(credits) + d /\ HeldUnits = h1 + d
      BY <2>1, <2>2, <2>3, <1>8, <1>12
    <3> QED
      BY <3>1, <2>5, <1>7
  <2>7. Aligned(base) /\ Aligned(f) /\ BlockStart' <= fence' /\ fence' <= block_end'
    BY <1>3, <1>5, <1>8 DEF Space, BlockStart, block_end
  <2>8. Will(f, t, h1) /\ UNCHANGED <<job, upSem>>
    BY <2>4, <1>3, <1>8, <1>12 DEF Will
  <2> QED
    BY <2>6, <2>7, <2>8, <1>1, <1>2, SpaceNext
<1>16. Channel(outbox, scratch, ring', base, base + ptr', wr, W, base + fence' + Units(delivered'), hi)
  <2>1. PICK from \in Nat, from1 \in Nat : from = base + ptr /\ from1 = base + f
    BY <1>7
  <2>2. PICK lo : lo = base + fence + Units(delivered)
    OBVIOUS
  <2>3. Channel(outbox, scratch, ring, base, from, wr, W, lo, hi) /\ DOMAIN W \subseteq Nat
    BY <2>1, <2>2, <1>2 DEF Inside, Plan
  <2>4. from <= from1
    <3>1. f = fence
      BY <1>8
    <3> QED
      BY <3>1, <2>1, <1>6, <1>7
  <2>5. Channel(outbox, scratch, ring, base, from1, wr, W, lo, hi)
    BY <2>3, <2>4, RingKept
  <2>6. ring' = ring /\ from1 = base + ptr' /\ lo = base + fence' + Units(delivered')
    BY <2>1, <2>2, <1>3, <1>8
  <2> QED
    BY <2>5, <2>6
<1>17. Place(base, wr, wrPtr)
  BY <1>2 DEF Inside, Prefetcher
<1>18. UNCHANGED <<ppc, upSem, wrPtr, pcmd, job, scratch, reading, toggle, outbox>>
  BY <1>3
<1> QED
  BY <1>1, <1>2, <1>4, <1>11, <1>13, <1>14, <1>15, <1>16, <1>17, <1>18, DispatcherMoves

\* A whole number of pages.
LEMMA WholePages ==
    ASSUME NEW x \in Nat, Aligned(x)
    PROVE  \E k \in Nat : x = Units(k) /\ x \div PageSize = k
<1>1. PICK k \in Nat : x = Units(k)
  BY AlignedIs
<1>2. PageSize \in Nat /\ PageSize > 1
  BY Sizes
<1>3. Units(k) \div PageSize = k
  BY <1>2 DEF Units
<1> QED
  BY <1>1, <1>3

\* Units can be cancelled.
LEMMA FewerUnits ==
    ASSUME NEW a \in Nat, NEW b \in Nat, Units(a) <= Units(b)
    PROVE  a <= b /\ b - a \in Nat /\ Units(b - a) = Units(b) - Units(a)
<1>1. b < a => Units(b) + PageSize <= Units(a)
  BY UnitsOf
<1>2. Units(a) \in Nat /\ Units(b) \in Nat /\ PageSize \in Nat /\ PageSize > 1
  BY UnitsOf, Sizes
<1>3. a <= b
  BY <1>1, <1>2
<1>4. Units(b - a) = Units(b) - Units(a)
  BY UnitsOf
<1> QED
  BY <1>3, <1>4

\* What the last command used of the current block is given back.
LEMMA ReleaseCurrentPreserves ==
    ASSUME IInv, ReleaseCurrent, UNCHANGED lengths
    PROVE  IInv'
<1>1. Types /\ HalvesApart /\ Unsent
  BY DEF IInv
<1>inside. PICK base \in Nat, wr \in Nat, end \in Nat, hi \in Nat : \E W : Inside(base, wr, end, W, hi)
  BY DEF IInv
<1>2. PICK W : Inside(base, wr, end, W, hi)
  BY <1>inside
<1>3. /\ dpc = "releaseBlock" /\ dpc' = "waitAll"
      /\ credits' = credits + (BlockPages - ((block_end - ptr) \div PageSize))
      /\ UNCHANGED <<lengths, ppc, upSem, wrPtr, pcmd, job, scratch, reading, toggle, outbox>>
      /\ UNCHANGED <<seen, fence, ptr, block, got, dcmd, len, left, part, prev, since, unsent, delivered, ring>>
  BY DEF ReleaseCurrent, prefetchVars
<1>4. PICK par : par = NextParity
  OBVIOUS
<1>5. Dispatcher(base, end, par, W) /\ Space(base, hi) /\ Aligned(fence)
  BY <1>2, <1>4 DEF Inside, Space
<1>6. /\ ppc \in Last /\ ~got /\ base + fence = end /\ RoundUp(ptr) = fence /\ BlockStart <= ptr /\ ptr = fence
      /\ left = 0 /\ part = 0 /\ prev
  BY <1>3, <1>5 DEF Dispatcher, Ending, Executing
<1>7. /\ ptr \in Nat /\ fence \in Nat /\ BlockStart \in Nat /\ block_end \in Nat /\ block_end = BlockStart + BlockSize
      /\ Aligned(block_end) /\ BlockSize \in Nat /\ BlockSize = Units(BlockPages) /\ BlockPages \in Nat
      /\ fence <= block_end
  BY <1>1, <1>5, DispatcherTypes, BlockIs, Sizes DEF Space
<1>8. PICK x \in Nat : x = block_end - ptr /\ Aligned(x) /\ x <= BlockSize
  <2>1. Aligned(block_end - fence)
    BY <1>5, <1>7, AlignedSum
  <2> QED
    BY <2>1, <1>6, <1>7
<1>9. PICK k \in Nat : x = Units(k) /\ x \div PageSize = k
  BY <1>8, WholePages
<1>10. PICK m \in Nat : m = BlockPages - k /\ Units(m) = BlockSize - x
  BY <1>7, <1>8, <1>9, FewerUnits
<1>11. credits' = credits + m /\ credits \in Nat
  BY <1>1, <1>3, <1>8, <1>9, <1>10 DEF Types
<1>12. PICK c \in Nat : c = credits + m /\ Units(c) = Units(credits) + (BlockSize - x)
  <2>1. \A a, b \in Nat : Units(a + b) = Units(a) + Units(b)
    BY UnitsOf
  <2> QED
    BY <2>1, <1>10, <1>11
<1>13. PICK t \in Nat : t = Units(c)
  BY UnitsOf
<1>14. PICK f \in Nat : f = fence
  BY <1>7
<1>15. Dispatcher(base, end, par, W)'
  <2>1. dpc' \in Ending /\ left' = 0 /\ part' = 0 /\ ~got' /\ prev' /\ BlockStart' <= ptr' /\ ppc' \in Last
    BY <1>3, <1>6 DEF Ending, BlockStart
  <2>2. base + f = end /\ f <= f /\ RoundUp(f) = f
    BY <1>6, <1>14
  <2>3. f = fence' /\ f = ptr'
    BY <1>3, <1>6, <1>14
  <2> QED
    BY <2>1, <2>2, <2>3, AtEnd
<1>16. Types'
  <2>1. credits' \in Nat
    BY <1>11, <1>12
  <2>2. dpc' \in {"cmd"} \cup Executing \cup Ending
    BY <1>3 DEF Ending
  <2> QED
    BY <2>1, <2>2, <1>1, <1>3 DEF Types
<1>17. Unsent'
  <2>1. unsent = <<>>
    BY <1>1, <1>3, NothingUnsent
  <2> QED
    BY <2>1, <1>3 DEF Unsent
<1>18. Space(base, hi)'
  <2>1. HeldUnits = fence - BlockStart + 0
    BY <1>3 DEF HeldUnits
  <2>2. PICK h1 \in Nat : h1 = 0
    OBVIOUS
  <2>3. HeldUnits' = 0
    BY <1>3 DEF HeldUnits
  <2>4. Units(credits) \in Nat
    BY <1>1, <1>2, Geometry
  <2>5. t + h1 + base + fence = Units(credits) + HeldUnits + base + f
    <3>1. t = Units(credits) + (BlockSize - x) /\ x = block_end - fence
      BY <1>6, <1>8, <1>12, <1>13
    <3> QED
      BY <3>1, <2>1, <2>2, <2>4, <1>7, <1>14
  <2>6. Aligned(base) /\ Aligned(f) /\ BlockStart' <= fence' /\ fence' <= block_end'
    BY <1>3, <1>5, <1>14 DEF Space, BlockStart, block_end
  <2>7. Will(f, t, h1) /\ UNCHANGED <<job, upSem>>
    BY <2>2, <2>3, <1>3, <1>11, <1>12, <1>13, <1>14 DEF Will
  <2> QED
    BY <2>5, <2>6, <2>7, <1>1, <1>2, SpaceNext
<1>19. Channel(outbox, scratch, ring', base, base + ptr', wr, W, base + fence' + Units(delivered'), hi)
  BY <1>2, <1>3 DEF Inside
<1>20. Place(base, wr, wrPtr)
  BY <1>2 DEF Inside, Prefetcher
<1>21. UNCHANGED <<ppc, upSem, wrPtr, pcmd, job, scratch, reading, toggle, outbox>>
  BY <1>3
<1> QED
  BY <1>1, <1>2, <1>4, <1>15, <1>16, <1>17, <1>18, <1>19, <1>20, <1>21, DispatcherMoves

\* The dispatcher ends.
LEMMA DispatcherOutPreserves ==
    ASSUME IInv, DispatcherOut, UNCHANGED lengths
    PROVE  IInv'
<1>1. Types /\ HalvesApart /\ Unsent
  BY DEF IInv
<1>inside. PICK base \in Nat, wr \in Nat, end \in Nat, hi \in Nat : \E W : Inside(base, wr, end, W, hi)
  BY DEF IInv
<1>2. PICK W : Inside(base, wr, end, W, hi)
  BY <1>inside
<1>3. /\ dpc = "waitAll" /\ dpc' = "out"
      /\ UNCHANGED <<lengths, ppc, upSem, wrPtr, pcmd, job, scratch, reading, toggle, outbox, credits>>
      /\ UNCHANGED <<seen, fence, ptr, block, got, dcmd, len, left, part, prev, since, unsent, delivered, ring>>
  BY DEF DispatcherOut, prefetchVars
<1>4. PICK par : par = NextParity
  OBVIOUS
<1>5. Dispatcher(base, end, par, W) /\ Space(base, hi)
  BY <1>2, <1>4 DEF Inside
<1>6. /\ ppc \in Last /\ ~got /\ base + fence = end /\ RoundUp(ptr) = fence /\ BlockStart <= ptr /\ ptr = fence
      /\ left = 0 /\ part = 0 /\ prev
  BY <1>3, <1>5 DEF Dispatcher, Ending, Executing
<1>7. PICK f \in Nat : f = fence
  BY <1>1, DispatcherTypes
<1>8. Dispatcher(base, end, par, W)'
  <2>1. dpc' \in Ending /\ left' = 0 /\ part' = 0 /\ ~got' /\ prev' /\ BlockStart' <= ptr' /\ ppc' \in Last
    BY <1>3, <1>6 DEF Ending, BlockStart
  <2>2. base + f = end /\ f <= f /\ RoundUp(f) = f
    BY <1>6, <1>7
  <2>3. f = fence' /\ f = ptr'
    BY <1>3, <1>6, <1>7
  <2> QED
    BY <2>1, <2>2, <2>3, AtEnd
<1>9. Types'
  <2>1. dpc' \in {"cmd"} \cup Executing \cup Ending
    BY <1>3 DEF Ending
  <2> QED
    BY <2>1, <1>1, <1>3 DEF Types
<1>10. Unsent'
  <2>1. unsent = <<>>
    BY <1>1, <1>3, NothingUnsent
  <2> QED
    BY <2>1, <1>3 DEF Unsent
<1>11. Space(base, hi)'
  BY <1>3, <1>5 DEF Space, HeldUnits, BlockStart, block_end, Aligned, Units
<1>12. Channel(outbox, scratch, ring', base, base + ptr', wr, W, base + fence' + Units(delivered'), hi)
  BY <1>2, <1>3 DEF Inside
<1>13. Place(base, wr, wrPtr)
  BY <1>2 DEF Inside, Prefetcher
<1>14. UNCHANGED <<ppc, upSem, wrPtr, pcmd, job, scratch, reading, toggle, outbox>>
  BY <1>3
<1> QED
  BY <1>1, <1>2, <1>4, <1>8, <1>9, <1>10, <1>11, <1>12, <1>13, <1>14, DispatcherMoves

\* A page more is enough for the next transfer.
LEMMA PageSuffices ==
    ASSUME Types, Preamble = 0, NEW base, NEW end, NEW par, NEW W, Dispatcher(base, end, par, W), NeedsPage,
           NEW f \in Nat, fence + PageSize <= f, f = fence',
           UNCHANGED <<dpc, ptr, block, dcmd, len, left, part, prev>>
    PROVE  Dispatcher(base, end, par, W)' /\ dpc \notin Ending
<1>1. dpc \notin Ending
  BY DEF NeedsPage, Ending
<1>2. ptr <= fence /\ (dpc \notin Executing => left = 0 /\ part = 0)
  BY DEF Dispatcher
<1>3. ptr \in Nat /\ fence \in Nat /\ PageSize \in Nat /\ PageSize > 1 /\ left \in Nat
  BY DispatcherTypes
<1>4. PICK p \in Nat : p = ptr
  BY <1>3
<1>5. p + PageSize <= f /\ p <= f /\ p # f
  BY <1>2, <1>3, <1>4
<1>6. InPad' = InPad /\ pad_size' = pad_size /\ XferOf' = XferOf
  BY DEF InPad, pad_size, XferOf, LargePos, LargeSpan
<1>7. dpc \in Executing => Executes /\ left >= 1
  BY DEF Dispatcher, Executes
<1>8. ~NeedsPage'
  <2>1. CASE dpc \in {"cmd", "linear", "paged"}
    BY <2>1, <1>4, <1>5 DEF NeedsPage
  <2>2. CASE dpc = "large" /\ InPad
    <3>1. PICK d \in Nat : d = pad_size /\ d < PageSize
      BY <2>2, <1>7, PadIs DEF Executing
    <3>2. ~(p + d > f)
      BY <3>1, <1>3, <1>5
    <3> QED
      BY <3>1, <3>2, <2>2, <1>4, <1>6 DEF NeedsPage
  <2>3. CASE dpc = "large" /\ ~InPad
    BY <2>3, <1>4, <1>5, <1>6 DEF NeedsPage
  <2>4. CASE dpc \in {"packed", "relay"}
    <3>1. PICK d \in Nat : d = XferOf /\ d <= PageSize
      BY <2>4, <1>3, <1>7, XferOfIs DEF Executing
    <3>2. ~(p + d > f)
      BY <3>1, <1>3, <1>5
    <3> QED
      BY <3>1, <3>2, <2>4, <1>4, <1>6 DEF NeedsPage
  <2> QED
    BY <2>1, <2>2, <2>3, <2>4, <1>1 DEF Types, Executing
<1>9. BlockStart' = BlockStart
  BY DEF BlockStart
<1>10. Executes' = Executes
  BY <1>6, <1>9 DEF Executes, LargeSpan, Aligned
<1>11. (RoundUp(ptr + left))' = RoundUp(ptr + left)
  BY DEF RoundUp, PagesOf
<1>12. Begins(W, end, par, base + ptr, dcmd)' = Begins(W, end, par, base + ptr, dcmd)
  BY DEF Begins
<1>13. Begins(W, end, par, base + RoundUp(ptr + left), 1 - dcmd)' = Begins(W, end, par, base + RoundUp(ptr + left), 1 - dcmd)
  BY <1>11 DEF Begins
<1>14. Aligned(ptr)' = Aligned(ptr)
  BY DEF Aligned
<1>15. ptr' <= fence'
  BY <1>4, <1>5
<1> HIDE DEF NeedsPage, Executes
<1>16. (dpc = "cmd" => BlockStart <= ptr /\ Aligned(ptr) /\ Begins(W, end, par, base + ptr, dcmd))'
  BY <1>9, <1>12, <1>14 DEF Dispatcher
<1>17. (dpc \in Executing =>
         /\ Executes
         /\ \A j \in 0 .. left - 1 : /\ base + ptr + j \in DOMAIN W
                                     /\ W[base + ptr + j].cmd = dcmd /\ W[base + ptr + j].idx = len - left + j
         /\ Begins(W, end, par, base + RoundUp(ptr + left), 1 - dcmd))'
  BY <1>10, <1>13 DEF Dispatcher
<1> QED
  BY <1>1, <1>2, <1>8, <1>15, <1>16, <1>17 DEF Dispatcher

\* cb_acquire_pages: pages are taken over up to the end of the block.
LEMMA AcquirePagesPreserves ==
    ASSUME IInv, Preamble = 0, AcquirePages, UNCHANGED lengths
    PROVE  IInv'
<1>1. Types /\ HalvesApart /\ Unsent
  BY DEF IInv
<1>inside. PICK base \in Nat, wr \in Nat, end \in Nat, hi \in Nat : \E W : Inside(base, wr, end, W, hi)
  BY DEF IInv
<1>2. PICK W : Inside(base, wr, end, W, hi)
  BY <1>inside
<1>3. PICK av : av = IF seen = 0 THEN delivered ELSE seen
  OBVIOUS
<1>4. PICK lim : lim = (block_end - fence) \div PageSize
  OBVIOUS
<1>5. PICK u : u = IF av > lim THEN lim ELSE av
  OBVIOUS
<1>6. /\ NeedsPage /\ ~got /\ fence # block_end /\ av # 0 /\ seen' = av - u /\ delivered' = delivered - u
      /\ fence' = fence + u * PageSize /\ got' = TRUE
      /\ UNCHANGED <<lengths, ppc, upSem, wrPtr, pcmd, job, scratch, reading, toggle, outbox>>
      /\ UNCHANGED <<dpc, ptr, block, dcmd, len, left, part, prev, since, unsent, credits, ring>>
  BY <1>3, <1>4, <1>5 DEF AcquirePages, Starved, prefetchVars
<1>7. PICK par : par = NextParity
  OBVIOUS
<1>8. /\ Dispatcher(base, end, par, W) /\ Space(base, hi) /\ Aligned(fence) /\ Aligned(base) /\ BlockStart <= fence
      /\ fence <= block_end
  BY <1>2, <1>7 DEF Inside, Space
<1>9. /\ fence \in Nat /\ block_end \in Nat /\ Aligned(block_end) /\ delivered \in Nat /\ seen \in 0 .. delivered
      /\ block_end <= RingSize /\ PageSize \in Nat /\ PageSize > 1 /\ RingSize \in Nat /\ BlockStart \in Nat
      /\ ptr \in Nat
  BY <1>1, DispatcherTypes, BlockIs DEF Types
<1>10. PICK x \in Nat : x = block_end - fence /\ Aligned(x) /\ x > 0
  <2>1. Aligned(block_end - fence)
    BY <1>8, <1>9, AlignedSum
  <2> QED
    BY <2>1, <1>6, <1>8, <1>9
<1>11. PICK k \in Nat : x = Units(k) /\ x \div PageSize = k
  BY <1>10, WholePages
<1>12. lim = k /\ k >= 1
  <2>1. k # 0
    BY <1>10, <1>11, UnitsOf
  <2> QED
    BY <2>1, <1>4, <1>10, <1>11
<1>13. av \in Nat /\ av >= 1 /\ av <= delivered
  BY <1>3, <1>6, <1>9
<1>14. u \in Nat /\ u >= 1 /\ u <= k /\ u <= av /\ u <= delivered
  BY <1>5, <1>9, <1>12, <1>13
<1>15. PICK du \in Nat : du = Units(u) /\ PageSize <= du /\ du <= x
  <2>1. Units(u) \in Nat
    BY <1>14, UnitsOf
  <2>2. \A a, b \in Nat : a <= b => Units(a) <= Units(b)
    BY UnitsOf
  <2>3. Units(1) = PageSize
    BY UnitsOf
  <2> QED
    BY <2>1, <2>2, <2>3, <1>11, <1>14
<1>16. PICK f1 \in Nat : f1 = fence + du /\ fence + PageSize <= f1 /\ f1 <= block_end /\ Aligned(f1)
  <2>1. Aligned(du)
    BY <1>14, <1>15, AlignedIs
  <2>2. Aligned(fence + du)
    BY <2>1, <1>8, <1>9, AlignedSum
  <2> QED
    BY <2>2, <1>9, <1>10, <1>15
<1>17. f1 = fence'
  BY <1>6, <1>15, <1>16 DEF Units
<1>18. PICK s1 \in Nat, d1 \in Nat : s1 = av - u /\ d1 = delivered - u /\ s1 <= d1
  BY <1>9, <1>13, <1>14
<1>19. Dispatcher(base, end, par, W)' /\ dpc \notin Ending
  BY <1>1, <1>6, <1>8, <1>16, <1>17, PageSuffices
<1>20. Types'
  <2>1. f1 \in 0 .. RingSize
    BY <1>9, <1>16
  <2>2. fence' \in 0 .. RingSize
    BY <2>1, <1>17
  <2>3. s1 \in 0 .. d1
    BY <1>18
  <2>4. seen' = s1 /\ delivered' = d1
    BY <1>6, <1>18
  <2>5. delivered' \in Nat /\ seen' \in 0 .. delivered'
    BY <2>3, <2>4
  <2> QED
    BY <2>2, <2>5, <1>1, <1>6 DEF Types
<1>21. Unsent'
  BY <1>1, <1>6, UnsentSame
<1>22. Space(base, hi)'
  <2>1. PICK t \in Nat : t = Units(credits)
    BY <1>1, <1>2, Geometry
  <2>2. PICK d \in Nat : d = IF prev /\ dpc # "releaseBlock" THEN BlockSize ELSE 0
    BY Sizes
  <2>3. HeldUnits = fence - BlockStart + d
    BY <2>2, <1>19 DEF HeldUnits, Ending
  <2>4. PICK h1 \in Nat : h1 = f1 - BlockStart + d
    BY <1>8, <1>9, <1>16
  <2>5. HeldUnits' = h1
    <3>1. HeldUnits' = fence' - BlockStart + d
      BY <2>2, <1>6, <1>19 DEF HeldUnits, Ending, BlockStart
    <3> QED
      BY <3>1, <2>4, <1>17
  <2>6. t + h1 + base + fence = Units(credits) + HeldUnits + base + f1
    BY <2>1, <2>3, <2>4, <1>9
  <2>7. Aligned(base) /\ Aligned(f1)
    BY <1>8, <1>16
  <2>8. BlockStart' <= fence' /\ fence' <= block_end'
    <3>1. BlockStart <= f1 /\ f1 <= block_end
      BY <1>8, <1>9, <1>16
    <3> QED
      BY <3>1, <1>6, <1>17 DEF BlockStart, block_end
  <2>9. Will(f1, t, h1) /\ UNCHANGED <<job, upSem>>
    BY <2>1, <2>5, <1>6, <1>17 DEF Will
  <2> QED
    BY <2>6, <2>7, <2>8, <2>9, <1>1, <1>2, SpaceNext
<1>23. Channel(outbox, scratch, ring', base, base + ptr', wr, W, base + fence' + Units(delivered'), hi)
  <2>1. Units(d1) = Units(delivered) - du /\ Units(delivered) \in Nat
    <3>1. \A a, b \in Nat : Units(a - b) = Units(a) - Units(b)
      BY UnitsOf
    <3> QED
      BY <3>1, <1>9, <1>14, <1>15, <1>18, UnitsOf
  <2>2. base + f1 + Units(d1) = base + fence + Units(delivered)
    BY <2>1, <1>9, <1>16
  <2>3. fence' = f1 /\ delivered' = d1
    BY <1>6, <1>17, <1>18
  <2>4. base + fence' + Units(delivered') = base + fence + Units(delivered)
    BY <2>2, <2>3
  <2>5. Channel(outbox, scratch, ring, base, base + ptr, wr, W, base + fence + Units(delivered), hi)
    BY <1>2 DEF Inside
  <2> QED
    BY <2>4, <2>5, <1>6
<1>24. Place(base, wr, wrPtr)
  BY <1>2 DEF Inside, Prefetcher
<1>25. UNCHANGED <<ppc, upSem, wrPtr, pcmd, job, scratch, reading, toggle, outbox>>
  BY <1>6
<1> QED
  BY <1>1, <1>2, <1>7, <1>19, <1>20, <1>21, <1>22, <1>23, <1>24, <1>25, DispatcherMoves

\* The block after the current one.
LEMMA NextBlockIs ==
    ASSUME Types
    PROVE  /\ block = Blocks - 1 => (block + 1) % Blocks = 0
           /\ block # Blocks - 1 => (block + 1) % Blocks = block + 1 /\ block + 1 \in 0 .. Blocks - 1
<1>1. block \in 0 .. Blocks - 1 /\ Blocks \in Nat /\ Blocks > 2
  BY Sizes DEF Types
<1>2. ASSUME block = Blocks - 1 PROVE (block + 1) % Blocks = 0
  BY <1>1, <1>2
<1>3. ASSUME block # Blocks - 1 PROVE (block + 1) % Blocks = block + 1 /\ block + 1 \in 0 .. Blocks - 1
  <2>1. PICK n \in Nat : n = block + 1 /\ n < Blocks
    BY <1>1, <1>3
  <2>2. n % Blocks = n
    BY <2>1, <1>1
  <2> QED
    BY <2>1, <2>2, <1>1
<1> QED
  BY <1>2, <1>3

\* A NOC write of the finished block is one of the block before the current.
LEMMA UnsentNextBlock ==
    ASSUME Types, Unsent, fence = block_end, ptr <= fence, prev => cleared, since' = 0, prev' = TRUE,
           UNCHANGED <<dpc, unsent, ring>>,
           block = Blocks - 1 => block' = 0,
           block # Blocks - 1 => block' = block + 1 /\ ptr' = ptr
    PROVE  Unsent'
<1> SUFFICES ASSUME unsent # <<>> PROVE Unsent'
  BY DEF Unsent
<1>1. unsent[1].src \in Nat /\ unsent[1].n \in Nat /\ Len(unsent) = 1
  <2>1. Len(unsent) <= 1 /\ unsent \in Seq([src : Nat, n : Nat, cmd : 0 .. 1, first : Nat])
    BY DEF Types
  <2>2. Len(unsent) \in Nat /\ Len(unsent) # 0
    BY <2>1, EmptySeq
  <2>3. Len(unsent) = 1
    <3>1. PICK n \in Nat : n = Len(unsent)
      BY <2>2
    <3>2. n <= 1 /\ n # 0
      BY <3>1, <2>1, <2>2
    <3>3. n = 1
      BY <3>2
    <3> QED
      BY <3>1, <3>3
  <2> QED
    BY <2>3, UnsentIs
<1>2. since = 1
  <2>1. since \in 0 .. 1
    BY DEF Types
  <2>2. since = 0 => prev
    BY DEF Unsent
  <2> QED
    BY <2>1, <2>2, <1>1 DEF cleared
<1>3. PICK s \in Nat, m \in Nat : s = unsent[1].src /\ m = unsent[1].n
  BY <1>1
<1>4. BlockStart <= s /\ s + m <= ptr /\ s + m <= RingSize
  BY <1>2, <1>3 DEF Unsent
<1>5. /\ block_end = BlockStart + BlockSize /\ BlockStart \in Nat /\ BlockSize \in Nat /\ RingSize \in Nat
      /\ (block = Blocks - 1 => block_end = RingSize) /\ block \in Nat /\ ptr \in Nat
  BY BlockIs, Sizes, DispatcherTypes
<1>6. /\ unsent[1].n >= 1 /\ dpc \notin {"releaseBlock", "waitAll", "out"}
      /\ \A k \in 0 .. unsent[1].n - 1 : /\ ring[unsent[1].src + k].cmd = unsent[1].cmd
                                         /\ ring[unsent[1].src + k].idx = unsent[1].first + k
  BY DEF Unsent
<1>7. CASE block = Blocks - 1
  <2>1. RingSize - BlockSize <= s
    BY <1>4, <1>5, <1>7
  <2>2. block' = 0 /\ since' = 0 /\ prev' /\ unsent' = unsent /\ ring' = ring /\ dpc' = dpc
    BY <1>7
  <2> QED
    BY <2>1, <2>2, <1>3, <1>4, <1>6 DEF Unsent
<1>8. CASE block # Blocks - 1
  <2>1. block' = block + 1 /\ block' # 0 /\ ptr' = ptr /\ since' = 0 /\ prev' /\ unsent' = unsent /\ ring' = ring /\ dpc' = dpc
    BY <1>5, <1>8
  <2>2. BlockStart' = block_end
    BY <2>1 DEF BlockStart, block_end
  <2>3. block_end - BlockSize <= s /\ s + m <= block_end
    BY <1>4, <1>5
  <2> QED
    BY <2>1, <2>2, <2>3, <1>3, <1>4, <1>6 DEF Unsent
<1> QED
  BY <1>7, <1>8

\* At the end of a block the dispatcher has taken what it has, except for padding that goes on.
LEMMA BlockFinished ==
    ASSUME Types, Preamble = 0, NEW base \in Nat, NEW wr \in Nat, NEW end \in Nat, NEW hi \in Nat, NEW W,
           Inside(base, wr, end, W, hi), NeedsPage, (dpc = "relay" /\ block < Blocks - 1) \/ InPad \/ ptr = fence
    PROVE  /\ dpc \notin Ending /\ ptr <= fence
           /\ ptr = fence \/ (InPad /\ dpc = "large" /\ ptr + pad_size > fence /\ pad_size <= left /\ pad_size \in Nat)
<1>1. Dispatcher(base, end, NextParity, W) /\ Aligned(fence)
  BY DEF Inside, Space
<1>2. dpc \notin Ending
  BY DEF NeedsPage, Ending
<1>3. ptr <= fence /\ (dpc \in Executing => Executes)
  BY <1>1 DEF Dispatcher
<1>4. CASE dpc = "relay"
  BY <1>1, <1>2, <1>3, <1>4, Lacks DEF Executing
<1>5. CASE InPad
  <2>1. dpc = "large" /\ Executes
    BY <1>3, <1>5 DEF InPad, Executing
  <2>2. ptr + pad_size > fence
    BY <2>1, <1>5 DEF NeedsPage
  <2>3. pad_size <= left /\ pad_size \in Nat
    BY <2>1, PadIs
  <2> QED
    BY <2>1, <2>2, <2>3, <1>2, <1>3, <1>5
<1> QED
  BY <1>2, <1>3, <1>4, <1>5

\* The dispatcher moves on to the next block of the ring ...
LEMMA NextBlockInLap ==
    ASSUME IInv, Preamble = 0, NextBlock, UNCHANGED lengths, block # Blocks - 1
    PROVE  IInv'
<1>1. Types /\ HalvesApart /\ Unsent
  BY DEF IInv
<1>inside. PICK base \in Nat, wr \in Nat, end \in Nat, hi \in Nat : \E W : Inside(base, wr, end, W, hi)
  BY DEF IInv
<1>2. PICK W : Inside(base, wr, end, W, hi)
  BY <1>inside
<1>3. /\ NeedsPage /\ ~got /\ fence = block_end /\ ((dpc = "relay" /\ block < Blocks - 1) \/ InPad \/ ptr = fence)
      /\ (prev => cleared) /\ credits' = (IF prev THEN credits + BlockPages ELSE credits) /\ prev' = TRUE /\ since' = 0
      /\ block' = (block + 1) % Blocks /\ UNCHANGED <<fence, ptr, left>>
      /\ UNCHANGED <<lengths, ppc, upSem, wrPtr, pcmd, job, scratch, reading, toggle, outbox>>
      /\ UNCHANGED <<dpc, seen, got, dcmd, len, part, unsent, delivered, ring>>
  BY DEF NextBlock, Starved, cb_block_release_pages, prefetchVars
<1>4. PICK par : par = NextParity
  OBVIOUS
<1>5. Dispatcher(base, end, par, W) /\ Aligned(base) /\ Aligned(fence)
  BY <1>2, <1>4 DEF Inside, Space
<1>6. /\ dpc \notin Ending /\ ptr <= fence
      /\ ptr = fence \/ (InPad /\ dpc = "large" /\ ptr + pad_size > fence /\ pad_size <= left /\ pad_size \in Nat)
  BY <1>1, <1>2, <1>3, BlockFinished
<1>7. block' = block + 1 /\ block' \in 0 .. Blocks - 1
  BY <1>1, <1>3, NextBlockIs
<1>8. BlockStart' = fence
  BY <1>3, <1>7 DEF BlockStart, block_end
<1>9. /\ fence \in Nat /\ ptr \in Nat /\ BlockSize \in Nat /\ BlockStart \in Nat /\ block_end = BlockStart + BlockSize
      /\ RingSize \in Nat /\ left \in Nat /\ len \in Nat /\ dcmd \in 0 .. 1
  BY <1>1, DispatcherTypes, BlockIs, Sizes
<1>10. PICK f \in Nat, p \in Nat : f = fence /\ p = ptr
  BY <1>9
<1>11. PICK t \in Nat : t = Units(credits') /\ t = Units(credits) + IF prev THEN BlockSize ELSE 0
  BY <1>1, <1>3, BlockReleased
<1>12. Types'
  <2>1. credits' \in Nat
    BY <1>1, <1>3, BlockReleased
  <2>2. block' \in 0 .. Blocks - 1 /\ prev' \in BOOLEAN /\ since' \in 0 .. 1
    BY <1>3, <1>7
  <2> QED
    BY <2>1, <2>2, <1>1, <1>3 DEF Types
<1>13. Unsent'
  BY <1>1, <1>3, <1>6, <1>7, UnsentNextBlock
<1>14. Space(base, hi)'
  <2>1. PICK d \in Nat : d = IF prev THEN BlockSize ELSE 0
    BY <1>9
  <2>2. HeldUnits = fence - BlockStart + d
    BY <2>1, <1>6 DEF HeldUnits, Ending
  <2>3. PICK h1 \in Nat : h1 = BlockSize
    BY <1>9
  <2>4. HeldUnits' = h1
    <3>1. HeldUnits' = fence - fence + BlockSize
      BY <1>3, <1>6, <1>8 DEF HeldUnits, Ending
    <3> QED
      BY <3>1, <2>3, <1>9
  <2>5. Units(credits) \in Nat
    BY <1>1, <1>2, Geometry
  <2>6. t + h1 + base + fence = Units(credits) + HeldUnits + base + f
    <3>1. t = Units(credits) + d /\ fence = BlockStart + BlockSize
      BY <2>1, <1>3, <1>9, <1>11
    <3> QED
      BY <3>1, <2>2, <2>3, <2>5, <1>9, <1>10
  <2>7. BlockStart' <= fence' /\ fence' <= block_end'
    <3>1. f <= f /\ f <= f + BlockSize
      BY <1>9
    <3>2. block_end' = BlockStart' + BlockSize
      <4>1. PICK b \in 0 .. Blocks - 1 : b = block'
        BY <1>7
      <4>2. (b + 1) * BlockSize = b * BlockSize + BlockSize
        BY BlockBounds
      <4> QED
        BY <4>1, <4>2 DEF block_end, BlockStart
    <3> QED
      BY <3>1, <3>2, <1>3, <1>8, <1>10
  <2>8. Will(f, t, h1) /\ UNCHANGED <<job, upSem>> /\ Aligned(base) /\ Aligned(f)
    BY <2>4, <1>3, <1>5, <1>10, <1>11 DEF Will
  <2> QED
    BY <2>6, <2>7, <2>8, <1>1, <1>2, SpaceNext
<1>15. Dispatcher(base, end, par, W)'
  <2>1. p = ptr' /\ f = fence' /\ p <= f /\ ~got'
    BY <1>3, <1>6, <1>10
  <2>2. CASE dpc = "cmd"
    <3>1. /\ Aligned(p) /\ Begins(W, end, par, base + p, dcmd) /\ left = 0 /\ part = 0
      BY <2>2, <1>5, <1>10 DEF Dispatcher, Executing
    <3>2. ptr = fence
      BY <2>2, <1>6 DEF InPad
    <3>3. BlockStart' <= ptr' /\ dpc' = "cmd" /\ left' = 0 /\ part' = 0
      BY <3>1, <3>2, <2>2, <1>3, <1>8, <1>9
    <3>4. PICK c \in 0 .. 1 : c = dcmd' /\ c = dcmd
      BY <1>3, <1>9
    <3> QED
      BY <3>1, <3>3, <3>4, <2>1, AtCommand
  <2>3. CASE dpc \in Executing
    <3>1. /\ Executes /\ Rest(W, base + p, left, dcmd, len) /\ Begins(W, end, par, base + RoundUp(p + left), 1 - dcmd)
      BY <2>3, <1>5, <1>10 DEF Dispatcher, Rest
    <3>2. PICK c \in 0 .. 1, l \in Nat, n \in Nat : c = dcmd' /\ c = dcmd /\ l = left' /\ l = left /\ n = len' /\ n = len
      BY <1>3, <1>9
    <3>3. Rest(W, base + p, l, c, n) /\ Begins(W, end, par, base + RoundUp(p + l), 1 - c)
      BY <3>1, <3>2
    <3>4. InPad' = InPad /\ pad_size' = pad_size
      BY <1>3 DEF InPad, pad_size, LargePos, LargeSpan
    <3>5. Executes'
      <4>1. ~InPad' => BlockStart' <= ptr'
        BY <3>4, <1>3, <1>6, <1>8, <1>9
      <4>2. InPad' /\ ptr' < BlockStart' => prev' /\ ptr' + pad_size' > BlockStart'
        BY <3>4, <1>3, <1>6, <1>8, <1>9
      <4>3. (/\ left >= 1 /\ left <= len
             /\ dpc # "relay" => left < len
             /\ dpc = "relay" \/ part # 0 => Aligned(ptr)
             /\ dpc = "packed" => part < XferSize /\ (left + part) % XferSize = 0
             /\ dpc # "packed" => part = 0
             /\ dpc = "large" => (len - 1) % LargeSpan = 0)'
        BY <3>1, <1>3 DEF Executes, Aligned, LargeSpan
      <4> QED
        BY <4>1, <4>2, <4>3 DEF Executes
    <3>6. dpc' \in Executing
      BY <2>3, <1>3
    <3> QED
      BY <3>2, <3>3, <3>5, <3>6, <2>1, AtUnits
  <2> QED
    BY <2>2, <2>3, <1>1, <1>6 DEF Types
<1>16. Channel(outbox, scratch, ring', base, base + ptr', wr, W, base + fence' + Units(delivered'), hi)
  BY <1>2, <1>3 DEF Inside
<1>17. Place(base, wr, wrPtr)
  BY <1>2 DEF Inside, Prefetcher
<1>18. UNCHANGED <<ppc, upSem, wrPtr, pcmd, job, scratch, reading, toggle, outbox>>
  BY <1>3
<1> QED
  BY <1>1, <1>2, <1>4, <1>12, <1>13, <1>14, <1>15, <1>16, <1>17, <1>18, DispatcherMoves

\* ... or, at its end, to the first block in the next lap.
LEMMA NextBlockWraps ==
    ASSUME IInv, Preamble = 0, NextBlock, UNCHANGED lengths, block = Blocks - 1
    PROVE  IInv'
<1>1. Types /\ HalvesApart /\ Unsent
  BY DEF IInv
<1>inside. PICK base \in Nat, wr \in Nat, end \in Nat, hi \in Nat : \E W : Inside(base, wr, end, W, hi)
  BY DEF IInv
<1>2. PICK W : Inside(base, wr, end, W, hi)
  BY <1>inside
<1>3. /\ NeedsPage /\ ~got /\ fence = block_end /\ ((dpc = "relay" /\ block < Blocks - 1) \/ InPad \/ ptr = fence)
      /\ (prev => cleared) /\ credits' = (IF prev THEN credits + BlockPages ELSE credits) /\ prev' = TRUE /\ since' = 0
      /\ block' = (block + 1) % Blocks /\ fence' = 0 /\ ptr' = 0
      /\ left' = (IF InPad THEN left - (fence - ptr) ELSE left)
      /\ UNCHANGED <<lengths, ppc, upSem, wrPtr, pcmd, job, scratch, reading, toggle, outbox>>
      /\ UNCHANGED <<dpc, seen, got, dcmd, len, part, unsent, delivered, ring>>
  BY DEF NextBlock, Starved, cb_block_release_pages, prefetchVars
<1>4. PICK par : par = NextParity
  OBVIOUS
<1>5. Dispatcher(base, end, par, W) /\ Aligned(base) /\ Aligned(fence)
  BY <1>2, <1>4 DEF Inside, Space
<1>6. /\ dpc \notin Ending /\ ptr <= fence
      /\ ptr = fence \/ (InPad /\ dpc = "large" /\ ptr + pad_size > fence /\ pad_size <= left /\ pad_size \in Nat)
  BY <1>1, <1>2, <1>3, BlockFinished
<1>7. block' = 0
  BY <1>1, <1>3, NextBlockIs
<1>8. /\ fence \in Nat /\ ptr \in Nat /\ BlockSize \in Nat /\ BlockStart \in Nat /\ block_end = BlockStart + BlockSize
      /\ RingSize \in Nat /\ left \in Nat /\ len \in Nat /\ dcmd \in 0 .. 1 /\ fence = RingSize
  BY <1>1, <1>3, DispatcherTypes, BlockIs, Sizes
<1>9. PICK l \in Nat : l = left' /\ ptr + left = RingSize + l /\ l <= left /\ (left >= 1 => l >= 1)
  <2>1. CASE ptr = fence
    BY <2>1, <1>3, <1>8
  <2>2. CASE InPad /\ ptr + pad_size > fence /\ pad_size <= left /\ pad_size \in Nat
    <3>1. PICK x \in Nat : x = pad_size
      BY <2>2
    <3>2. ptr + x > fence /\ x <= left
      BY <3>1, <2>2
    <3>3. left - (fence - ptr) \in Nat /\ left - (fence - ptr) >= 1 /\ left - (fence - ptr) <= left
      BY <3>2, <1>6, <1>8
    <3>4. left' = left - (fence - ptr)
      BY <2>2, <1>3
    <3>5. ptr + left = RingSize + (left - (fence - ptr))
      BY <1>8
    <3> QED
      BY <3>3, <3>4, <3>5
  <2> QED
    BY <2>1, <2>2, <1>6
<1>24. ptr + left = RingSize + l /\ l <= left /\ (left >= 1 => l >= 1)
  BY <1>9
<1>10. PICK z \in Nat : z = 0
  OBVIOUS
<1>11. PICK base1 \in Nat : base1 = base + RingSize
  BY <1>8
<1>12. PICK t \in Nat : t = Units(credits') /\ t = Units(credits) + IF prev THEN BlockSize ELSE 0
  BY <1>1, <1>3, BlockReleased
<1>13. BlockStart' = 0 /\ block_end' = BlockSize
  <2>1. 0 * BlockSize = 0 /\ (0 + 1) * BlockSize = BlockSize
    BY <1>8
  <2> QED
    BY <2>1, <1>7 DEF BlockStart, block_end
<1>14. Aligned(z) /\ Aligned(base1)
  <2>1. Aligned(RingSize)
    BY Sizes
  <2>2. Aligned(base + RingSize)
    BY <2>1, <1>5, <1>8, AlignedSum
  <2>3. 0 % PageSize = 0
    BY Sizes
  <2> QED
    BY <2>2, <2>3, <1>10, <1>11 DEF Aligned
<1>15. Types'
  <2>1. credits' \in Nat
    BY <1>1, <1>3, BlockReleased
  <2>2. block' \in 0 .. Blocks - 1 /\ prev' \in BOOLEAN /\ since' \in 0 .. 1
    BY <1>3, <1>7, Sizes
  <2>3. fence' \in 0 .. RingSize /\ ptr' \in 0 .. RingSize /\ left' \in Nat
    BY <1>3, <1>8, <1>9
  <2> QED
    BY <2>1, <2>2, <2>3, <1>1, <1>3 DEF Types
<1>16. Unsent'
  BY <1>1, <1>3, <1>6, <1>7, UnsentNextBlock
<1>17. Space(base1, hi)'
  <2>1. PICK d \in Nat : d = IF prev THEN BlockSize ELSE 0
    BY <1>8
  <2>2. HeldUnits = fence - BlockStart + d
    BY <2>1, <1>6 DEF HeldUnits, Ending
  <2>3. PICK h1 \in Nat : h1 = BlockSize
    BY <1>8
  <2>4. HeldUnits' = h1
    <3>1. HeldUnits' = 0 - 0 + BlockSize
      BY <1>3, <1>6, <1>13 DEF HeldUnits, Ending
    <3> QED
      BY <3>1, <2>3
  <2>5. Units(credits) \in Nat
    BY <1>1, <1>2, Geometry
  <2>6. t + h1 + base + fence = Units(credits) + HeldUnits + base1 + z
    <3>1. t = Units(credits) + d /\ fence = BlockStart + BlockSize
      BY <2>1, <1>3, <1>8, <1>12
    <3> QED
      BY <3>1, <2>2, <2>3, <2>5, <1>8, <1>10, <1>11
  <2>7. BlockStart' <= fence' /\ fence' <= block_end'
    BY <1>3, <1>8, <1>13
  <2>8. Will(z, t, h1) /\ UNCHANGED <<job, upSem>> /\ Aligned(base1) /\ Aligned(z)
    BY <2>4, <1>3, <1>10, <1>12, <1>14 DEF Will
  <2> QED
    BY <2>6, <2>7, <2>8, <1>1, <1>2, SpaceNext
<1>18. Dispatcher(base1, end, par, W)'
  <2>1. z = ptr' /\ z = fence' /\ z <= z /\ ~got'
    BY <1>3, <1>10
  <2>2. CASE dpc = "cmd"
    <3>1. Begins(W, end, par, base + ptr, dcmd) /\ left = 0 /\ part = 0
      BY <2>2, <1>5 DEF Dispatcher, Executing
    <3>2. ptr = fence
      BY <2>2, <1>6 DEF InPad
    <3>3. BlockStart' <= ptr' /\ dpc' = "cmd" /\ left' = 0 /\ part' = 0
      <4>1. ~InPad
        BY <2>2 DEF InPad
      <4> QED
        BY <4>1, <3>1, <2>2, <1>3, <1>13
    <3>4. PICK c \in 0 .. 1 : c = dcmd' /\ c = dcmd
      BY <1>3, <1>8
    <3>5. base1 + z = base + ptr
      BY <3>2, <1>8, <1>10, <1>11
    <3>6. Begins(W, end, par, base1 + z, c)
      BY <3>1, <3>4, <3>5
    <3> QED
      BY <3>3, <3>4, <3>6, <2>1, <1>14, AtCommand
  <2>3. CASE dpc \in Executing
    <3>1. /\ Executes /\ Begins(W, end, par, base + RoundUp(ptr + left), 1 - dcmd)
          /\ \A j \in 0 .. left - 1 : /\ base + ptr + j \in DOMAIN W
                                      /\ W[base + ptr + j].cmd = dcmd /\ W[base + ptr + j].idx = len - left + j
      BY <2>3, <1>5 DEF Dispatcher
    <3>2. PICK c \in 0 .. 1, n \in Nat : c = dcmd' /\ c = dcmd /\ n = len' /\ n = len
      BY <1>3, <1>8
    <3>3. Rest(W, base1 + z, l, c, n)
      <4> SUFFICES ASSUME NEW j \in 0 .. l - 1
                   PROVE  base1 + z + j \in DOMAIN W /\ W[base1 + z + j].cmd = c /\ W[base1 + z + j].idx = n - l + j
        BY DEF Rest
      <4>1. PICK k \in Nat : k = left - l
        BY <1>8, <1>24
      <4>2. ptr + k = RingSize
        BY <4>1, <1>8, <1>24
      <4>3. PICK i \in Nat : i = k + j
        OBVIOUS
      <4>4. i \in 0 .. left - 1 /\ base1 + z + j = base + ptr + i /\ n - l + j = len - left + i
        BY <4>1, <4>2, <4>3, <3>2, <1>8, <1>10, <1>11
      <4> QED
        BY <4>4, <3>1, <3>2
    <3>4. Begins(W, end, par, base1 + RoundUp(z + l), 1 - c)
      <4>1. Aligned(RingSize)
        BY Sizes
      <4>2. RoundUp(RingSize + l) = RingSize + RoundUp(l) /\ RoundUp(l) \in Nat
        BY <4>1, <1>8, RoundUpFacts, RoundUpIs
      <4>3. z + l = l /\ ptr + left = RingSize + l
        BY <1>24, <1>10
      <4>5. PICK u \in Nat : u = RoundUp(l)
        BY <4>2
      <4>6. RoundUp(z + l) = u /\ RoundUp(ptr + left) = RingSize + u
        BY <4>2, <4>3, <4>5
      <4>4. base + RoundUp(ptr + left) = base1 + RoundUp(z + l)
        BY <4>6, <1>8, <1>11
      <4> QED
        BY <4>4, <3>1, <3>2
    <3>5. Executes'
      <4>1. BlockStart' <= ptr' /\ ~(ptr' < BlockStart')
        BY <1>3, <1>13
      <4>2. left' >= 1 /\ left' <= len' /\ (dpc # "relay" => left' < len')
        <5>1. left >= 1 /\ left <= len /\ (dpc # "relay" => left < len)
          BY <3>1 DEF Executes
        <5>2. l >= 1 /\ l <= n /\ (dpc # "relay" => l < n)
          BY <5>1, <3>2, <1>8, <1>9
        <5> QED
          BY <5>2, <3>2, <1>9
      <4>3. Aligned(ptr)'
        BY <2>1, <1>14 DEF Aligned
      <4>4. dpc # "large" => l = left
        BY <1>6, <1>8, <1>24
      <4>5. dpc = "packed" => part' < XferSize /\ (left' + part') % XferSize = 0
        BY <4>4, <3>1, <1>3, <1>9 DEF Executes
      <4>6. (dpc # "packed" => part' = 0) /\ dpc' = dpc
        BY <3>1, <1>3 DEF Executes
      <4>7. (dpc = "large" => (len - 1) % LargeSpan = 0)'
        BY <3>1, <1>3 DEF Executes, LargeSpan
      <4> QED
        BY <4>1, <4>2, <4>3, <4>5, <4>6, <4>7 DEF Executes
    <3>6. dpc' \in Executing
      BY <2>3, <1>3
    <3> QED
      BY <3>2, <3>3, <3>4, <3>5, <3>6, <2>1, <1>9, AtUnits
  <2> QED
    BY <2>2, <2>3, <1>1, <1>6 DEF Types
<1>19. PICK from \in Nat, lo \in Nat : from = base + ptr /\ lo = base + fence + Units(delivered)
  <2>1. Units(delivered) \in Nat
    BY <1>1, <1>2, Geometry
  <2>2. base + ptr \in Nat /\ base + fence + Units(delivered) \in Nat
    BY <2>1, <1>8
  <2> QED
    BY <2>2
<1>20. /\ wr <= base + RingSize + RingSize /\ base + RingSize <= lo /\ lo <= wr
  <2>1. /\ Units(delivered) \in Nat /\ base + fence + Units(delivered) <= hi /\ hi <= wr
        /\ wr <= base + RingSize + RingSize
    BY <1>1, <1>2, Geometry
  <2> QED
    BY <2>1, <1>8, <1>19
<1>21. Channel(outbox, scratch, ring', base1, base1 + ptr', wr, W, base1 + fence' + Units(delivered'), hi)
  <2>1. Channel(outbox, scratch, ring, base, from, wr, W, lo, hi) /\ DOMAIN W \subseteq Nat
    BY <1>2, <1>19 DEF Inside, Plan
  <2>2. from <= base1 /\ base + RingSize <= base1
    BY <1>6, <1>8, <1>11, <1>19
  <2>3. Channel(outbox, scratch, ring, base + RingSize, base1, wr, W, lo, hi)
    BY <2>1, <2>2, <1>20, NextLap
  <2>4. base1 + 0 = base1 /\ base1 + 0 + Units(delivered) = lo
    BY <1>1, <1>2, <1>8, <1>11, <1>19, Geometry
  <2> QED
    BY <2>3, <2>4, <1>3, <1>11
<1>22. Place(base1, wr, wrPtr)
  <2>1. Place(base, wr, wrPtr) /\ wrPtr \in 0 .. RingSize
    BY <1>1, <1>2 DEF Inside, Prefetcher, Types
  <2>2. RingSize >= 1
    <3>1. BlockSize >= PageSize /\ PageSize > 1 /\ PageSize \in Nat /\ RingSize = BlockStart + BlockSize
      BY <1>3, <1>8, Sizes
    <3> QED
      BY <3>1, <1>8
  <2> QED
    BY <2>1, <2>2, <1>8, <1>11, <1>20 DEF Place
<1>23. UNCHANGED <<ppc, upSem, wrPtr, pcmd, job, scratch, reading, toggle, outbox>>
  BY <1>3
<1> QED
  BY <1>1, <1>2, <1>4, <1>15, <1>16, <1>17, <1>18, <1>21, <1>22, <1>23, DispatcherMoves

\* At the start there is no command, and every page is the prefetcher's to acquire.
LEMMA InitHolds ==
    ASSUME Init
    PROVE  IInv
<1>1. /\ lengths \in Lengths
      /\ ppc = "idle" /\ upSem = Pages /\ wrPtr = 0 /\ pcmd = 0 /\ job = NoJob /\ toggle = 0 /\ outbox = <<>>
      /\ scratch = [h \in 1 .. 2 |-> [cmd |-> 0, first |-> 0]] /\ reading = None
      /\ dpc = "cmd" /\ delivered = 0 /\ seen = 0 /\ fence = 0 /\ ptr = 0
      /\ block = 0 /\ got = FALSE /\ dcmd = 0 /\ len = 0 /\ left = 0 /\ part = 0
      /\ prev = FALSE /\ since = 0 /\ unsent = <<>> /\ credits = 0
      /\ ring = [a \in 0 .. RingSize - 1 |-> Junk]
  BY DEF Init
<1>2. RingSize \in Nat /\ Pages \in Nat /\ Blocks \in Nat /\ Blocks > 2 /\ BlockSize \in Nat /\ RingSize = Units(Pages)
  BY Sizes
<1>3. Types
  <2>1. scratch \in [1 .. 2 -> [cmd : 0 .. 1, first : Nat]]
    BY <1>1
  <2>2. unsent \in Seq([src : Nat, n : Nat, cmd : 0 .. 1, first : Nat]) /\ Len(unsent) <= 1
    BY <1>1
  <2>3. job \in [len : Nat, idx : Nat, inScratch : Nat, release : Nat]
    BY <1>1 DEF NoJob
  <2>4. DOMAIN ring = 0 .. RingSize - 1
    BY <1>1
  <2>5. 0 \in 0 .. RingSize /\ 0 \in 0 .. Blocks - 1 /\ 0 \in 0 .. 1 /\ 0 \in 0 .. 0 /\ 0 \in Nat
    BY <1>2
  <2>6. dpc \in {"cmd"} \cup Executing \cup Ending
    BY <1>1
  <2> QED
    BY <2>1, <2>2, <2>3, <2>4, <2>5, <2>6, <1>1, <1>2 DEF Types
<1>4. HalvesApart /\ Unsent
  BY <1>1 DEF HalvesApart, Unsent
<1> DEFINE W == [v \in {} |-> Junk]
<1>5. DOMAIN W = {}
  OBVIOUS
<1> HIDE DEF W
<1>6. Plan(W, 0, NextParity)
  BY <1>5 DEF Plan
<1>7. Units(0) = 0 /\ Aligned(0)
  <2>1. 0 % PageSize = 0
    BY Sizes
  <2> QED
    BY <2>1, UnitsOf DEF Aligned
<1>8. Channel(outbox, scratch, ring, 0, 0 + ptr, 0, W, 0 + fence + Units(delivered), 0)
  <2>1. outbox \in Seq(Msg) /\ Len(outbox) = 0 /\ 1 .. Len(outbox) = {} /\ 1 .. Len(outbox) + 1 = {1}
    BY <1>1
  <2> DEFINE P == [k \in 1 .. Len(outbox) |-> 0]
             R == [k \in 1 .. Len(outbox) + 1 |-> 0]
  <2>2. InFlight(outbox, scratch, 0, 0, W, P, R)
    BY <2>1 DEF InFlight
  <2>3. Arrives(outbox, ring, 0, 0 + ptr, 0, W, P)
    BY <1>5 DEF Arrives
  <2>4. R[1] = 0 /\ R[Len(outbox) + 1] = 0
    BY <2>1
  <2>5. 0 + fence + Units(delivered) = 0
    BY <1>1, <1>7
  <2> HIDE DEF P, R
  <2> QED
    BY <2>1, <2>2, <2>3, <2>4, <2>5 DEF Channel
<1>9. Prefetcher(0, 0, 0, W, 0)
  <2>1. Place(0, 0, wrPtr)
    BY <1>1 DEF Place
  <2> QED
    BY <2>1, <1>1, <1>5, <1>7 DEF Prefetcher, Between, Relaying, Last, NoJob
<1>10. Space(0, 0)
  <2>1. 0 * BlockSize = 0 /\ (0 + 1) * BlockSize = BlockSize
    BY <1>2
  <2>2. BlockStart = 0 /\ block_end = BlockSize
    BY <2>1, <1>1 DEF BlockStart, block_end
  <2>3. HeldUnits = 0
    BY <2>2, <1>1 DEF HeldUnits
  <2>4. Units(job.release) = 0 /\ Units(credits) = 0 /\ Units(upSem) = RingSize
    BY <1>1, <1>2, <1>7 DEF NoJob
  <2> QED
    BY <2>2, <2>3, <2>4, <1>1, <1>2, <1>7 DEF Space
<1>11. Dispatcher(0, 0, NextParity, W)
  <2>1. NextParity = dcmd
    BY <1>1 DEF NextParity, Between
  <2>2. Begins(W, 0, NextParity, 0 + ptr, dcmd)
    BY <2>1, <1>1 DEF Begins
  <2>3. BlockStart = 0
    BY <1>1, <1>2 DEF BlockStart
  <2>4. dpc \notin Executing /\ dpc \notin Ending
    BY <1>1 DEF Executing, Ending
  <2> QED
    BY <2>2, <2>3, <2>4, <1>1, <1>7 DEF Dispatcher
<1>12. Inside(0, 0, 0, W, 0)
  BY <1>6, <1>8, <1>9, <1>10, <1>11 DEF Inside
<1> QED
  BY <1>3, <1>4, <1>12 DEF IInv

\* A step of the prefetcher keeps the invariant ...
LEMMA PrefetcherKeeps ==
    ASSUME IInv, PrefetcherCall \/ PrefetcherStep, UNCHANGED lengths
    PROVE  IInv'
<1>1. CASE PrefetcherCall
  BY <1>1, PrefetcherCallPreserves
<1>2. CASE RelayInlineNoflush
  BY <1>2, RelayInlineNoflushPreserves
<1>3. CASE RelayInline(FALSE)
  BY <1>3, RelayInlinePreserves
<1>10. CASE RelayInline(TRUE)
  BY <1>10, RelayInlinePreserves
<1>4. CASE RelayInlineFlushed
  BY <1>4, RelayInlineFlushedPreserves
<1>5. CASE RelayStart
  BY <1>5, RelayStartPreserves
<1>6. CASE RelayReadNext
  BY <1>6, RelayReadNextPreserves
<1>7. CASE RelayWrite
  BY <1>7, RelayWritePreserves
<1>8. CASE RelayLast
  BY <1>8, RelayLastPreserves
<1>9. CASE PrefetcherOut
  BY <1>9, PrefetcherOutPreserves
<1> QED
  BY <1>1, <1>2, <1>3, <1>4, <1>5, <1>6, <1>7, <1>8, <1>9, <1>10, Zenon DEF PrefetcherStep

\* ... and so does one of the dispatcher, if it does not put a preamble before the pages it relays.
LEMMA DispatcherKeeps ==
    ASSUME IInv, Preamble = 0, DispatcherStep, UNCHANGED lengths
    PROVE  IInv'
<1>1. CASE OrphanWrite
  BY <1>1, OrphanWritePreserves
<1>2. CASE NextBlock
  BY <1>2, NextBlockInLap, NextBlockWraps
<1>3. CASE AcquirePages
  BY <1>3, AcquirePagesPreserves
<1>4. CASE BeginCmd
  BY <1>4, BeginCmdPreserves
<1>5. CASE BeginTerminate
  BY <1>5, BeginTerminatePreserves
<1>6. CASE Transfer
  BY <1>6, TransferPreserves
<1>7. CASE SkipPad
  BY <1>7, SkipPadPreserves
<1>8. CASE Terminate
  BY <1>8, TerminatePreserves
<1>9. CASE ReleaseCurrent
  BY <1>9, ReleaseCurrentPreserves
<1>10. CASE DispatcherOut
  BY <1>10, DispatcherOutPreserves
<1> QED
  BY <1>1, <1>2, <1>3, <1>4, <1>5, <1>6, <1>7, <1>8, <1>9, <1>10 DEF DispatcherStep

\* A step that changes nothing.
LEMMA Stutter ==
    ASSUME IInv, UNCHANGED vars
    PROVE  IInv'
<1>1. /\ UNCHANGED <<lengths, ppc, upSem, wrPtr, pcmd, job, scratch, reading, toggle, outbox>>
      /\ UNCHANGED <<dpc, seen, fence, ptr, block, got, dcmd, len, left, part, prev, since, unsent>>
      /\ UNCHANGED <<delivered, credits, ring>>
  BY DEF vars, prefetchVars, dispatchVars
<1>2. Types' /\ HalvesApart' /\ Unsent'
  BY <1>1 DEF IInv, Types, HalvesApart, Unsent, BlockStart
<1>inside. PICK base \in Nat, wr \in Nat, end \in Nat, hi \in Nat : \E W : Inside(base, wr, end, W, hi)
  BY DEF IInv
<1>3. PICK W : Inside(base, wr, end, W, hi)
  BY <1>inside
<1>4. NextParity' = NextParity
  BY <1>1 DEF NextParity
<1>5. Channel(outbox, scratch, ring, base, base + ptr, wr, W, base + fence + Units(delivered), hi)'
  BY <1>1, <1>3 DEF Inside
<1>6. Prefetcher(base, wr, end, W, hi)'
  BY <1>1, <1>3 DEF Inside, Prefetcher, RelayInPlan, HalfHolds, Unit
<1>7. Space(base, hi)'
  BY <1>1, <1>3 DEF Inside, Space, HeldUnits, BlockStart, block_end
<1>8. Dispatcher(base, end, NextParity, W)'
  BY <1>1, <1>3, <1>4 DEF Inside, Dispatcher, Executes, NeedsPage, InPad, pad_size, LargePos, LargeSpan, XferOf, BlockStart
<1>9. Inside(base, wr, end, W, hi)'
  BY <1>3, <1>4, <1>5, <1>6, <1>7, <1>8 DEF Inside
<1> QED
  BY <1>2, <1>9 DEF IInv

\* Every step keeps the invariant.
LEMMA NextKeeps ==
    ASSUME IInv, Preamble = 0, [Next]_vars
    PROVE  IInv'
<1>1. CASE UNCHANGED vars
  BY <1>1, Stutter
<1>2. CASE Next
  <2>1. UNCHANGED lengths /\ (PrefetcherCall \/ PrefetcherStep \/ DispatcherStep \/ Noc \/ Done)
    BY <1>2 DEF Next, Step
  <2>2. CASE PrefetcherCall \/ PrefetcherStep
    BY <2>1, <2>2, PrefetcherKeeps
  <2>3. CASE DispatcherStep
    BY <2>1, <2>3, DispatcherKeeps
  <2>4. CASE Noc
    BY <2>1, <2>4, DramReadLandsPreserves, NocDeliverPreserves, CreditsLandPreserves, NocSendPreserves DEF Noc
  <2>5. CASE Done
    BY <2>5, Stutter DEF Done
  <2> QED
    BY <2>1, <2>2, <2>3, <2>4, <2>5
<1> QED
  BY <1>1, <1>2

-----------------------------------------------------------------------------
(* What the invariant says *)

\* All pages, in units: delivered, announced by messages under way, acquired by the prefetcher, free, on their way back
\* and held by the dispatcher.
LEMMA PagesAdd ==
    ASSUME IInv
    PROVE  /\ Incs(outbox) \in Nat /\ Units(Incs(outbox)) \in Nat /\ HeldUnits \in Nat
           /\ Units(delivered) \in Nat /\ Units(job.release) \in Nat /\ Units(upSem) \in Nat /\ Units(credits) \in Nat
           /\ Units(upSem) + Units(job.release) + Units(Incs(outbox)) + Units(delivered) + HeldUnits + Units(credits)
                = RingSize
<1>1. Types
  BY DEF IInv
<1>inside. PICK base \in Nat, wr \in Nat, end \in Nat, hi \in Nat : \E W : Inside(base, wr, end, W, hi)
  BY DEF IInv
<1>2. PICK W : Inside(base, wr, end, W, hi)
  BY <1>inside
<1>3. /\ Units(delivered) \in Nat /\ Units(job.release) \in Nat /\ Units(upSem) \in Nat /\ Units(credits) \in Nat
      /\ HeldUnits \in Nat
      /\ hi + Units(job.release) + Units(upSem) + Units(credits) + HeldUnits = base + fence + RingSize
  BY <1>1, <1>2, Geometry
<1>4. fence \in Nat /\ RingSize \in Nat
  BY <1>1, DispatcherTypes
<1>5. PICK lo \in Nat : lo = base + fence + Units(delivered)
  BY <1>3, <1>4
<1>6. Incs(outbox) \in Nat /\ lo + Units(Incs(outbox)) = hi
  <2>1. Channel(outbox, scratch, ring, base, base + ptr, wr, W, lo, hi)
    BY <1>2, <1>5 DEF Inside
  <2> QED
    BY <2>1, IncsUnderWay
<1>7. Units(Incs(outbox)) \in Nat
  BY <1>6, UnitsOf
<1>8. Units(upSem) + Units(job.release) + Units(Incs(outbox)) + Units(delivered) + HeldUnits + Units(credits) = RingSize
  BY <1>3, <1>4, <1>5, <1>6, <1>7
<1> QED
  BY <1>3, <1>6, <1>7, <1>8

\* What the dispatcher holds is a whole number of pages.
LEMMA HeldIs ==
    ASSUME IInv
    PROVE  Held \in Nat /\ HeldUnits = Units(Held)
<1>1. Types
  BY DEF IInv
<1>inside. PICK base \in Nat, wr \in Nat, end \in Nat, hi \in Nat : \E W : Inside(base, wr, end, W, hi)
  BY DEF IInv
<1>2. PICK W : Inside(base, wr, end, W, hi)
  BY <1>inside
<1>3. CASE dpc \in {"waitAll", "out"}
  BY <1>3, UnitsOf DEF Held, HeldUnits
<1>4. CASE dpc \notin {"waitAll", "out"}
  <2>1. fence \in Nat /\ Aligned(fence) /\ BlockStart <= fence /\ BlockStart \in Nat /\ block \in Nat
    BY <1>1, <1>2, DispatcherTypes, BlockIs DEF Inside, Space
  <2>2. dpc = "releaseBlock" => ptr = fence
    BY <1>2 DEF Inside, Dispatcher, Ending
  <2>3. PICK k \in Nat : fence = Units(k) /\ fence \div PageSize = k
    BY <2>1, WholePages
  <2>4. PageSize \in Nat /\ BlockPages \in Nat /\ BlockSize = Units(BlockPages) /\ BlockSize \in Nat
    BY Sizes
  <2>5. PICK b \in Nat : b = block * BlockPages
    BY <2>1, <2>4
  <2>6. BlockStart = Units(b)
    BY <2>1, <2>4, <2>5 DEF BlockStart, BlockSize, Units
  <2>7. k - b \in Nat /\ Units(k - b) = Units(k) - Units(b)
    BY <2>1, <2>3, <2>6, FewerUnits
  <2>8. PICK d \in Nat : d = k - b
    BY <2>7
  <2>9. PICK e \in Nat : e = IF prev /\ dpc # "releaseBlock" THEN BlockPages ELSE 0
    BY <2>4
  <2>10. Held = d + e
    BY <2>2, <2>3, <2>5, <2>8, <2>9, <1>4 DEF Held
  <2>11. Units(d + e) = Units(d) + Units(e)
    BY UnitsOf
  <2>12. Units(e) = IF prev /\ dpc # "releaseBlock" THEN BlockSize ELSE 0
    BY <2>4, <2>9, UnitsOf
  <2>13. HeldUnits = Units(d) + Units(e)
    BY <2>3, <2>6, <2>7, <2>8, <2>12, <1>4 DEF HeldUnits
  <2> QED
    BY <2>10, <2>11, <2>13
<1> QED
  BY <1>3, <1>4

\* DispatchBuffer's inductive invariant, for a dispatcher that does not relay behind a preamble.
THEOREM DispatchBufferInvariant ==
    ASSUME Preamble = 0
    PROVE  Spec => []IInv
<1>1. Init => IInv
  BY InitHolds
<1>2. IInv /\ [Next]_vars => IInv'
  BY NextKeeps
<1> QED
  BY <1>1, <1>2, PTL DEF Spec

\* No semaphore of the two kernels and no counter of cb_acquire_pages and cb_release_pages leaves the number of pages,
\* no pointer the ring, and an orphan is shorter than a page.
THEOREM TypeCorrect ==
    ASSUME Preamble = 0
    PROVE  Spec => []TypeOK
<1>1. IInv => TypeOK
  <2> SUFFICES ASSUME IInv PROVE TypeOK
    OBVIOUS
  <2>1. Types
    BY DEF IInv
  <2>inside. PICK base \in Nat, wr \in Nat, end \in Nat, hi \in Nat : \E W : Inside(base, wr, end, W, hi)
    BY DEF IInv
  <2>2. PICK W : Inside(base, wr, end, W, hi)
    BY <2>inside
  <2>3. Units(upSem) <= RingSize /\ Units(credits) <= RingSize /\ Units(delivered) <= RingSize
    BY PagesAdd, Sizes
  <2>4. upSem \in Nat /\ credits \in Nat /\ delivered \in Nat
    BY <2>1 DEF Types
  <2>5. RingSize = Units(Pages) /\ Pages \in Nat
    BY Sizes
  <2>6. upSem <= Pages /\ credits <= Pages /\ delivered <= Pages
    BY <2>3, <2>4, <2>5, FewerUnits
  <2>7. part \in 0 .. PageSize
    <3>1. part \in Nat /\ PageSize \in Nat /\ XferSize \in 1 .. PageSize
      BY <2>1, Sizes DEF Types
    <3>2. part = 0 \/ part < XferSize
      BY <2>2 DEF Inside, Dispatcher, Executes
    <3> QED
      BY <3>1, <3>2
  <2>8. dpc \in {"cmd", "linear", "paged", "packed", "large", "relay", "barrier", "releaseBlock", "waitAll", "out"}
    BY <2>1 DEF Types, Executing, Ending
  <2>9. upSem \in 0 .. Pages /\ credits \in 0 .. Pages /\ delivered \in 0 .. Pages
    BY <2>4, <2>5, <2>6
  <2> QED
    BY <2>1, <2>7, <2>8, <2>9 DEF TypeOK, Types
<1> QED
  BY <1>1, DispatchBufferInvariant, PTL

\* Nothing in the ring is overwritten by write_downstream or write_pages_to_dispatcher before the dispatcher's NOC write
\* has read it, and process_cmd_d reads a header where the last command ended, for every size of page, block and ring.
THEOREM DataIntactHolds ==
    ASSUME Preamble = 0
    PROVE  Spec => []DataIntact
<1>1. IInv => DataIntact
  <2> SUFFICES ASSUME IInv PROVE DataIntact
    OBVIOUS
  <2>1. Types /\ Unsent
    BY DEF IInv
  <2>inside. PICK base \in Nat, wr \in Nat, end \in Nat, hi \in Nat : \E W : Inside(base, wr, end, W, hi)
    BY DEF IInv
  <2>2. PICK W : Inside(base, wr, end, W, hi)
    BY <2>inside
  <2>3. ASSUME unsent # <<>>, NEW k \in 0 .. unsent[1].n - 1
        PROVE  /\ unsent[1].src + k < RingSize
               /\ ring[unsent[1].src + k].cmd = unsent[1].cmd /\ ring[unsent[1].src + k].idx = unsent[1].first + k
    <3>1. unsent[1].src + unsent[1].n <= RingSize
      BY <2>1, <2>3 DEF Unsent
    <3>2. unsent[1].src \in Nat /\ unsent[1].n \in Nat
      BY <2>1, <2>3, UnsentIs
    <3>3. PICK s \in Nat, n \in Nat : s = unsent[1].src /\ n = unsent[1].n
      BY <3>2
    <3>4. s + n <= RingSize /\ k \in 0 .. n - 1
      BY <3>1, <3>3
    <3>5. s + k < RingSize
      BY <3>4, Sizes
    <3> QED
      BY <3>3, <3>5, <2>1, <2>3 DEF Unsent
  <2>4. ASSUME dpc = "cmd", got \/ ptr # fence
        PROVE  ring[ptr].cmd = dcmd /\ ring[ptr].idx = 0
    <3>1. ptr # fence
      BY <2>2, <2>4 DEF Inside, Dispatcher, NeedsPage
    <3>2. PICK s, par : s = base + ptr /\ par = NextParity
      OBVIOUS
    <3> QED
      BY <3>1, <3>2, <2>1, <2>2, <2>4, HeaderIs
  <2> QED
    BY <2>3, <2>4 DEF DataIntact
<1> QED
  BY <1>1, DispatchBufferInvariant, PTL

\* "spinning here is a leak": no page is lost or made up between cb_acquire_pages and cb_release_pages of the two
\* kernels, cb_block_release_pages and the terminate.
THEOREM PagesConservedHolds ==
    ASSUME Preamble = 0
    PROVE  Spec => []PagesConserved
<1>1. IInv => PagesConserved
  <2> SUFFICES ASSUME IInv PROVE PagesConserved
    OBVIOUS
  <2>1. Types
    BY DEF IInv
  <2>2. PICK a, b, c, d, e, f \in Nat :
          a = upSem /\ b = job.release /\ c = Incs(outbox) /\ d = delivered /\ e = Held /\ f = credits
    <3>1. upSem \in Nat /\ job.release \in Nat /\ delivered \in Nat /\ credits \in Nat
      BY <2>1 DEF Types
    <3> QED
      BY <3>1, PagesAdd, HeldIs
  <2>3. Units(a) + Units(b) + Units(c) + Units(d) + Units(e) + Units(f) = RingSize
    BY <2>2, PagesAdd, HeldIs
  <2>4. PICK s \in Nat : s = a + b + c + d + e + f
    OBVIOUS
  <2>5. Units(s) = Units(a) + Units(b) + Units(c) + Units(d) + Units(e) + Units(f)
    BY <2>4, Sizes DEF Units
  <2>6. Units(s) = Units(Pages) /\ Pages \in Nat
    BY <2>3, <2>5, Sizes
  <2>7. Units(s) <= Units(Pages) /\ Units(Pages) <= Units(s)
    <3>1. Units(s) \in Nat
      BY UnitsOf
    <3> QED
      BY <3>1, <2>6
  <2>8. s <= Pages /\ Pages <= s
    BY <2>6, <2>7, FewerUnits
  <2>9. s = Pages
    BY <2>6, <2>8
  <2> QED
    BY <2>2, <2>4, <2>9 DEF PagesConserved
<1> QED
  BY <1>1, DispatchBufferInvariant, PTL
=============================================================================
