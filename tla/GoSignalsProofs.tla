--------------------------- MODULE GoSignalsProofs ---------------------------
(***************************************************************************)
(* Proofs that, for every set of workers, all sizes of the two buffers and *)
(* the three ways to run the dispatchers, no go signal reaches a worker    *)
(* that is not done and a wait of dispatch_d means what the host takes it  *)
(* to mean.                                                                *)
(*                                                                         *)
(* The two dispatchers process one stream of commands at different speeds, *)
(* and counts are reset on the way.  The invariant numbers the go signals  *)
(* in the order of the stream and speaks of totals that are never reset: a *)
(* count is a total less the base at which it was last reset.  dispatch_d  *)
(* has notified of d.k of them and counts from d.b, dispatch_s has sent    *)
(* s.k and counts from s.b, and the commands that each has yet to process  *)
(* lead to where the host is.                                              *)
(***************************************************************************)
EXTENDS GoSignals, CommandPaths, Integers, FiniteSetTheorems, SequenceTheorems, TLAPS

\* The go signals in the order of the stream: sum[k] workers were given work before number k, whose count is counted
\* from base[k], and cfg[k] configurations belong to those before it; end of them have been enqueued.
History == [end : Nat, sum : [Nat -> Nat], base : [Nat -> Nat], cfg : [Nat -> Nat]]

Ordered(h) ==
    \A i, j \in 0 .. h.end : i < j => h.sum[i] < h.sum[j] /\ h.cfg[i] <= h.cfg[j]

\* What dispatch_d has done: k go signals notified of (or sent), the base b it counts from, f configurations written,
\* l of them known to have landed; u is 1 when unicast_only_cores is known. Likewise for dispatch_s.
DVal == [k : Nat, b : Nat, f : Nat, l : Nat, u : {0, 1}]
SVal == [k : Nat, b : Nat, u : {0, 1}]

\* Command c is go signal number k.
GoAt(h, c, k) ==
    /\ c.on \in Groups
    /\ h.sum[k + 1] = h.sum[k] + Cardinality(c.on)
    /\ h.cfg[k + 1] = h.cfg[k] + (IF c.op = "go" THEN 1 ELSE 0)

\* dispatch_d processes command c, or does not see it.
DStep(h, c, a, z) ==
    IF c.to # "d" THEN z = a
    ELSE /\ z.k <= h.end
         /\ z.k = (IF c.op \in {"notify", "go", "reset"} THEN a.k + 1 ELSE a.k)
         /\ z.b = (IF c.op = "clear" THEN h.sum[a.k] ELSE a.b)
         /\ z.f = (IF c.op = "config" THEN a.f + 1 ELSE a.f)
         /\ z.l = (IF c.op = "barrier" THEN a.f ELSE a.l)
         /\ z.u = (IF c.op = "unicast" THEN 1 ELSE a.u)
         /\ c.op \in {"wait", "clear"} => a.b + c.count = h.sum[a.k]
         /\ c.op = "notify" => mode # "master" /\ h.base[a.k] = a.b /\ h.cfg[a.k + 1] <= a.l
         /\ c.op \in {"go", "reset"} => /\ mode = "master" /\ a.u = 1 /\ GoAt(h, c, a.k)
                                        /\ a.b + c.count = h.sum[a.k] /\ h.cfg[a.k + 1] <= a.l
         /\ c.op = "unicast" => mode = "master" /\ c.on = UnicastCores

\* dispatch_s processes command c, or does not see it.
SStep(h, c, a, z) ==
    IF c.to # "s" THEN z = a
    ELSE /\ mode # "master" /\ z.k <= h.end
         /\ z.k = (IF c.op \in {"go", "reset"} THEN a.k + 1 ELSE a.k)
         /\ z.b = (IF c.op = "clear" THEN h.sum[a.k] ELSE a.b)
         /\ z.u = (IF c.op = "unicast" THEN 1 ELSE a.u)
         /\ c.op \in {"go", "reset"} => /\ a.u = 1 /\ GoAt(h, c, a.k)
                                        /\ h.base[a.k] + c.count = h.sum[a.k]
                                        /\ mode = "distributed" => h.base[a.k] = a.b
         /\ c.op = "clear" => mode = "distributed" /\ a.b + c.count = h.sum[a.k] /\ h.base[a.k] = h.sum[a.k]
         /\ c.op = "unicast" => c.on = UnicastCores

DSteps(h) == {t \in Command \X DVal \X DVal : DStep(h, t[1], t[2], t[3])}
SSteps(h) == {t \in Command \X SVal \X SVal : SStep(h, t[1], t[2], t[3])}

\* What the host has enqueued last.
HostAt(h, d, s) ==
    /\ d.k = h.end /\ h.base[h.end] = d.b /\ h.sum[h.end] = d.b + expected
    /\ h.cfg[h.end] <= d.f /\ h.cfg[h.end] <= d.l
    /\ mode = "master" => d.u = 1
    /\ mode # "master" => s.k = h.end /\ s.u = 1
    /\ mode = "distributed" => s.b = d.b

\* The commands in its buffer lead each dispatcher from d and s to dm and sm, those not relayed to the host.
Underway(h, d, dm, s, sm) ==
    /\ Path(qd, DSteps(h), DVal, d, dm) /\ Path(qs, SSteps(h), SVal, s, sm)
    /\ \E de \in DVal, se \in SVal :
          /\ Path(stream, DSteps(h), DVal, dm, de) /\ Path(stream, SSteps(h), SVal, sm, se)
          /\ HostAt(h, de, se)

InStream(h, d, s) == \E dm \in DVal, sm \in SVal : Underway(h, d, dm, s, sm)

-----------------------------------------------------------------------------
Busy == {w \in Workers : worker[w] # "idle"}
Unfinished == reports + Cardinality(Busy)

\* The go signals that were sent, and those that were only notified of.
Sent(d, s) == IF mode = "master" THEN d.k ELSE s.k
Pending == notices + notified + (IF taken THEN 1 ELSE 0)

\* The go signals that dispatch_d has notified of count from its base: it clears only when none is pending.
Notified(h, d, s) ==
    /\ d.k = Sent(d, s) + Pending /\ d.k <= h.end
    /\ \A k \in Nat : Sent(d, s) <= k /\ k < d.k => h.base[k] = d.b

\* The configurations of all go signals that dispatch_d has notified of have landed.
Configured(h, d, s) ==
    /\ h.cfg[d.k] <= d.l /\ d.l <= d.f
    /\ d.l <= ready + h.cfg[Sent(d, s)]
    /\ d.f <= ready + configs + h.cfg[Sent(d, s)]

\* The counts on their way to dispatch_d grow, from the one it has to at most n.
Growing(n) ==
    /\ countD <= n
    /\ \A i \in 1 .. Len(updates) : countD < updates[i] /\ updates[i] <= n
    /\ \A i, j \in 1 .. Len(updates) : i < j => updates[i] < updates[j]

\* Two dispatchers that each clear: they count from the same base, or dispatch_s has cleared already, or dispatch_d.
SameBase(d, s) == s.b = d.b /\ Growing(forwarded) /\ forwarded <= countS
SlaveAhead(h, d, s) ==
    /\ d.b < s.b /\ s.b = h.sum[s.k] /\ d.k = s.k /\ h.base[s.k] = s.b
    /\ forwarded = 0 /\ Growing(h.sum[s.k] - d.b)
MasterAhead(h, d, s) ==
    /\ s.b < d.b /\ d.b = h.sum[s.k]
    /\ countD = 0 /\ updates = <<>> /\ forwarded = countS /\ h.sum[s.k] = s.b + countS

\* What was given to the workers is what was counted and what is unfinished.
Counted(h, d, s) ==
    /\ mode # "distributed" => h.sum[Sent(d, s)] = d.b + countD + Unfinished /\ updates = <<>>
    /\ mode = "distributed" => /\ h.sum[s.k] = s.b + countS + Unfinished
                               /\ SameBase(d, s) \/ SlaveAhead(h, d, s) \/ MasterAhead(h, d, s)

UnicastKnown(d, s) == (IF mode = "master" THEN d.u ELSE s.u) = 1 => unicast_only_cores = UnicastCores

At(h, d, s) == Notified(h, d, s) /\ Configured(h, d, s) /\ Counted(h, d, s) /\ UnicastKnown(d, s)

\* An atomic on its way subtracts what the count is and what the host expects; a notification is taken for the first
\* command; commands are in the buffer of the dispatcher they are for.
Places ==
    /\ clearing # None => DIs({"clear"}) /\ clearing = countD /\ countD = Head(qd).count
    /\ taken => SIs({"go", "reset"})
    /\ \A i \in 1 .. Len(qd) : qd[i].to = "d"
    /\ \A i \in 1 .. Len(qs) : qs[i].to = "s"

InStep == \E h \in History, d \in DVal, s \in SVal : Ordered(h) /\ InStream(h, d, s) /\ At(h, d, s)

IInv == TypeOK /\ Places /\ InStep

-----------------------------------------------------------------------------
(* Workers *)

\* There are finitely many workers.
LEMMA BusyFinite ==
    /\ IsFiniteSet(Busy) /\ Cardinality(Busy) \in Nat
    /\ Cardinality(Busy) = 0 => Busy = {}
    /\ Busy = {} => Cardinality(Busy) = 0
  <1>1. IsFiniteSet(Busy)
    BY GoAssumption, FS_Subset DEF Busy
  <1> QED BY <1>1, FS_CardinalityType, FS_EmptySet

\* A go signal is for one worker at least.
LEMMA GroupSize ==
    ASSUME NEW on \in Groups
    PROVE  on \in SUBSET Workers /\ IsFiniteSet(on) /\ Cardinality(on) \in Nat /\ Cardinality(on) >= 1
  <1>1. on \in SUBSET Workers /\ IsFiniteSet(on) /\ on # {}
    BY GoAssumption, FS_Subset DEF Groups
  <1>2. Cardinality(on) \in Nat /\ Cardinality(on) # 0
    BY <1>1, FS_CardinalityType, FS_EmptySet
  <1> QED BY <1>1, <1>2

\* A worker that is done is one less.
LEMMA WorkerFinishes ==
    ASSUME NEW w \in Workers, worker \in [Workers -> {"idle", "go", "reset", "run"}],
           worker[w] # "idle", worker' = [worker EXCEPT ![w] = "idle"]
    PROVE  Cardinality(Busy)' + 1 = Cardinality(Busy)
  <1>1. Busy' = Busy \ {w} /\ w \in Busy
    BY DEF Busy
  <1>2. Cardinality(Busy \ {w}) = Cardinality(Busy) - 1
    BY <1>1, BusyFinite, FS_RemoveElement
  <1> QED BY <1>1, <1>2, BusyFinite

\* The go signal reaches the cores it is for.
LEMMA GoReaches ==
    ASSUME NEW c \in Command, c.on \in Groups, c.op \in {"go", "reset"}, unicast_only_cores = UnicastCores,
           worker \in [Workers -> {"idle", "go", "reset", "run"}], Busy = {}, SendGo(c)
    PROVE  Cardinality(Busy)' = Cardinality(c.on) /\ worker' \in [Workers -> {"idle", "go", "reset", "run"}]
  <1>1. SendTo(c.on) = c.on
    <2>1. c.on \subseteq Workers /\ c.on \cap McastCores \in {{}, McastCores} /\ c.on \cap UnicastCores \in {{}, UnicastCores}
      BY DEF Groups
    <2> QED BY <2>1 DEF SendTo, Workers
  <1>2. worker' = [w \in Workers |-> IF w \in c.on THEN c.op ELSE worker[w]]
    BY <1>1 DEF SendGo
  <1>3. Busy' = c.on
    <2>1. \A w \in Workers : worker[w] = "idle"
      BY DEF Busy
    <2>2. c.on \subseteq Workers
      BY DEF Groups
    <2> QED BY <1>2, <2>1, <2>2 DEF Busy
  <1> QED BY <1>2, <1>3

-----------------------------------------------------------------------------
(* Commands *)

\* A command and two values are a step when the dispatcher can go from one to the other by it.
LEMMA StepFacts ==
    ASSUME NEW h, NEW c \in Command
    PROVE  /\ \A a, z \in DVal : <<c, a, z>> \in DSteps(h) <=> DStep(h, c, a, z)
           /\ \A a, z \in SVal : <<c, a, z>> \in SSteps(h) <=> SStep(h, c, a, z)
  BY DEF DSteps, SSteps

\* The mode never changes.
LEMMA StepsStay ==
    ASSUME NEW h, mode' = mode
    PROVE  DSteps(h)' = DSteps(h) /\ SSteps(h)' = SSteps(h)
  BY DEF DSteps, SSteps, DStep, SStep

\* A step that moves no command.
LEMMA QueuesStay ==
    ASSUME NEW h, NEW d, NEW s, InStream(h, d, s), UNCHANGED <<qd, qs, stream, expected, mode>>
    PROVE  InStream(h, d, s)'
  <1>1. qd' = qd /\ qs' = qs /\ stream' = stream /\ expected' = expected /\ mode' = mode
    OBVIOUS
  <1>2. DSteps(h)' = DSteps(h) /\ SSteps(h)' = SSteps(h)
    BY <1>1, StepsStay
  <1> HIDE DEF DSteps, SSteps
  <1>3. PICK dm \in DVal, sm \in SVal : Underway(h, d, dm, s, sm)
    BY DEF InStream
  <1>4. Underway(h, d, dm, s, sm)'
    BY <1>1, <1>2, <1>3 DEF Underway, HostAt
  <1> QED BY <1>4 DEF InStream

\* What a dispatcher's first command is and does.
LEMMA DTail ==
    ASSUME TypeOK, Places, NEW h \in History, NEW d \in DVal, NEW s \in SVal, InStream(h, d, s), qd # <<>>
    PROVE  \E z \in DVal : /\ Head(qd) \in Command /\ Head(qd).to = "d" /\ DStep(h, Head(qd), d, z)
                           /\ qd' = Tail(qd) /\ UNCHANGED <<qs, stream, expected, mode>> => InStream(h, z, s)'
  <1>1. PICK dm \in DVal, sm \in SVal : Underway(h, d, dm, s, sm)
    BY DEF InStream
  <1>2. qd \in Seq(Command) /\ Path(qd, DSteps(h), DVal, d, dm)
    BY <1>1 DEF TypeOK, Underway
  <1>3. PICK z \in DVal : <<Head(qd), d, z>> \in DSteps(h) /\ Path(Tail(qd), DSteps(h), DVal, z, dm)
    BY <1>2, PathTail
  <1>4. Head(qd) \in Command /\ Head(qd).to = "d"
    <2>1. Len(qd) \in Nat /\ Len(qd) >= 1 /\ Head(qd) = qd[1] /\ Head(qd) \in Command
      BY <1>2, LenProperties, EmptySeq, HeadTailProperties
    <2>2. 1 \in 1 .. Len(qd)
      BY <2>1
    <2> QED BY <2>1, <2>2 DEF Places
  <1>5. DStep(h, Head(qd), d, z)
    BY <1>3, <1>4, StepFacts
  <1>6. ASSUME qd' = Tail(qd), UNCHANGED <<qs, stream, expected, mode>>
        PROVE  InStream(h, z, s)'
    <2>1. DSteps(h)' = DSteps(h) /\ SSteps(h)' = SSteps(h)
      BY <1>6, StepsStay
    <2>2. qd' = Tail(qd) /\ qs' = qs /\ stream' = stream /\ expected' = expected /\ mode' = mode
      BY <1>6
    <2> HIDE DEF DSteps, SSteps
    <2>3. Underway(h, z, dm, s, sm)'
      BY <1>1, <1>3, <2>1, <2>2 DEF Underway, HostAt
    <2> QED BY <2>3 DEF InStream
  <1> QED BY <1>4, <1>5, <1>6

\* The same for dispatch_s.
LEMMA STail ==
    ASSUME TypeOK, Places, NEW h \in History, NEW d \in DVal, NEW s \in SVal, InStream(h, d, s), qs # <<>>
    PROVE  \E z \in SVal : /\ Head(qs) \in Command /\ Head(qs).to = "s" /\ SStep(h, Head(qs), s, z)
                           /\ qs' = Tail(qs) /\ UNCHANGED <<qd, stream, expected, mode>> => InStream(h, d, z)'
  <1>1. PICK dm \in DVal, sm \in SVal : Underway(h, d, dm, s, sm)
    BY DEF InStream
  <1>2. qs \in Seq(Command) /\ Path(qs, SSteps(h), SVal, s, sm)
    BY <1>1 DEF TypeOK, Underway
  <1>3. PICK z \in SVal : <<Head(qs), s, z>> \in SSteps(h) /\ Path(Tail(qs), SSteps(h), SVal, z, sm)
    BY <1>2, PathTail
  <1>4. Head(qs) \in Command /\ Head(qs).to = "s"
    <2>1. Len(qs) \in Nat /\ Len(qs) >= 1 /\ Head(qs) = qs[1] /\ Head(qs) \in Command
      BY <1>2, LenProperties, EmptySeq, HeadTailProperties
    <2>2. 1 \in 1 .. Len(qs)
      BY <2>1
    <2> QED BY <2>1, <2>2 DEF Places
  <1>5. SStep(h, Head(qs), s, z)
    BY <1>3, <1>4, StepFacts
  <1>6. ASSUME qs' = Tail(qs), UNCHANGED <<qd, stream, expected, mode>>
        PROVE  InStream(h, d, z)'
    <2>1. DSteps(h)' = DSteps(h) /\ SSteps(h)' = SSteps(h)
      BY <1>6, StepsStay
    <2>2. qs' = Tail(qs) /\ qd' = qd /\ stream' = stream /\ expected' = expected /\ mode' = mode
      BY <1>6
    <2> HIDE DEF DSteps, SSteps
    <2>3. Underway(h, d, dm, z, sm)'
      BY <1>1, <1>3, <2>1, <2>2 DEF Underway, HostAt
    <2> QED BY <2>3 DEF InStream
  <1> QED BY <1>4, <1>5, <1>6

\* The prefetcher moves a command from the stream to the buffer of the dispatcher it is for; the other one does not see it.
LEMMA RelayMoves ==
    ASSUME TypeOK, NEW h \in History, NEW d \in DVal, NEW s \in SVal, InStream(h, d, s), Relay
    PROVE  InStream(h, d, s)'
  <1>1. PICK dm \in DVal, sm \in SVal : Underway(h, d, dm, s, sm)
    BY DEF InStream
  <1>2. PICK de \in DVal, se \in SVal :
           /\ Path(stream, DSteps(h), DVal, dm, de) /\ Path(stream, SSteps(h), SVal, sm, se)
           /\ HostAt(h, de, se)
    BY <1>1 DEF Underway
  <1>3. /\ stream # <<>> /\ stream' = Tail(stream) /\ mode' = mode /\ expected' = expected
        /\ stream \in Seq(Command) /\ qd \in Seq(Command) /\ qs \in Seq(Command)
    BY DEF Relay, TypeOK
  <1>4. Head(stream) \in Command
    BY <1>3, HeadTailProperties
  <1>5. PICK z \in DVal : <<Head(stream), dm, z>> \in DSteps(h) /\ Path(Tail(stream), DSteps(h), DVal, z, de)
    BY <1>2, <1>3, PathTail
  <1>6. PICK y \in SVal : <<Head(stream), sm, y>> \in SSteps(h) /\ Path(Tail(stream), SSteps(h), SVal, y, se)
    BY <1>2, <1>3, PathTail
  <1>7. DSteps(h)' = DSteps(h) /\ SSteps(h)' = SSteps(h) /\ HostAt(h, de, se)'
    BY <1>2, <1>3, StepsStay DEF HostAt
  <1>8. Path(qd, DSteps(h), DVal, d, dm) /\ Path(qs, SSteps(h), SVal, s, sm)
    BY <1>1 DEF Underway
  <1>9. CASE Head(stream).to = "d"
    <2>1. qd' = Append(qd, Head(stream)) /\ qs' = qs
      BY <1>9 DEF Relay
    <2>2. y = sm
      <3>1. SStep(h, Head(stream), sm, y)
        BY <1>4, <1>6, StepFacts
      <3>2. Head(stream).to # "s"
        BY <1>9
      <3> QED BY <3>1, <3>2 DEF SStep
    <2>3. Path(Append(qd, Head(stream)), DSteps(h), DVal, d, z)
      BY <1>3, <1>4, <1>5, <1>8, PathAppend
    <2> HIDE DEF DSteps, SSteps, HostAt
    <2>4. Underway(h, d, z, s, sm)'
      BY <1>3, <1>5, <1>6, <1>7, <1>8, <2>1, <2>2, <2>3 DEF Underway
    <2> QED BY <2>4 DEF InStream
  <1>10. CASE Head(stream).to # "d"
    <2>1. qs' = Append(qs, Head(stream)) /\ qd' = qd
      BY <1>10 DEF Relay
    <2>2. z = dm
      <3>1. DStep(h, Head(stream), dm, z)
        BY <1>4, <1>5, StepFacts
      <3> QED BY <1>10, <3>1 DEF DStep
    <2>3. Path(Append(qs, Head(stream)), SSteps(h), SVal, s, y)
      BY <1>3, <1>4, <1>6, <1>8, PathAppend
    <2> HIDE DEF DSteps, SSteps, HostAt
    <2>4. Underway(h, d, dm, s, y)'
      BY <1>3, <1>5, <1>6, <1>7, <1>8, <2>1, <2>2, <2>3 DEF Underway
    <2> QED BY <2>4 DEF InStream
  <1> QED BY <1>9, <1>10

-----------------------------------------------------------------------------
(* What a count that has been reached means *)

\* The types of the parts of the invariant.
LEMMA Numbers ==
    ASSUME TypeOK, NEW h \in History, NEW d \in DVal, NEW s \in SVal
    PROVE  /\ h.end \in Nat /\ h.sum \in [Nat -> Nat] /\ h.base \in [Nat -> Nat] /\ h.cfg \in [Nat -> Nat]
           /\ d.k \in Nat /\ d.b \in Nat /\ d.f \in Nat /\ d.l \in Nat /\ d.u \in {0, 1}
           /\ s.k \in Nat /\ s.b \in Nat /\ s.u \in {0, 1}
           /\ Sent(d, s) \in Nat /\ Pending \in Nat /\ Unfinished \in Nat
           /\ Unfinished = 0 => reports = 0 /\ Busy = {}
           /\ countD \in Nat /\ countS \in Nat /\ forwarded \in Nat /\ updates \in Seq(Nat) /\ Len(updates) \in Nat
           /\ configs \in Nat /\ ready \in Nat /\ notices \in Nat /\ notified \in Nat /\ reports \in Nat
  <1>1. /\ h.end \in Nat /\ h.sum \in [Nat -> Nat] /\ h.base \in [Nat -> Nat] /\ h.cfg \in [Nat -> Nat]
    BY DEF History
  <1>2. /\ d.k \in Nat /\ d.b \in Nat /\ d.f \in Nat /\ d.l \in Nat /\ d.u \in {0, 1}
        /\ s.k \in Nat /\ s.b \in Nat /\ s.u \in {0, 1}
    BY DEF DVal, SVal
  <1>3. /\ countD \in Nat /\ countS \in Nat /\ forwarded \in Nat /\ updates \in Seq(Nat)
        /\ configs \in Nat /\ ready \in Nat /\ notices \in Nat /\ notified \in Nat /\ reports \in Nat
    BY DEF TypeOK
  <1>4. Len(updates) \in Nat
    BY <1>3, LenProperties
  <1>5. Sent(d, s) \in Nat /\ Pending \in Nat
    BY <1>2, <1>3 DEF Sent, Pending
  <1>6. Unfinished \in Nat /\ (Unfinished = 0 => reports = 0 /\ Busy = {})
    <2> DEFINE n == Cardinality(Busy)
    <2>1. n \in Nat /\ (n = 0 => Busy = {})
      BY BusyFinite
    <2> HIDE DEF n
    <2>2. reports + n \in Nat /\ (reports + n = 0 => reports = 0 /\ n = 0)
      BY <1>3, <2>1
    <2> QED BY <2>1, <2>2 DEF Unfinished, n
  <1> QED BY <1>1, <1>2, <1>3, <1>4, <1>5, <1>6

\* Go signals that are pending are for workers.
LEMMA PendingCounts ==
    ASSUME TypeOK, NEW h \in History, NEW d \in DVal, NEW s \in SVal, Ordered(h), Notified(h, d, s)
    PROVE  /\ Sent(d, s) <= d.k /\ d.k <= h.end
           /\ h.sum[Sent(d, s)] \in Nat /\ h.sum[d.k] \in Nat
           /\ h.sum[Sent(d, s)] <= h.sum[d.k]
           /\ h.sum[Sent(d, s)] = h.sum[d.k] => Sent(d, s) = d.k /\ Pending = 0
           /\ h.cfg[Sent(d, s)] \in Nat /\ h.cfg[d.k] \in Nat
           /\ h.cfg[Sent(d, s)] <= h.cfg[d.k]
  <1> DEFINE k == Sent(d, s)
  <1>1. k \in Nat /\ d.k \in Nat /\ Pending \in Nat /\ h.end \in Nat /\ d.k = k + Pending /\ d.k <= h.end
        /\ h.sum \in [Nat -> Nat] /\ h.cfg \in [Nat -> Nat]
    BY Numbers DEF Notified
  <1>2. h.sum[k] \in Nat /\ h.sum[d.k] \in Nat /\ h.cfg[k] \in Nat /\ h.cfg[d.k] \in Nat
    BY <1>1
  <1> HIDE DEF k
  <1>3. k <= d.k /\ k \in 0 .. h.end /\ d.k \in 0 .. h.end /\ (k = d.k => Pending = 0)
    BY <1>1
  <1>4. CASE k = d.k
    BY <1>1, <1>2, <1>3, <1>4 DEF k
  <1>5. CASE k # d.k
    <2>1. k < d.k
      BY <1>1, <1>3, <1>5
    <2>2. h.sum[k] < h.sum[d.k] /\ h.cfg[k] <= h.cfg[d.k]
      BY <1>3, <2>1 DEF Ordered
    <2>3. h.sum[k] <= h.sum[d.k] /\ h.sum[k] # h.sum[d.k]
      BY <1>2, <2>2
    <2> QED BY <1>1, <1>2, <1>3, <2>2, <2>3 DEF k
  <1> QED BY <1>4, <1>5

\* Counts that grow from n to at most n are none.
LEMMA NoneGrowing ==
    ASSUME TypeOK, NEW n \in Nat, Growing(n), n <= countD
    PROVE  countD = n /\ updates = <<>>
  <1>1. countD \in Nat /\ updates \in Seq(Nat)
    BY DEF TypeOK
  <1>2. Len(updates) \in Nat /\ \A i \in 1 .. Len(updates) : updates[i] \in Nat
    BY <1>1, LenProperties, ElementOfSeq
  <1>3. \A i \in 1 .. Len(updates) : FALSE
    BY <1>1, <1>2 DEF Growing
  <1>4. Len(updates) = 0
    BY <1>2, <1>3
  <1> QED BY <1>1, <1>4, EmptySeq DEF Growing

\* When dispatch_d sees the count that the host expects, nothing it let go before is pending, unfinished or on its way.
LEMMA ReachedByMaster ==
    ASSUME TypeOK, NEW h \in History, NEW d \in DVal, NEW s \in SVal, Ordered(h), Notified(h, d, s), Counted(h, d, s),
           NEW n \in Nat, d.b + n = h.sum[d.k], n <= countD
    PROVE  /\ Sent(d, s) = d.k /\ Pending = 0 /\ Unfinished = 0 /\ countD = n /\ updates = <<>>
           /\ mode = "distributed" => h.sum[s.k] = s.b + countS /\ forwarded <= countS
           /\ mode = "distributed" /\ s.b = d.b => forwarded = countS /\ countS = n
  <1> DEFINE k == Sent(d, s)
             a == h.sum[k]
             z == h.sum[d.k]
             m == Unfinished
  <1>1. /\ d.b \in Nat /\ s.b \in Nat /\ countD \in Nat /\ countS \in Nat /\ forwarded \in Nat /\ m \in Nat
    BY Numbers
  <1>2. a \in Nat /\ z \in Nat /\ a <= z /\ (a = z => k = d.k /\ Pending = 0) /\ d.b + n = z
    BY PendingCounts
  <1>3. mode = "distributed" => k = s.k
    BY DEF Sent
  <1>4. CASE mode # "distributed"
    <2>1. a = d.b + countD + m /\ updates = <<>>
      BY <1>4 DEF Counted
    <2> HIDE DEF a, z, m, k
    <2>2. a = z /\ m = 0 /\ countD = n
      BY <1>1, <1>2, <2>1
    <2> QED BY <1>2, <1>4, <2>1, <2>2 DEF k, m
  <1>5. CASE mode = "distributed"
    <2>1. a = s.b + countS + m /\ k = s.k
      BY <1>3, <1>5 DEF Counted
    <2>2. CASE SameBase(d, s)
      <3>1. s.b = d.b /\ Growing(forwarded) /\ forwarded <= countS /\ countD <= forwarded
        BY <2>2 DEF SameBase, Growing
      <3> HIDE DEF a, z, m, k
      <3>2. a = z /\ m = 0 /\ countD = n /\ countS = n /\ forwarded = n
        BY <1>1, <1>2, <2>1, <3>1
      <3>3. updates = <<>>
        BY <3>1, <3>2, NoneGrowing
      <3>4. a = s.b + countS /\ forwarded <= countS
        BY <1>1, <2>1, <3>2
      <3> QED BY <1>2, <1>5, <2>1, <3>2, <3>3, <3>4 DEF k, m, a
    <2>3. CASE SlaveAhead(h, d, s)
      <3>1. d.b < s.b /\ s.b = a /\ d.k = k /\ forwarded = 0 /\ Growing(a - d.b) /\ z = a
        BY <2>1, <2>3 DEF SlaveAhead
      <3>p. Pending = 0
        BY <1>2, <3>1
      <3>2. countS = 0 /\ m = 0 /\ a - d.b = n /\ forwarded <= countS
        <4> HIDE DEF a, z, m, k
        <4> QED BY <1>1, <1>2, <2>1, <3>1
      <3>3. countD = n /\ updates = <<>>
        BY <3>1, <3>2, NoneGrowing
      <3>4. a = s.b + countS /\ s.b # d.b
        <4> HIDE DEF a, z, m, k
        <4> QED BY <1>1, <2>1, <3>2, <3>1
      <3> QED BY <1>5, <2>1, <3>p, <3>1, <3>2, <3>3, <3>4
    <2>4. CASE MasterAhead(h, d, s)
      <3>1. s.b < d.b /\ d.b = a /\ countD = 0 /\ updates = <<>> /\ forwarded = countS /\ a = s.b + countS
        BY <2>1, <2>4 DEF MasterAhead
      <3>2. n = 0 /\ a = z /\ m = 0 /\ s.b # d.b /\ forwarded <= countS
        <4> HIDE DEF a, z, m, k
        <4> QED BY <1>1, <1>2, <2>1, <3>1
      <3> QED BY <1>2, <1>5, <2>1, <3>1, <3>2
    <2> QED BY <1>5, <2>2, <2>3, <2>4 DEF Counted
  <1> QED BY <1>4, <1>5

\* dispatch_s takes a notification of dispatch_d for its first command. When it sees the count that the host expects,
\* all workers are idle, and the configuration has landed.
LEMMA ReachedBySlave ==
    ASSUME TypeOK, NEW h \in History, NEW d \in DVal, NEW s \in SVal, Ordered(h), At(h, d, s), taken,
           NEW c \in Command, c.op \in {"go", "reset"}, c.to = "s", NEW z \in SVal, SStep(h, c, s, z),
           c.count <= WorkerSem
    PROVE  /\ mode # "master" /\ s.k < d.k /\ GoAt(h, c, s.k) /\ Unfinished = 0
           /\ c.op = "go" => ready > 0
           /\ unicast_only_cores = UnicastCores
           /\ mode = "distributed" => SameBase(d, s)
  <1>1. /\ mode # "master" /\ GoAt(h, c, s.k) /\ h.base[s.k] + c.count = h.sum[s.k] /\ s.u = 1
        /\ mode = "distributed" => h.base[s.k] = s.b
    BY DEF SStep
  <1>2. Sent(d, s) = s.k /\ unicast_only_cores = UnicastCores
    BY <1>1 DEF Sent, At, UnicastKnown
  <1>3. /\ d.k = s.k + Pending /\ d.k <= h.end
        /\ \A k \in Nat : s.k <= k /\ k < d.k => h.base[k] = d.b
    BY <1>2 DEF At, Notified
  <1>4. /\ h.end \in Nat /\ h.sum \in [Nat -> Nat] /\ h.base \in [Nat -> Nat] /\ h.cfg \in [Nat -> Nat]
        /\ d.k \in Nat /\ d.b \in Nat /\ d.l \in Nat /\ s.k \in Nat /\ s.b \in Nat
        /\ Pending \in Nat /\ Unfinished \in Nat /\ notices \in Nat /\ notified \in Nat
        /\ countD \in Nat /\ countS \in Nat /\ ready \in Nat
    BY Numbers
  <1>5. Pending >= 1
    BY <1>4 DEF Pending
  <1>6. s.k < d.k
    BY <1>3, <1>4, <1>5
  <1>7. h.base[s.k] = d.b
    BY <1>3, <1>4, <1>6
  <1>c. c.count \in Nat
    BY DEF Command
  <1> DEFINE a == h.sum[s.k]
             m == Unfinished
  <1>8. a \in Nat /\ d.b + c.count = a
    BY <1>1, <1>4, <1>7
  <1>9. Unfinished = 0 /\ (mode = "distributed" => SameBase(d, s))
    <2>1. CASE mode # "distributed"
      <3>1. a = d.b + countD + m /\ c.count <= countD
        BY <1>2, <2>1 DEF At, Counted, WorkerSem
      <3>2. m = 0
        <4> HIDE DEF a, m
        <4> QED BY <1>4, <1>8, <1>c, <3>1 DEF m
      <3> QED BY <2>1, <3>2
    <2>2. CASE mode = "distributed"
      <3>1. a = s.b + countS + m /\ c.count <= countS /\ s.b = d.b
        BY <1>1, <1>7, <2>2 DEF At, Counted, WorkerSem
      <3>2. m = 0
        <4> HIDE DEF a, m
        <4> QED BY <1>4, <1>8, <1>c, <3>1 DEF m
      <3>3. SameBase(d, s)
        <4>1. ~(d.b < s.b) /\ ~(s.b < d.b)
          BY <1>4, <3>1
        <4> QED BY <2>2, <4>1 DEF At, Counted, SlaveAhead, MasterAhead
      <3> QED BY <3>2, <3>3
    <2> QED BY <2>1, <2>2
  <1>10. ASSUME c.op = "go" PROVE ready > 0
    <2>1. h.cfg[s.k + 1] = h.cfg[s.k] + 1 /\ h.cfg[d.k] <= d.l /\ d.l <= ready + h.cfg[s.k]
      BY <1>1, <1>2, <1>10 DEF GoAt, At, Configured
    <2>2. h.cfg[s.k + 1] <= h.cfg[d.k]
      <3>0. d.k <= h.end /\ s.k < d.k /\ s.k \in Nat /\ d.k \in Nat /\ h.end \in Nat
        BY <1>3, <1>4, <1>6
      <3>1. s.k + 1 \in 0 .. h.end /\ d.k \in 0 .. h.end /\ (s.k + 1 = d.k \/ s.k + 1 < d.k)
        BY <3>0
      <3>2. h.cfg[d.k] \in Nat
        BY <1>4
      <3> QED BY <3>1, <3>2 DEF Ordered
    <2>3. h.cfg[s.k + 1] \in Nat /\ h.cfg[s.k] \in Nat /\ h.cfg[d.k] \in Nat
      BY <1>4
    <2> QED BY <1>4, <2>1, <2>2, <2>3
  <1> QED BY <1>1, <1>2, <1>6, <1>9, <1>10

\* The same for a dispatch_d that sends go signals itself.
LEMMA ReachedBySender ==
    ASSUME TypeOK, NEW h \in History, NEW d \in DVal, NEW s \in SVal, Ordered(h), At(h, d, s),
           NEW c \in Command, c.op \in {"go", "reset"}, c.to = "d", NEW z \in DVal, DStep(h, c, d, z),
           c.count <= countD
    PROVE  /\ mode = "master" /\ GoAt(h, c, d.k) /\ Unfinished = 0 /\ Pending = 0
           /\ c.op = "go" => ready > 0
           /\ unicast_only_cores = UnicastCores
  <1>1. /\ mode = "master" /\ GoAt(h, c, d.k) /\ d.b + c.count = h.sum[d.k] /\ d.u = 1 /\ h.cfg[d.k + 1] <= d.l
    BY DEF DStep
  <1>2. Sent(d, s) = d.k /\ unicast_only_cores = UnicastCores
    BY <1>1 DEF Sent, At, UnicastKnown
  <1>c. c.count \in Nat
    BY DEF Command
  <1>3. Unfinished = 0 /\ Pending = 0
    BY <1>1, <1>2, <1>c, ReachedByMaster DEF At
  <1>4. ASSUME c.op = "go" PROVE ready > 0
    <2>1. h.cfg[d.k + 1] = h.cfg[d.k] + 1 /\ d.l <= ready + h.cfg[d.k]
      BY <1>1, <1>2, <1>4 DEF GoAt, At, Configured
    <2>2. h.cfg[d.k] \in Nat /\ d.l \in Nat /\ ready \in Nat
      BY Numbers
    <2> QED BY <1>1, <2>1, <2>2
  <1> QED BY <1>1, <1>2, <1>3, <1>4

-----------------------------------------------------------------------------
(* Counts on their way *)

\* One more count behind the others.
LEMMA GrowByOne ==
    ASSUME TypeOK, NEW n \in Nat, NEW m \in Nat, Growing(n), n < m, updates' = Append(updates, m), countD' = countD
    PROVE  Growing(m)'
  <1>1. countD \in Nat /\ updates \in Seq(Nat)
    BY DEF TypeOK
  <1> DEFINE l == Len(updates)
  <1>2. l \in Nat /\ \A i \in 1 .. l : updates[i] \in Nat
    BY <1>1, LenProperties, ElementOfSeq
  <1>3. Len(updates') = l + 1 /\ (\A i \in 1 .. l : updates'[i] = updates[i]) /\ updates'[l + 1] = m
    BY <1>1, AppendProperties
  <1>4. /\ countD <= n
        /\ \A i \in 1 .. l : countD < updates[i] /\ updates[i] <= n
        /\ \A i, j \in 1 .. l : i < j => updates[i] < updates[j]
    BY DEF Growing
  <1> HIDE DEF l
  <1>5. \A i \in 1 .. l + 1 : i \in 1 .. l \/ i = l + 1
    BY <1>2
  <1>6. ASSUME NEW i \in 1 .. l + 1 PROVE countD < updates'[i] /\ updates'[i] <= m
    <2>1. CASE i \in 1 .. l
      <3>1. updates'[i] = updates[i] /\ updates[i] \in Nat /\ countD < updates[i] /\ updates[i] <= n
        BY <1>2, <1>3, <1>4, <2>1
      <3> QED BY <1>1, <3>1
    <2>2. CASE i = l + 1
      BY <1>1, <1>3, <1>4, <2>2
    <2> QED BY <1>5, <2>1, <2>2
  <1>7. ASSUME NEW i \in 1 .. l + 1, NEW j \in 1 .. l + 1, i < j PROVE updates'[i] < updates'[j]
    <2>1. i \in 1 .. l
      BY <1>2, <1>7
    <2>2. CASE j \in 1 .. l
      BY <1>3, <1>4, <1>7, <2>1, <2>2
    <2>3. CASE j = l + 1
      <3>1. updates'[i] = updates[i] /\ updates[i] \in Nat /\ updates[i] <= n /\ updates'[j] = m
        BY <1>2, <1>3, <1>4, <2>1, <2>3
      <3> QED BY <3>1
    <2> QED BY <1>5, <2>2, <2>3
  <1>8. countD <= m
    BY <1>1, <1>4
  <1> QED BY <1>3, <1>6, <1>7, <1>8 DEF Growing

\* dispatch_s forwards its count if it has changed: the counts on their way still grow, up to the present one.
LEMMA Forwards ==
    ASSUME TypeOK, NEW n \in Nat, n = countS, Growing(forwarded), forwarded <= countS, countD' = countD,
           updates' = (IF countS # forwarded THEN Append(updates, countS) ELSE updates)
    PROVE  Growing(n)' /\ updates' \in Seq(Nat)
  <1>1. countS \in Nat /\ forwarded \in Nat /\ updates \in Seq(Nat)
    BY DEF TypeOK
  <1>2. CASE countS # forwarded
    <2>1. forwarded < n /\ updates' = Append(updates, n)
      BY <1>1, <1>2
    <2> QED BY <1>1, <2>1, GrowByOne, AppendProperties
  <1>3. CASE countS = forwarded
    BY <1>1, <1>3 DEF Growing
  <1> QED BY <1>2, <1>3

-----------------------------------------------------------------------------
(* What a step that does not touch a part of the state leaves as it is *)

\* A step that notifies of nothing and sends nothing.
LEMMA NotifiedStays ==
    ASSUME NEW h, NEW d, NEW s, NEW z, NEW y, Notified(h, d, s),
           z.k = d.k, z.b = d.b, y.k = s.k, mode' = mode, Pending' = Pending
    PROVE  Notified(h, z, y)'
  <1>1. Sent(z, y)' = Sent(d, s)
    BY DEF Sent
  <1> QED BY <1>1 DEF Notified

\* A step that writes no configuration, lands none and starts no program.
LEMMA ConfiguredStays ==
    ASSUME NEW h, NEW d, NEW s, NEW z, NEW y, Configured(h, d, s),
           z.k = d.k, z.f = d.f, z.l = d.l, y.k = s.k, mode' = mode, ready' = ready, configs' = configs
    PROVE  Configured(h, z, y)'
  <1>1. Sent(z, y)' = Sent(d, s)
    BY DEF Sent
  <1> QED BY <1>1 DEF Configured

\* A step that counts nothing.
LEMMA CountedStays ==
    ASSUME NEW h, NEW d, NEW s, NEW z, NEW y, Counted(h, d, s),
           z.k = d.k, z.b = d.b, y.k = s.k, y.b = s.b, mode' = mode, Unfinished' = Unfinished,
           UNCHANGED <<countD, countS, forwarded, updates>>
    PROVE  Counted(h, z, y)'
  <1>1. Sent(z, y)' = Sent(d, s)
    BY DEF Sent
  <1>2. countD' = countD /\ countS' = countS /\ forwarded' = forwarded /\ updates' = updates
    OBVIOUS
  <1>3. /\ SameBase(z, y)' <=> SameBase(d, s)
        /\ SlaveAhead(h, z, y)' <=> SlaveAhead(h, d, s)
        /\ MasterAhead(h, z, y)' <=> MasterAhead(h, d, s)
    BY <1>2 DEF SameBase, SlaveAhead, MasterAhead, Growing
  <1> QED BY <1>1, <1>2, <1>3 DEF Counted

\* A step that does not set unicast_only_cores.
LEMMA UnicastStays ==
    ASSUME NEW d, NEW s, NEW z, NEW y, UnicastKnown(d, s),
           z.u = d.u, y.u = s.u, mode' = mode, unicast_only_cores' = unicast_only_cores
    PROVE  UnicastKnown(z, y)'
  BY DEF UnicastKnown

\* Workers that are left alone.
LEMMA UnfinishedStays ==
    ASSUME UNCHANGED workerVars
    PROVE  Unfinished' = Unfinished
  BY DEF workerVars, Unfinished, Busy

-----------------------------------------------------------------------------
(* dispatch_d *)

\* The first command of a buffer and the ones behind it.
LEMMA QueueTypes ==
    ASSUME NEW C, NEW q \in Seq(C), q # <<>>
    PROVE  /\ Head(q) \in C /\ Tail(q) \in Seq(C)
           /\ Len(q) \in Nat /\ Len(Tail(q)) = Len(q) - 1
           /\ \A i \in 1 .. Len(Tail(q)) : i + 1 \in 1 .. Len(q) /\ Tail(q)[i] = q[i + 1]
  <1>1. /\ Head(q) \in C /\ Tail(q) \in Seq(C) /\ Len(q) \in Nat /\ Len(Tail(q)) = Len(q) - 1
        /\ \A i \in 1 .. Len(Tail(q)) : Tail(q)[i] = q[i + 1]
    BY HeadTailProperties, LenProperties, EmptySeq
  <1>2. \A i \in 1 .. Len(Tail(q)) : i + 1 \in 1 .. Len(q)
    BY <1>1
  <1> QED BY <1>1, <1>2

\* A command that dispatch_d has processed leaves its buffer.
LEMMA DPlaces ==
    ASSUME TypeOK, Places, qd # <<>>, qd' = Tail(qd), clearing' = None, UNCHANGED <<qs, taken>>
    PROVE  Places' /\ qd' \in Seq(Command)
  <1>1. qd \in Seq(Command)
    BY DEF TypeOK
  <1>2. \A i \in 1 .. Len(qd') : qd'[i].to = "d"
    BY <1>1, QueueTypes DEF Places
  <1> QED BY <1>1, <1>2, QueueTypes DEF Places, SIs

\* One more configuration is written and on its way.
LEMMA DConfigPreserves ==
    ASSUME TypeOK, Places, NEW h \in History, NEW d \in DVal, NEW s \in SVal,
           Ordered(h), InStream(h, d, s), At(h, d, s), DConfig
    PROVE  IInv'
  <1>1. /\ qd # <<>> /\ Head(qd).op = "config" /\ qd' = Tail(qd) /\ configs' = configs + 1
        /\ UNCHANGED <<mode, hostVars, countD, clearing, ready, slaveVars, notices, updates, unicast_only_cores, workerVars>>
    BY DEF DConfig, DIs
  <1>2. PICK z \in DVal : /\ Head(qd) \in Command /\ Head(qd).to = "d" /\ DStep(h, Head(qd), d, z)
                          /\ InStream(h, z, s)'
    BY <1>1, DTail DEF hostVars, slaveVars
  <1>3. clearing = None
    BY <1>1 DEF Places, DIs
  <1>4. Places' /\ qd' \in Seq(Command)
    BY <1>1, <1>3, DPlaces DEF slaveVars
  <1>5. TypeOK'
    BY <1>1, <1>4 DEF TypeOK, hostVars, slaveVars, workerVars
  <1>6. z.k = d.k /\ z.b = d.b /\ z.f = d.f + 1 /\ z.l = d.l /\ z.u = d.u
    BY <1>1, <1>2 DEF DStep
  <1>7. Pending' = Pending /\ Unfinished' = Unfinished
    BY <1>1, UnfinishedStays DEF Pending, slaveVars
  <1>8. Notified(h, z, s)' /\ Counted(h, z, s)' /\ UnicastKnown(z, s)'
    BY <1>1, <1>6, <1>7, NotifiedStays, CountedStays, UnicastStays DEF At, slaveVars
  <1>9. Configured(h, z, s)'
    <2>1. Sent(z, s)' = Sent(d, s) /\ ready' = ready
      BY <1>1, <1>6 DEF Sent
    <2> DEFINE k == h.cfg[Sent(d, s)]
    <2>2. k \in Nat /\ ready \in Nat /\ configs \in Nat /\ d.l \in Nat /\ d.f \in Nat
      BY Numbers
    <2>3. h.cfg[d.k] <= d.l /\ d.l <= d.f /\ d.l <= ready + k /\ d.f <= ready + configs + k
      BY DEF At, Configured
    <2> HIDE DEF k
    <2>4. d.l <= d.f + 1 /\ d.f + 1 <= ready + (configs + 1) + k
      BY <2>2, <2>3
    <2> QED BY <1>1, <1>6, <2>1, <2>3, <2>4 DEF Configured, k
  <1> QED BY <1>2, <1>4, <1>5, <1>8, <1>9 DEF IInv, InStep, At

\* After the barrier, all configurations that were written have landed.
LEMMA DBarrierPreserves ==
    ASSUME TypeOK, Places, NEW h \in History, NEW d \in DVal, NEW s \in SVal,
           Ordered(h), InStream(h, d, s), At(h, d, s), DBarrier
    PROVE  IInv'
  <1>1. /\ qd # <<>> /\ Head(qd).op = "barrier" /\ qd' = Tail(qd) /\ configs = 0 /\ configs' = configs
        /\ UNCHANGED <<mode, hostVars, countD, clearing, ready, slaveVars, notices, updates, unicast_only_cores, workerVars>>
    BY DEF DBarrier, DIs
  <1>2. PICK z \in DVal : /\ Head(qd) \in Command /\ Head(qd).to = "d" /\ DStep(h, Head(qd), d, z)
                          /\ InStream(h, z, s)'
    BY <1>1, DTail DEF hostVars, slaveVars
  <1>3. clearing = None
    BY <1>1 DEF Places, DIs
  <1>4. Places' /\ qd' \in Seq(Command)
    BY <1>1, <1>3, DPlaces DEF slaveVars
  <1>5. TypeOK'
    BY <1>1, <1>4 DEF TypeOK, hostVars, slaveVars, workerVars
  <1>6. z.k = d.k /\ z.b = d.b /\ z.f = d.f /\ z.l = d.f /\ z.u = d.u
    BY <1>1, <1>2 DEF DStep
  <1>7. Pending' = Pending /\ Unfinished' = Unfinished
    BY <1>1, UnfinishedStays DEF Pending, slaveVars
  <1>8. Notified(h, z, s)' /\ Counted(h, z, s)' /\ UnicastKnown(z, s)'
    BY <1>1, <1>6, <1>7, NotifiedStays, CountedStays, UnicastStays DEF At, slaveVars
  <1>9. Configured(h, z, s)'
    <2>1. Sent(z, s)' = Sent(d, s) /\ ready' = ready
      BY <1>1, <1>6 DEF Sent
    <2> DEFINE k == h.cfg[Sent(d, s)]
               g == h.cfg[d.k]
    <2>2. k \in Nat /\ g \in Nat /\ ready \in Nat /\ configs \in Nat /\ d.l \in Nat /\ d.f \in Nat
      BY Numbers
    <2>3. g <= d.l /\ d.l <= d.f /\ d.f <= ready + configs + k
      BY DEF At, Configured
    <2> HIDE DEF k, g
    <2>4. g <= d.f /\ d.f <= d.f /\ d.f <= ready + k
      BY <1>1, <2>2, <2>3
    <2> QED BY <1>1, <1>6, <2>1, <2>3, <2>4 DEF Configured, k, g
  <1> QED BY <1>2, <1>4, <1>5, <1>8, <1>9 DEF IInv, InStep, At

\* process_wait and terminate only take a command out of the buffer.
LEMMA DPassPreserves ==
    ASSUME TypeOK, Places, NEW h \in History, NEW d \in DVal, NEW s \in SVal,
           Ordered(h), InStream(h, d, s), At(h, d, s), DWait \/ DTerminate
    PROVE  IInv'
  <1>1. /\ qd # <<>> /\ Head(qd).op \in {"wait", "terminate"} /\ qd' = Tail(qd) /\ configs' = configs
        /\ UNCHANGED <<mode, hostVars, countD, clearing, ready, slaveVars, notices, updates, unicast_only_cores, workerVars>>
    BY DEF DWait, DTerminate, DIs
  <1>2. PICK z \in DVal : /\ Head(qd) \in Command /\ Head(qd).to = "d" /\ DStep(h, Head(qd), d, z)
                          /\ InStream(h, z, s)'
    BY <1>1, DTail DEF hostVars, slaveVars
  <1>3. clearing = None
    BY <1>1 DEF Places, DIs
  <1>4. Places' /\ qd' \in Seq(Command)
    BY <1>1, <1>3, DPlaces DEF slaveVars
  <1>5. TypeOK'
    BY <1>1, <1>4 DEF TypeOK, hostVars, slaveVars, workerVars
  <1>6. z.k = d.k /\ z.b = d.b /\ z.f = d.f /\ z.l = d.l /\ z.u = d.u
    BY <1>1, <1>2 DEF DStep
  <1>7. Pending' = Pending /\ Unfinished' = Unfinished
    BY <1>1, UnfinishedStays DEF Pending, slaveVars
  <1>8. At(h, z, s)'
    BY <1>1, <1>6, <1>7, NotifiedStays, ConfiguredStays, CountedStays, UnicastStays DEF At, slaveVars
  <1> QED BY <1>2, <1>4, <1>5, <1>8 DEF IInv, InStep

\* When the atomic is sent, the count is what the host expects.
LEMMA DClearPreserves ==
    ASSUME TypeOK, Places, NEW h \in History, NEW d \in DVal, NEW s \in SVal,
           Ordered(h), InStream(h, d, s), At(h, d, s), DClear
    PROVE  IInv'
  <1>1. /\ qd # <<>> /\ Head(qd).op = "clear" /\ Head(qd).count <= countD /\ clearing' = countD /\ countD' = countD
        /\ qd' = qd /\ configs' = configs
        /\ UNCHANGED <<mode, hostVars, ready, slaveVars, notices, updates, unicast_only_cores, workerVars>>
    BY DEF DClear, DIs, TypeOK, Command
  <1>2. PICK z \in DVal : Head(qd) \in Command /\ Head(qd).to = "d" /\ DStep(h, Head(qd), d, z)
    BY <1>1, DTail
  <1>3. d.b + Head(qd).count = h.sum[d.k] /\ Head(qd).count \in Nat
    BY <1>1, <1>2 DEF DStep, Command
  <1>4. countD = Head(qd).count
    BY <1>1, <1>3, ReachedByMaster DEF At
  <1>5. Places'
    BY <1>1, <1>4 DEF Places, DIs, SIs, slaveVars
  <1>6. TypeOK'
    BY <1>1 DEF TypeOK, hostVars, slaveVars, workerVars
  <1>7. InStream(h, d, s)'
    BY <1>1, QueuesStay DEF hostVars, slaveVars
  <1>8. Pending' = Pending /\ Unfinished' = Unfinished
    BY <1>1, UnfinishedStays DEF Pending, slaveVars
  <1>9. At(h, d, s)'
    BY <1>1, <1>8, NotifiedStays, ConfiguredStays, CountedStays, UnicastStays DEF At, slaveVars
  <1> QED BY <1>5, <1>6, <1>7, <1>9 DEF IInv, InStep

\* When it has landed, dispatch_d counts from what has been given to the workers.
LEMMA DClearedPreserves ==
    ASSUME TypeOK, Places, NEW h \in History, NEW d \in DVal, NEW s \in SVal,
           Ordered(h), InStream(h, d, s), At(h, d, s), DCleared
    PROVE  IInv'
  <1>1. /\ qd # <<>> /\ Head(qd).op = "clear" /\ Head(qd).count = countD /\ clearing = countD
        /\ qd' = Tail(qd) /\ clearing' = None /\ configs' = configs
        /\ UNCHANGED <<mode, hostVars, ready, slaveVars, notices, updates, unicast_only_cores, workerVars>>
    <2>1. clearing # None
      BY DEF DCleared
    <2>2. qd # <<>> /\ Head(qd).op = "clear" /\ Head(qd).count = countD /\ clearing = countD
      BY <2>1 DEF Places, DIs
    <2>3. /\ qd' = Tail(qd) /\ clearing' = None /\ configs' = configs
          /\ UNCHANGED <<mode, hostVars, ready, slaveVars, notices, updates, unicast_only_cores, workerVars>>
      BY DEF DCleared
    <2> QED BY <2>2, <2>3
  <1>2. countD' = 0
    <2>1. countD \in Nat /\ countD' = countD - countD
      BY <1>1 DEF DCleared, TypeOK
    <2> QED BY <2>1
  <1>3. PICK z \in DVal : /\ Head(qd) \in Command /\ Head(qd).to = "d" /\ DStep(h, Head(qd), d, z)
                          /\ InStream(h, z, s)'
    BY <1>1, DTail DEF hostVars, slaveVars
  <1>4. Places' /\ qd' \in Seq(Command)
    BY <1>1, DPlaces DEF slaveVars
  <1>5. TypeOK'
    BY <1>1, <1>2, <1>4 DEF TypeOK, hostVars, slaveVars, workerVars
  <1>6. z.k = d.k /\ z.b = h.sum[d.k] /\ z.f = d.f /\ z.l = d.l /\ z.u = d.u /\ d.b + Head(qd).count = h.sum[d.k]
    BY <1>1, <1>3 DEF DStep
  <1>7. Pending' = Pending /\ Unfinished' = Unfinished
    BY <1>1, UnfinishedStays DEF Pending, slaveVars
  <1>8. Configured(h, z, s)' /\ UnicastKnown(z, s)'
    BY <1>1, <1>6, ConfiguredStays, UnicastStays DEF At
  <1>9. /\ d.b \in Nat /\ s.b \in Nat /\ d.k \in Nat /\ countD \in Nat /\ countS \in Nat /\ Unfinished \in Nat
        /\ h.sum[d.k] \in Nat /\ forwarded \in Nat
    BY Numbers
  <1>10. /\ Sent(d, s) = d.k /\ Pending = 0 /\ Unfinished = 0 /\ updates = <<>>
         /\ mode = "distributed" => h.sum[s.k] = s.b + countS /\ forwarded <= countS
         /\ mode = "distributed" /\ s.b = d.b => forwarded = countS /\ countS = countD
    <2>1. Head(qd).count \in Nat /\ Head(qd).count <= countD
      BY <1>1, <1>9
    <2> QED BY <1>1, <1>6, <2>1, ReachedByMaster DEF At
  <1>11. Sent(z, s)' = d.k
    BY <1>1, <1>6, <1>10 DEF Sent
  <1>12. Notified(h, z, s)'
    <2>1. \A k \in Nat : ~(d.k <= k /\ k < d.k)
      BY <1>9
    <2>2. d.k <= h.end /\ d.k = d.k + Pending'
      BY <1>7, <1>9, <1>10 DEF At, Notified
    <2> QED BY <1>6, <1>11, <2>1, <2>2 DEF Notified
  <1>13. Counted(h, z, s)'
    <2>1. CASE mode # "distributed"
      <3>1. h.sum[d.k] = h.sum[d.k] + 0 + 0
        BY <1>9
      <3> QED BY <1>1, <1>2, <1>6, <1>7, <1>10, <1>11, <2>1, <3>1 DEF Counted
    <2>2. CASE mode = "distributed"
      <3> DEFINE a == h.sum[d.k]
      <3>1. /\ s.k = d.k /\ a = s.b + countS /\ forwarded <= countS /\ (s.b = d.b => forwarded = countS /\ countS = countD)
            /\ countS' = countS /\ forwarded' = forwarded /\ updates' = <<>> /\ mode' = mode
        BY <1>1, <1>10, <2>2 DEF Sent, slaveVars
      <3>2. h.sum[s.k] = s.b + countS' + Unfinished'
        BY <1>7, <1>9, <1>10, <3>1
      <3>3. ASSUME NEW n \in Nat PROVE Growing(n)'
        BY <1>2, <3>1, <3>3, EmptySeq DEF Growing
      <3>4. CASE SameBase(d, s)
        <4>1. forwarded = countS /\ s.b = d.b
          BY <3>1, <3>4 DEF SameBase
        <4>2. CASE countS = 0
          <5>1. s.b = a
            BY <1>9, <3>1, <4>2
          <5>2. SameBase(z, s)'
            BY <1>6, <1>9, <3>1, <3>3, <5>1 DEF SameBase
          <5> QED BY <2>2, <3>1, <3>2, <5>2 DEF Counted
        <4>3. CASE countS # 0
          <5>1. s.b < a
            BY <1>9, <3>1, <4>3
          <5>2. MasterAhead(h, z, s)'
            BY <1>2, <1>6, <3>1, <4>1, <5>1 DEF MasterAhead
          <5> QED BY <2>2, <3>1, <3>2, <5>2 DEF Counted
        <4> QED BY <4>2, <4>3
      <3>5. CASE SlaveAhead(h, d, s)
        <4>1. s.b = a
          BY <3>1, <3>5 DEF SlaveAhead
        <4>2. SameBase(z, s)'
          BY <1>6, <1>9, <3>1, <3>3, <4>1 DEF SameBase
        <4> QED BY <2>2, <3>1, <3>2, <4>2 DEF Counted
      <3>6. CASE MasterAhead(h, d, s)
        <4>1. s.b < d.b /\ d.b = a /\ forwarded = countS
          BY <3>1, <3>6 DEF MasterAhead
        <4>2. MasterAhead(h, z, s)'
          BY <1>2, <1>6, <3>1, <4>1 DEF MasterAhead
        <4> QED BY <2>2, <3>1, <3>2, <4>2 DEF Counted
      <3> QED BY <2>2, <3>4, <3>5, <3>6 DEF At, Counted
    <2> QED BY <2>1, <2>2
  <1> QED BY <1>3, <1>4, <1>5, <1>8, <1>12, <1>13 DEF IInv, InStep, At

\* A notification: the configuration has landed, and dispatch_s is not ahead.
LEMMA DNotifyPreserves ==
    ASSUME TypeOK, Places, NEW h \in History, NEW d \in DVal, NEW s \in SVal,
           Ordered(h), InStream(h, d, s), At(h, d, s), DNotify
    PROVE  IInv'
  <1>1. /\ qd # <<>> /\ Head(qd).op = "notify" /\ qd' = Tail(qd)
        /\ notices' = (IF mode = "distributed" THEN notices + 1 ELSE notices)
        /\ notified' = (IF mode = "distributed" THEN notified ELSE notified + 1)
        /\ UNCHANGED <<mode, hostVars, countD, clearing, configs, ready, qs, countS, forwarded, taken, updates,
                       unicast_only_cores, workerVars>>
    BY DEF DNotify, DIs
  <1>2. PICK z \in DVal : /\ Head(qd) \in Command /\ Head(qd).to = "d" /\ DStep(h, Head(qd), d, z)
                          /\ InStream(h, z, s)'
    BY <1>1, DTail DEF hostVars
  <1>3. clearing = None
    BY <1>1 DEF Places, DIs
  <1>4. Places' /\ qd' \in Seq(Command)
    BY <1>1, <1>3, DPlaces
  <1>5. TypeOK'
    <2>1. notices' \in Nat /\ notified' \in Nat
      BY <1>1 DEF TypeOK
    <2> QED BY <1>1, <1>4, <2>1 DEF TypeOK, hostVars, workerVars
  <1>6. /\ z.k = d.k + 1 /\ z.b = d.b /\ z.f = d.f /\ z.l = d.l /\ z.u = d.u /\ z.k <= h.end
        /\ mode # "master" /\ h.base[d.k] = d.b /\ h.cfg[d.k + 1] <= d.l
    BY <1>1, <1>2 DEF DStep
  <1>7. Unfinished' = Unfinished
    BY <1>1, UnfinishedStays
  <1>8. Pending' = Pending + 1
    <2>1. notices \in Nat /\ notified \in Nat /\ taken' = taken
      BY <1>1 DEF TypeOK
    <2>2. notices' + notified' = (notices + notified) + 1
      BY <1>1, <2>1
    <2> DEFINE t == IF taken THEN 1 ELSE 0
    <2>3. t \in Nat /\ (IF taken' THEN 1 ELSE 0) = t
      BY <2>1
    <2>4. notices' \in Nat /\ notified' \in Nat
      BY <1>5 DEF TypeOK
    <2>5. Pending = notices + notified + t /\ Pending' = notices' + notified' + t
      BY <2>3 DEF Pending
    <2>6. t \in Nat /\ notices \in Nat /\ notified \in Nat
      BY <2>1, <2>3
    <2> HIDE DEF t
    <2>7. (notices' + notified') + t = ((notices + notified) + t) + 1
      BY <2>2, <2>6
    <2> QED BY <2>5, <2>7
  <1>9. Sent(d, s) = s.k /\ Sent(z, s)' = s.k /\ mode' = mode
    BY <1>1, <1>6 DEF Sent
  <1>10. d.k \in Nat /\ s.k \in Nat /\ d.b \in Nat /\ s.b \in Nat /\ Pending \in Nat
    BY Numbers
  <1>11. Notified(h, z, s)'
    <2>1. d.k = s.k + Pending /\ \A k \in Nat : s.k <= k /\ k < d.k => h.base[k] = d.b
      BY <1>9 DEF At, Notified
    <2>2. z.k = s.k + Pending'
      BY <1>6, <1>8, <1>10, <2>1
    <2>3. ASSUME NEW k \in Nat, s.k <= k, k < z.k PROVE h.base[k] = z.b
      <3>1. k < d.k \/ k = d.k
        BY <1>6, <1>10, <2>3
      <3> QED BY <1>6, <2>1, <2>3, <3>1
    <2> QED BY <1>6, <1>9, <2>2, <2>3 DEF Notified
  <1>12. Configured(h, z, s)'
    BY <1>1, <1>6, <1>9 DEF At, Configured
  <1>13. UnicastKnown(z, s)'
    BY <1>1, <1>6, UnicastStays DEF At
  <1>14. Counted(h, z, s)'
    <2>1. countD' = countD /\ countS' = countS /\ forwarded' = forwarded /\ updates' = updates
      BY <1>1
    <2>2. ~(mode = "distributed" /\ SlaveAhead(h, d, s))
      BY <1>6, <1>10 DEF SlaveAhead
    <2>3. SameBase(d, s) => SameBase(z, s)'
      BY <1>6, <2>1 DEF SameBase, Growing
    <2>4. MasterAhead(h, d, s) => MasterAhead(h, z, s)'
      BY <1>6, <2>1 DEF MasterAhead
    <2> QED BY <1>6, <1>7, <1>9, <2>1, <2>2, <2>3, <2>4 DEF At, Counted
  <1> QED BY <1>2, <1>4, <1>5, <1>11, <1>12, <1>13, <1>14 DEF IInv, InStep, At

\* Without a dispatch_s, dispatch_d learns which cores need a unicast.
LEMMA DSetUnicastPreserves ==
    ASSUME TypeOK, Places, NEW h \in History, NEW d \in DVal, NEW s \in SVal,
           Ordered(h), InStream(h, d, s), At(h, d, s), DSetUnicast
    PROVE  IInv'
  <1>1. /\ qd # <<>> /\ Head(qd).op = "unicast" /\ qd' = Tail(qd) /\ unicast_only_cores' = Head(qd).on
        /\ UNCHANGED <<mode, hostVars, countD, clearing, configs, ready, slaveVars, notices, updates, workerVars>>
    BY DEF DSetUnicast, DIs
  <1>2. PICK z \in DVal : /\ Head(qd) \in Command /\ Head(qd).to = "d" /\ DStep(h, Head(qd), d, z)
                          /\ InStream(h, z, s)'
    BY <1>1, DTail DEF hostVars, slaveVars
  <1>3. clearing = None
    BY <1>1 DEF Places, DIs
  <1>4. Places' /\ qd' \in Seq(Command)
    BY <1>1, <1>3, DPlaces DEF slaveVars
  <1>5. z.k = d.k /\ z.b = d.b /\ z.f = d.f /\ z.l = d.l /\ unicast_only_cores' = UnicastCores
    BY <1>1, <1>2 DEF DStep
  <1>6. TypeOK'
    BY <1>1, <1>4, <1>5 DEF TypeOK, hostVars, slaveVars, workerVars
  <1>7. Pending' = Pending /\ Unfinished' = Unfinished
    BY <1>1, UnfinishedStays DEF Pending, slaveVars
  <1>8. Notified(h, z, s)' /\ Configured(h, z, s)' /\ Counted(h, z, s)'
    BY <1>1, <1>5, <1>7, NotifiedStays, ConfiguredStays, CountedStays DEF At, slaveVars
  <1>9. UnicastKnown(z, s)'
    BY <1>5 DEF UnicastKnown
  <1> QED BY <1>2, <1>4, <1>6, <1>8, <1>9 DEF IInv, InStep, At

\* A go signal that dispatch_d sends itself.
LEMMA DGoPreserves ==
    ASSUME TypeOK, Places, NEW h \in History, NEW d \in DVal, NEW s \in SVal,
           Ordered(h), InStream(h, d, s), At(h, d, s), DGo
    PROVE  IInv'
  <1> DEFINE c == Head(qd)
  <1>1. /\ qd # <<>> /\ c.op \in {"go", "reset"} /\ qd' = Tail(qd) /\ countD >= c.count
        /\ SendGo(c)
        /\ UNCHANGED <<mode, hostVars, countD, clearing, configs, slaveVars, notices, updates, unicast_only_cores, reports>>
    BY DEF DGo, DIs
  <1>2. PICK z \in DVal : /\ c \in Command /\ c.to = "d" /\ DStep(h, c, d, z)
                          /\ InStream(h, z, s)'
    BY <1>1, DTail DEF hostVars, slaveVars
  <1>3. clearing = None
    BY <1>1 DEF Places, DIs
  <1>4. Places' /\ qd' \in Seq(Command)
    BY <1>1, <1>3, DPlaces DEF slaveVars
  <1>5. /\ z.k = d.k + 1 /\ z.b = d.b /\ z.f = d.f /\ z.l = d.l /\ z.u = d.u /\ z.k <= h.end
        /\ h.cfg[d.k + 1] <= d.l
    BY <1>1, <1>2 DEF DStep
  <1>6. /\ d.k \in Nat /\ d.b \in Nat /\ d.l \in Nat /\ d.f \in Nat /\ countD \in Nat /\ ready \in Nat /\ configs \in Nat
        /\ h.sum[d.k] \in Nat /\ h.cfg[d.k] \in Nat /\ h.cfg[d.k + 1] \in Nat /\ Unfinished \in Nat
    <2>1. d.k \in Nat /\ h.sum \in [Nat -> Nat] /\ h.cfg \in [Nat -> Nat]
      BY Numbers
    <2>2. d.k + 1 \in Nat
      BY <2>1
    <2>3. h.sum[d.k] \in Nat /\ h.cfg[d.k] \in Nat /\ h.cfg[d.k + 1] \in Nat
      BY <2>1, <2>2
    <2> QED BY <2>3, Numbers
  <1>7. /\ mode = "master" /\ GoAt(h, c, d.k) /\ Unfinished = 0 /\ Pending = 0
        /\ c.op = "go" => ready > 0
        /\ unicast_only_cores = UnicastCores
    <2>1. c.count <= countD
      BY <1>1, <1>2, <1>6 DEF Command
    <2> HIDE DEF c
    <2> QED BY <1>1, <1>2, <2>1, ReachedBySender
  <1>8. c.on \in Groups /\ h.sum[d.k + 1] = h.sum[d.k] + Cardinality(c.on)
        /\ h.cfg[d.k + 1] = h.cfg[d.k] + (IF c.op = "go" THEN 1 ELSE 0)
    BY <1>7 DEF GoAt
  <1>9. Cardinality(Busy)' = Cardinality(c.on) /\ worker' \in [Workers -> {"idle", "go", "reset", "run"}]
    <2>1. Busy = {} /\ worker \in [Workers -> {"idle", "go", "reset", "run"}]
      BY <1>7, Numbers DEF TypeOK
    <2> HIDE DEF c
    <2> QED BY <1>1, <1>2, <1>7, <1>8, <2>1, GoReaches
  <1>10. Unfinished' = Cardinality(c.on) /\ Cardinality(c.on) \in Nat
    <2>1. reports' = 0
      BY <1>1, <1>7, Numbers
    <2>2. Cardinality(c.on) \in Nat
      BY <1>8, GroupSize
    <2>3. Unfinished' = reports' + Cardinality(Busy)'
      BY DEF Unfinished
    <2> QED BY <1>9, <2>1, <2>2, <2>3
  <1>11. ready' = (IF c.op = "go" THEN ready - 1 ELSE ready) /\ ready' \in Nat
    BY <1>1, <1>6, <1>7 DEF SendGo
  <1>12. TypeOK'
    BY <1>1, <1>4, <1>9, <1>11 DEF TypeOK, hostVars, slaveVars
  <1>13. Sent(z, s)' = d.k + 1 /\ Sent(d, s) = d.k /\ Pending' = 0 /\ mode' = mode
    BY <1>1, <1>5, <1>7 DEF Sent, Pending, slaveVars
  <1>14. Notified(h, z, s)'
    <2>1. z.k = d.k + 1 + Pending' /\ \A k \in Nat : ~(d.k + 1 <= k /\ k < z.k)
      BY <1>5, <1>6, <1>13
    <2> QED BY <1>5, <1>13, <2>1 DEF Notified
  <1>15. Configured(h, z, s)'
    <2> DEFINE g == h.cfg[d.k]
               m == h.cfg[d.k + 1]
    <2>1. d.l <= d.f /\ d.l <= ready + g /\ d.f <= ready + configs + g /\ m <= d.l
      BY <1>5, <1>13 DEF At, Configured
    <2>2. g \in Nat /\ m \in Nat /\ m = (IF c.op = "go" THEN g + 1 ELSE g) /\ configs' = configs
      BY <1>1, <1>6, <1>8
    <2> HIDE DEF g, m
    <2>3. d.l <= ready' + m /\ d.f <= ready' + configs' + m
      BY <1>6, <1>7, <1>11, <2>1, <2>2
    <2> QED BY <1>5, <1>13, <2>1, <2>3 DEF Configured, m
  <1>16. Counted(h, z, s)'
    <2> DEFINE a == h.sum[d.k]
               n == Cardinality(c.on)
    <2>1. a = d.b + countD + Unfinished /\ updates = <<>>
      BY <1>7, <1>13 DEF At, Counted
    <2>2. a \in Nat /\ n \in Nat /\ countD' = countD /\ Unfinished' = n /\ updates' = updates
      BY <1>1, <1>6, <1>10
    <2> HIDE DEF a, n
    <2>3. a + n = d.b + countD' + Unfinished'
      BY <1>6, <1>7, <2>1, <2>2
    <2>4. h.sum[d.k + 1] = d.b + countD' + Unfinished'
      BY <1>8, <2>3 DEF a, n
    <2> QED BY <1>5, <1>7, <1>13, <2>1, <2>2, <2>4 DEF Counted
  <1>17. UnicastKnown(z, s)'
    BY <1>1, <1>7 DEF UnicastKnown
  <1> QED BY <1>2, <1>4, <1>12, <1>14, <1>15, <1>16, <1>17 DEF IInv, InStep, At

-----------------------------------------------------------------------------
(* dispatch_s *)

\* A command that dispatch_s has processed leaves its buffer.
LEMMA SPlaces ==
    ASSUME TypeOK, Places, qs # <<>>, qs' = Tail(qs), taken' = FALSE, UNCHANGED <<qd, clearing, countD>>
    PROVE  Places' /\ qs' \in Seq(Command)
  <1>1. qs \in Seq(Command)
    BY DEF TypeOK
  <1>2. \A i \in 1 .. Len(qs') : qs'[i].to = "s"
    BY <1>1, QueueTypes DEF Places
  <1> QED BY <1>1, <1>2, QueueTypes DEF Places, DIs

\* dispatch_s forwards its count only while both count from the same base.
LEMMA SUpdatePreserves ==
    ASSUME TypeOK, Places, NEW h \in History, NEW d \in DVal, NEW s \in SVal,
           Ordered(h), InStream(h, d, s), At(h, d, s), SUpdate
    PROVE  IInv'
  <1>1. /\ mode = "distributed" /\ countS # forwarded /\ forwarded' = countS /\ updates' = Append(updates, countS)
        /\ UNCHANGED <<mode, hostVars, masterVars, ready, qs, countS, notified, taken, notices, unicast_only_cores, workerVars>>
    BY DEF SUpdate, update_worker_completion_count
  <1>2. countS \in Nat /\ forwarded \in Nat /\ s.b \in Nat /\ Unfinished \in Nat /\ h.sum[s.k] \in Nat
    BY Numbers
  <1>3. SameBase(d, s)
    <2> DEFINE a == h.sum[s.k]
    <2>1. a = s.b + countS + Unfinished
      BY <1>1 DEF At, Counted
    <2>2. ~SlaveAhead(h, d, s)
      <3> SUFFICES ASSUME SlaveAhead(h, d, s) PROVE FALSE
        OBVIOUS
      <3>1. s.b = a /\ forwarded = 0
        BY DEF SlaveAhead
      <3> HIDE DEF a
      <3> QED BY <1>1, <1>2, <2>1, <3>1 DEF a
    <2>3. ~MasterAhead(h, d, s)
      BY <1>1 DEF MasterAhead
    <2> QED BY <1>1, <2>2, <2>3 DEF At, Counted
  <1>4. Places'
    BY <1>1 DEF Places, DIs, SIs, masterVars
  <1>5. Growing(countS)' /\ updates' \in Seq(Nat)
    <2>1. PICK n \in Nat : n = countS
      BY <1>2
    <2>2. updates' = (IF countS # forwarded THEN Append(updates, countS) ELSE updates) /\ countD' = countD
      BY <1>1 DEF masterVars
    <2>3. Growing(n)' /\ updates' \in Seq(Nat)
      BY <1>3, <2>1, <2>2, Forwards DEF SameBase
    <2>4. countS' = n
      BY <1>1, <2>1
    <2> QED BY <2>3, <2>4 DEF Growing
  <1>6. TypeOK'
    BY <1>1, <1>2, <1>5 DEF TypeOK, hostVars, masterVars, workerVars
  <1>7. InStream(h, d, s)'
    BY <1>1, QueuesStay DEF hostVars, masterVars
  <1>8. Pending' = Pending /\ Unfinished' = Unfinished
    BY <1>1, UnfinishedStays DEF Pending
  <1>9. Notified(h, d, s)' /\ Configured(h, d, s)' /\ UnicastKnown(d, s)'
    BY <1>1, <1>8, NotifiedStays, ConfiguredStays, UnicastStays DEF At, masterVars
  <1>10. Counted(h, d, s)'
    <2>1. SameBase(d, s)'
      BY <1>1, <1>2, <1>3, <1>5 DEF SameBase, Growing
    <2> QED BY <1>1, <1>8, <2>1 DEF At, Counted
  <1> QED BY <1>4, <1>6, <1>7, <1>9, <1>10 DEF IInv, InStep, At

\* The notification that dispatch_s takes is still pending: it has sent nothing yet.
LEMMA SNotifiedPreserves ==
    ASSUME TypeOK, Places, NEW h \in History, NEW d \in DVal, NEW s \in SVal,
           Ordered(h), InStream(h, d, s), At(h, d, s), SNotified
    PROVE  IInv'
  <1>1. /\ SIs({"go", "reset"}) /\ taken = FALSE /\ notified > 0 /\ notified' = notified - 1 /\ taken' = TRUE
        /\ UNCHANGED <<mode, hostVars, masterVars, ready, qs, countS, forwarded, notices, updates, unicast_only_cores, workerVars>>
    BY DEF SNotified, TypeOK
  <1>2. Places'
    BY <1>1 DEF Places, DIs, SIs, masterVars
  <1>3. notified \in Nat /\ notices \in Nat /\ notified' \in Nat /\ notices' = notices
    BY <1>1 DEF TypeOK
  <1>4. TypeOK'
    BY <1>1, <1>3 DEF TypeOK, hostVars, masterVars, workerVars
  <1>5. InStream(h, d, s)'
    BY <1>1, QueuesStay DEF hostVars, masterVars
  <1>6. Pending' = Pending
    <2>1. Pending = notices + notified + 0 /\ Pending' = notices + notified' + 1
      BY <1>1, <1>3 DEF Pending
    <2> QED BY <1>1, <1>3, <2>1
  <1>7. Unfinished' = Unfinished
    BY <1>1, UnfinishedStays
  <1>8. At(h, d, s)'
    BY <1>1, <1>6, <1>7, NotifiedStays, ConfiguredStays, CountedStays, UnicastStays DEF At, masterVars
  <1> QED BY <1>2, <1>4, <1>5, <1>8 DEF IInv, InStep

\* dispatch_s learns which cores need a unicast; terminate only takes a command out of its buffer.
LEMMA SSetUnicastPreserves ==
    ASSUME TypeOK, Places, NEW h \in History, NEW d \in DVal, NEW s \in SVal,
           Ordered(h), InStream(h, d, s), At(h, d, s), SSetUnicast \/ STerminate
    PROVE  IInv'
  <1>1. /\ qs # <<>> /\ Head(qs).op \in {"unicast", "terminate"} /\ qs' = Tail(qs)
        /\ Head(qs).op = "unicast" => unicast_only_cores' = Head(qs).on
        /\ Head(qs).op # "unicast" => unicast_only_cores' = unicast_only_cores
        /\ UNCHANGED <<mode, hostVars, masterVars, ready, countS, forwarded, notified, taken, notices, updates, workerVars>>
    BY DEF SSetUnicast, STerminate, SIs
  <1>2. PICK z \in SVal : /\ Head(qs) \in Command /\ Head(qs).to = "s" /\ SStep(h, Head(qs), s, z)
                          /\ InStream(h, d, z)'
    BY <1>1, STail DEF hostVars, masterVars
  <1>3. taken = FALSE
    BY <1>1 DEF Places, SIs, TypeOK
  <1>4. Places' /\ qs' \in Seq(Command)
    BY <1>1, <1>3, SPlaces DEF masterVars
  <1>5. /\ z.k = s.k /\ z.b = s.b /\ mode # "master"
        /\ Head(qs).op = "unicast" => unicast_only_cores' = UnicastCores
        /\ Head(qs).op # "unicast" => z.u = s.u
    BY <1>1, <1>2 DEF SStep
  <1>6. TypeOK'
    BY <1>1, <1>4, <1>5 DEF TypeOK, hostVars, masterVars, workerVars
  <1>7. Pending' = Pending /\ Unfinished' = Unfinished
    BY <1>1, UnfinishedStays DEF Pending
  <1>8. Notified(h, d, z)' /\ Configured(h, d, z)' /\ Counted(h, d, z)'
    BY <1>1, <1>5, <1>7, NotifiedStays, ConfiguredStays, CountedStays DEF At, masterVars
  <1>9. UnicastKnown(d, z)'
    BY <1>1, <1>5 DEF At, UnicastKnown
  <1> QED BY <1>2, <1>4, <1>6, <1>8, <1>9 DEF IInv, InStep, At

\* dispatch_s sends a go signal and forwards its count.
LEMMA SGoPreserves ==
    ASSUME TypeOK, Places, NEW h \in History, NEW d \in DVal, NEW s \in SVal,
           Ordered(h), InStream(h, d, s), At(h, d, s), SGo
    PROVE  IInv'
  <1> DEFINE c == Head(qs)
  <1>1. /\ taken = TRUE /\ WorkerSem >= c.count /\ SendGo(c) /\ update_worker_completion_count
        /\ taken' = FALSE /\ qs' = Tail(qs)
        /\ UNCHANGED <<mode, hostVars, masterVars, countS, notified, notices, unicast_only_cores, reports>>
    BY DEF SGo, TypeOK
  <1>2. qs # <<>> /\ c.op \in {"go", "reset"}
    BY <1>1 DEF Places, SIs
  <1>3. PICK z \in SVal : /\ c \in Command /\ c.to = "s" /\ SStep(h, c, s, z)
                          /\ InStream(h, d, z)'
    BY <1>1, <1>2, STail DEF hostVars, masterVars
  <1>4. Places' /\ qs' \in Seq(Command)
    BY <1>1, <1>2, SPlaces DEF masterVars
  <1>5. z.k = s.k + 1 /\ z.b = s.b /\ z.u = s.u /\ z.k <= h.end
    BY <1>2, <1>3 DEF SStep
  <1>6. /\ d.k \in Nat /\ s.k \in Nat /\ d.b \in Nat /\ s.b \in Nat /\ d.l \in Nat /\ d.f \in Nat
        /\ countD \in Nat /\ countS \in Nat /\ forwarded \in Nat /\ updates \in Seq(Nat)
        /\ ready \in Nat /\ configs \in Nat /\ notices \in Nat /\ notified \in Nat
        /\ h.sum[s.k] \in Nat /\ h.cfg[s.k] \in Nat /\ Unfinished \in Nat
    BY Numbers
  <1>7. /\ mode # "master" /\ s.k < d.k /\ GoAt(h, c, s.k) /\ Unfinished = 0
        /\ c.op = "go" => ready > 0
        /\ unicast_only_cores = UnicastCores
        /\ mode = "distributed" => SameBase(d, s)
    <2>1. c.count <= WorkerSem
      BY <1>1, <1>3, <1>6 DEF Command, WorkerSem
    <2> HIDE DEF c
    <2> QED BY <1>1, <1>2, <1>3, <2>1, ReachedBySlave
  <1>8. c.on \in Groups /\ h.sum[s.k + 1] = h.sum[s.k] + Cardinality(c.on)
        /\ h.cfg[s.k + 1] = h.cfg[s.k] + (IF c.op = "go" THEN 1 ELSE 0)
    BY <1>7 DEF GoAt
  <1>9. Cardinality(Busy)' = Cardinality(c.on) /\ worker' \in [Workers -> {"idle", "go", "reset", "run"}]
    <2>1. Busy = {} /\ worker \in [Workers -> {"idle", "go", "reset", "run"}]
      BY <1>7, Numbers DEF TypeOK
    <2> HIDE DEF c
    <2> QED BY <1>1, <1>2, <1>3, <1>7, <1>8, <2>1, GoReaches
  <1>10. Unfinished' = Cardinality(c.on) /\ Cardinality(c.on) \in Nat
    <2>1. reports' = 0
      BY <1>1, <1>7, Numbers
    <2>2. Cardinality(c.on) \in Nat
      BY <1>8, GroupSize
    <2>3. Unfinished' = reports' + Cardinality(Busy)'
      BY DEF Unfinished
    <2> QED BY <1>9, <2>1, <2>2, <2>3
  <1>11. ready' = (IF c.op = "go" THEN ready - 1 ELSE ready) /\ ready' \in Nat
    <2>1. ready' = IF c.op = "go" /\ ready > 0 THEN ready - 1 ELSE ready
      BY <1>1 DEF SendGo
    <2>2. ready \in Nat /\ (c.op = "go" => ready > 0)
      BY <1>6, <1>7
    <2> HIDE DEF c
    <2> QED BY <2>1, <2>2
  <1>u. ASSUME mode = "distributed" PROVE TypeOK' /\ Counted(h, d, z)'
    <2>1. updates' = (IF countS # forwarded THEN Append(updates, countS) ELSE updates) /\ forwarded' = countS
          /\ countD' = countD /\ countS' = countS
      BY <1>1, <1>u DEF update_worker_completion_count, masterVars
    <2>2. PICK n \in Nat : n = countS
      BY <1>6
    <2>3. Growing(n)' /\ updates' \in Seq(Nat)
      BY <1>7, <1>u, <2>1, <2>2, Forwards DEF SameBase
    <2>4. Growing(forwarded)'
      BY <2>1, <2>2, <2>3 DEF Growing
    <2>5. SameBase(d, z)'
      BY <1>5, <1>6, <1>7, <1>u, <2>1, <2>4 DEF SameBase
    <2>6. forwarded' \in Nat
      BY <1>6, <2>1
    <2> DEFINE G == SameBase(d, z)' /\ updates' \in Seq(Nat) /\ forwarded' \in Nat
    <2>7. G
      BY <2>3, <2>5, <2>6
    <2>8. TypeOK'
      BY <1>1, <1>4, <1>9, <1>11, <2>7 DEF TypeOK, hostVars, masterVars
    <2>9. Counted(h, d, z)'
      <3> DEFINE a == h.sum[s.k]
                 m == Cardinality(c.on)
      <3>1. a = s.b + countS + Unfinished
        BY <1>u DEF At, Counted
      <3>2. a \in Nat /\ m \in Nat /\ countS' = countS /\ Unfinished' = m
        BY <1>6, <1>10, <2>1
      <3> HIDE DEF a, m
      <3>3. a + m = s.b + countS' + Unfinished'
        BY <1>6, <1>7, <3>1, <3>2
      <3>4. h.sum[s.k + 1] = s.b + countS' + Unfinished'
        BY <1>8, <3>3 DEF a, m
      <3> QED BY <1>1, <1>5, <1>u, <2>7, <3>4 DEF Counted
    <2> QED BY <1>u, <2>8, <2>9
  <1>v. ASSUME mode # "distributed" PROVE TypeOK' /\ Counted(h, d, z)'
    <2>1. updates' = updates /\ forwarded' = forwarded /\ countD' = countD /\ countS' = countS
      BY <1>1, <1>v DEF update_worker_completion_count, masterVars
    <2>8. TypeOK'
      BY <1>1, <1>4, <1>9, <1>11, <2>1 DEF TypeOK, hostVars, masterVars
    <2>9. Counted(h, d, z)'
      <3> DEFINE a == h.sum[s.k]
                 m == Cardinality(c.on)
      <3>0. Sent(d, s) = s.k /\ Sent(d, z)' = s.k + 1 /\ mode' = mode
        BY <1>1, <1>5, <1>7 DEF Sent
      <3>1. a = d.b + countD + Unfinished /\ updates = <<>>
        BY <1>v, <3>0 DEF At, Counted
      <3>2. a \in Nat /\ m \in Nat /\ countD' = countD /\ Unfinished' = m
        BY <1>6, <1>10, <2>1
      <3> HIDE DEF a, m
      <3>3. a + m = d.b + countD' + Unfinished'
        BY <1>6, <1>7, <3>1, <3>2
      <3>4. h.sum[s.k + 1] = d.b + countD' + Unfinished'
        BY <1>8, <3>3 DEF a, m
      <3> QED BY <1>v, <2>1, <3>0, <3>1, <3>4 DEF Counted
    <2> QED BY <1>v, <2>8, <2>9
  <1>12. TypeOK' /\ Counted(h, d, z)'
    BY <1>u, <1>v
  <1>13. Sent(d, s) = s.k /\ Sent(d, z)' = s.k + 1 /\ mode' = mode
    BY <1>1, <1>5, <1>7 DEF Sent
  <1>14. Notified(h, d, z)'
    <2>1. d.k = s.k + Pending /\ d.k <= h.end /\ \A k \in Nat : s.k <= k /\ k < d.k => h.base[k] = d.b
      BY <1>13 DEF At, Notified
    <2>2. Pending = notices + notified + 1 /\ Pending' = notices + notified + 0
      BY <1>1 DEF Pending
    <2>3. d.k = (s.k + 1) + Pending'
      BY <1>6, <2>1, <2>2
    <2>4. \A k \in Nat : s.k + 1 <= k => s.k <= k
      BY <1>6
    <2> QED BY <1>13, <2>1, <2>3, <2>4 DEF Notified
  <1>15. Configured(h, d, z)'
    <2> DEFINE g == h.cfg[s.k]
               m == h.cfg[s.k + 1]
    <2>1. h.cfg[d.k] <= d.l /\ d.l <= d.f /\ d.l <= ready + g /\ d.f <= ready + configs + g
      BY <1>13 DEF At, Configured
    <2>2. g \in Nat /\ m = (IF c.op = "go" THEN g + 1 ELSE g) /\ configs' = configs
      BY <1>1, <1>6, <1>8 DEF masterVars
    <2> HIDE DEF g, m
    <2>3. d.l <= ready' + m /\ d.f <= ready' + configs' + m
      BY <1>6, <1>7, <1>11, <2>1, <2>2
    <2> QED BY <1>13, <2>1, <2>3 DEF Configured, m
  <1>17. UnicastKnown(d, z)'
    BY <1>1, <1>7 DEF UnicastKnown
  <1> QED BY <1>3, <1>4, <1>12, <1>14, <1>15, <1>17 DEF IInv, InStep, At

\* dispatch_s clears its count: dispatch_d has cleared its own, or has been told what to wait for.
LEMMA SClearPreserves ==
    ASSUME TypeOK, Places, NEW h \in History, NEW d \in DVal, NEW s \in SVal,
           Ordered(h), InStream(h, d, s), At(h, d, s), SClear
    PROVE  IInv'
  <1> DEFINE c == Head(qs)
  <1>1. /\ qs # <<>> /\ c.op = "clear" /\ countS >= c.count /\ qs' = Tail(qs)
        /\ updates' = (IF countS # forwarded THEN Append(updates, countS) ELSE updates)
        /\ countS' = 0 /\ forwarded' = 0
        /\ UNCHANGED <<mode, hostVars, masterVars, ready, notified, taken, notices, unicast_only_cores, workerVars>>
    BY DEF SClear, SIs
  <1>2. PICK z \in SVal : /\ c \in Command /\ c.to = "s" /\ SStep(h, c, s, z)
                          /\ InStream(h, d, z)'
    BY <1>1, STail DEF hostVars, masterVars
  <1>3. taken = FALSE
    BY <1>1 DEF Places, SIs, TypeOK
  <1>4. Places' /\ qs' \in Seq(Command)
    BY <1>1, <1>3, SPlaces DEF masterVars
  <1>5. /\ z.k = s.k /\ z.b = h.sum[s.k] /\ z.u = s.u /\ mode = "distributed"
        /\ s.b + c.count = h.sum[s.k] /\ h.base[s.k] = h.sum[s.k] /\ c.count \in Nat
    BY <1>1, <1>2 DEF SStep, Command
  <1>6. /\ d.k \in Nat /\ s.k \in Nat /\ d.b \in Nat /\ s.b \in Nat /\ Pending \in Nat
        /\ countD \in Nat /\ countS \in Nat /\ forwarded \in Nat /\ updates \in Seq(Nat)
        /\ h.sum[s.k] \in Nat /\ Unfinished \in Nat
    BY Numbers
  <1> DEFINE a == h.sum[s.k]
  <1>7. a = s.b + countS + Unfinished /\ a \in Nat /\ s.b + c.count = a
    BY <1>5, <1>6 DEF At, Counted
  <1>8. Unfinished = 0 /\ a = s.b + countS
    <2> DEFINE n == c.count
    <2>1. n \in Nat /\ countS >= n /\ s.b + n = a
      BY <1>1, <1>5, <1>7
    <2> HIDE DEF n, a
    <2> QED BY <1>6, <1>7, <2>1
  <1>9. updates' \in Seq(Nat)
    BY <1>1, <1>6, AppendProperties
  <1>10. TypeOK'
    BY <1>1, <1>4, <1>9 DEF TypeOK, hostVars, masterVars, workerVars
  <1>11. Pending' = Pending /\ Unfinished' = Unfinished /\ countD' = countD
    BY <1>1, UnfinishedStays DEF Pending, masterVars
  <1>12. Notified(h, d, z)' /\ Configured(h, d, z)' /\ UnicastKnown(d, z)'
    BY <1>1, <1>5, <1>11, NotifiedStays, ConfiguredStays, UnicastStays DEF At, masterVars
  <1>13. Counted(h, d, z)'
    <2>1. h.sum[z.k] = z.b + countS' + Unfinished' /\ mode' = mode
      BY <1>1, <1>5, <1>6, <1>8, <1>11
    <2>2. CASE SameBase(d, s)
      <3>1. s.b = d.b /\ Growing(forwarded) /\ forwarded <= countS
        BY <2>2 DEF SameBase
      <3>2. PICK n \in Nat : n = countS
        BY <1>6
      <3>3. Growing(n)'
        BY <1>1, <1>11, <3>1, <3>2, Forwards
      <3>4. CASE countS = 0
        <4>1. z.b = d.b
          BY <1>5, <1>6, <1>8, <3>1, <3>4
        <4>2. SameBase(d, z)'
          BY <1>1, <3>2, <3>3, <3>4, <4>1 DEF SameBase, Growing
        <4> QED BY <1>5, <2>1, <4>2 DEF Counted
      <3>5. CASE countS # 0
        <4>1. d.b < z.b /\ a - d.b = n
          BY <1>5, <1>6, <1>8, <3>1, <3>2, <3>5
        <4>2. d.k = s.k
          <5>1. /\ d.k = s.k + Pending
                /\ \A k \in Nat : s.k <= k /\ k < d.k => h.base[k] = d.b
            BY <1>5 DEF At, Notified, Sent
          <5>2. h.base[s.k] # d.b
            BY <1>5, <1>6, <4>1
          <5>3. ~(s.k < d.k)
            BY <1>6, <5>1, <5>2
          <5>4. d.k = s.k + Pending
            BY <5>1
          <5> QED BY <1>6, <5>3, <5>4
        <4>3. Growing(h.sum[z.k] - d.b)'
          BY <1>5, <3>3, <4>1 DEF Growing
        <4>4. SlaveAhead(h, d, z)'
          BY <1>1, <1>5, <4>1, <4>2, <4>3 DEF SlaveAhead
        <4> QED BY <1>5, <2>1, <4>4 DEF Counted
      <3> QED BY <3>4, <3>5
    <2>3. CASE SlaveAhead(h, d, s)
      <3>1. d.b < s.b /\ s.b = a /\ d.k = s.k /\ h.base[s.k] = s.b /\ forwarded = 0 /\ Growing(a - d.b)
        BY <2>3 DEF SlaveAhead
      <3>2. countS = 0
        BY <1>6, <1>8, <3>1
      <3>3. updates' = updates
        BY <1>1, <3>1, <3>2
      <3>4. SlaveAhead(h, d, z)'
        BY <1>1, <1>5, <1>11, <3>1, <3>3 DEF SlaveAhead, Growing
      <3> QED BY <1>5, <2>1, <3>4 DEF Counted
    <2>4. CASE MasterAhead(h, d, s)
      <3>1. d.b = a /\ countD = 0 /\ updates = <<>> /\ forwarded = countS
        BY <2>4 DEF MasterAhead
      <3>2. updates' = <<>>
        BY <1>1, <3>1
      <3>3. Growing(forwarded)'
        BY <1>1, <1>11, <3>1, <3>2, EmptySeq DEF Growing
      <3>4. SameBase(d, z)'
        BY <1>1, <1>5, <3>1, <3>3 DEF SameBase
      <3> QED BY <1>5, <2>1, <3>4 DEF Counted
    <2> QED BY <1>5, <2>2, <2>3, <2>4 DEF At, Counted
  <1> QED BY <1>2, <1>4, <1>10, <1>12, <1>13 DEF IInv, InStep, At

-----------------------------------------------------------------------------
(* The prefetcher, the NOC and the workers *)

\* A command that is appended to the buffer of its dispatcher leaves the first one where it is.
LEMMA AppendPlaces ==
    ASSUME NEW q \in Seq(Command), NEW c \in Command, NEW to, c.to = to, \A i \in 1 .. Len(q) : q[i].to = to
    PROVE  /\ Append(q, c) \in Seq(Command)
           /\ \A i \in 1 .. Len(Append(q, c)) : Append(q, c)[i].to = to
           /\ q # <<>> => Append(q, c) # <<>> /\ Head(Append(q, c)) = Head(q)
  <1> DEFINE n == Len(q)
             a == Append(q, c)
  <1>1. n \in Nat /\ a \in Seq(Command) /\ Len(a) = n + 1 /\ a[n + 1] = c /\ \A i \in 1 .. n : a[i] = q[i]
    BY LenProperties, AppendProperties
  <1>2. \A i \in 1 .. n + 1 : i \in 1 .. n \/ i = n + 1
    BY <1>1
  <1>3. q # <<>> => n >= 1 /\ Head(q) = q[1]
    BY <1>1, EmptySeq, HeadTailProperties
  <1>4. a # <<>> /\ Head(a) = a[1]
    BY <1>1, EmptySeq, HeadTailProperties
  <1>5. n >= 1 => a[1] = q[1]
    BY <1>1
  <1> QED BY <1>1, <1>2, <1>3, <1>4, <1>5

\* The prefetcher moves a command and touches nothing else.
LEMMA RelayPreserves ==
    ASSUME TypeOK, Places, NEW h \in History, NEW d \in DVal, NEW s \in SVal,
           Ordered(h), InStream(h, d, s), At(h, d, s), Relay
    PROVE  IInv'
  <1>1. /\ stream # <<>> /\ stream' = Tail(stream)
        /\ UNCHANGED <<mode, expected, open, countD, clearing, configs, ready, countS, forwarded, notified, taken,
                       notices, updates, unicast_only_cores, workerVars>>
    BY DEF Relay
  <1> DEFINE c == Head(stream)
  <1>2. stream \in Seq(Command) /\ qd \in Seq(Command) /\ qs \in Seq(Command)
    BY DEF TypeOK
  <1>3. c \in Command /\ stream' \in Seq(Command)
    BY <1>1, <1>2, QueueTypes
  <1>4. CASE c.to = "d"
    <2>1. qd' = Append(qd, c) /\ qs' = qs
      BY <1>4 DEF Relay
    <2>2. /\ qd' \in Seq(Command)
          /\ \A i \in 1 .. Len(qd') : qd'[i].to = "d"
          /\ qd # <<>> => qd' # <<>> /\ Head(qd') = Head(qd)
      BY <1>2, <1>3, <1>4, <2>1, AppendPlaces DEF Places
    <2>3. Places'
      BY <1>1, <2>1, <2>2 DEF Places, DIs, SIs
    <2>4. TypeOK'
      BY <1>1, <1>3, <2>1, <2>2 DEF TypeOK, workerVars
    <2>5. Pending' = Pending /\ Unfinished' = Unfinished
      BY <1>1, UnfinishedStays DEF Pending
    <2>6. At(h, d, s)'
      BY <1>1, <2>5, NotifiedStays, ConfiguredStays, CountedStays, UnicastStays DEF At
    <2> QED BY <2>3, <2>4, <2>6, RelayMoves DEF IInv, InStep
  <1>5. CASE c.to # "d"
    <2>0. c.to = "s"
      BY <1>3, <1>5 DEF Command
    <2>1. qs' = Append(qs, c) /\ qd' = qd
      BY <1>5 DEF Relay
    <2>2. /\ qs' \in Seq(Command)
          /\ \A i \in 1 .. Len(qs') : qs'[i].to = "s"
          /\ qs # <<>> => qs' # <<>> /\ Head(qs') = Head(qs)
      BY <1>2, <1>3, <2>0, <2>1, AppendPlaces DEF Places
    <2>3. Places'
      BY <1>1, <2>1, <2>2 DEF Places, DIs, SIs
    <2>4. TypeOK'
      BY <1>1, <1>3, <2>1, <2>2 DEF TypeOK, workerVars
    <2>5. Pending' = Pending /\ Unfinished' = Unfinished
      BY <1>1, UnfinishedStays DEF Pending
    <2>6. At(h, d, s)'
      BY <1>1, <2>5, NotifiedStays, ConfiguredStays, CountedStays, UnicastStays DEF At
    <2> QED BY <2>3, <2>4, <2>6, RelayMoves DEF IInv, InStep
  <1> QED BY <1>4, <1>5

\* A configuration that has landed was one on its way.
LEMMA ConfigLandsPreserves ==
    ASSUME TypeOK, Places, NEW h \in History, NEW d \in DVal, NEW s \in SVal,
           Ordered(h), InStream(h, d, s), At(h, d, s), ConfigLands
    PROVE  IInv'
  <1>1. /\ configs > 0 /\ configs' = configs - 1 /\ ready' = ready + 1
        /\ UNCHANGED <<mode, hostVars, qd, countD, clearing, slaveVars, notices, updates, unicast_only_cores, workerVars>>
    BY DEF ConfigLands
  <1>2. configs \in Nat /\ ready \in Nat /\ configs' \in Nat /\ ready' \in Nat
    BY <1>1 DEF TypeOK
  <1>3. TypeOK' /\ Places'
    BY <1>1, <1>2 DEF TypeOK, Places, DIs, SIs, hostVars, slaveVars, workerVars
  <1>4. InStream(h, d, s)'
    BY <1>1, QueuesStay DEF hostVars, slaveVars
  <1>5. Pending' = Pending /\ Unfinished' = Unfinished
    BY <1>1, UnfinishedStays DEF Pending, slaveVars
  <1>6. Notified(h, d, s)' /\ Counted(h, d, s)' /\ UnicastKnown(d, s)'
    BY <1>1, <1>5, NotifiedStays, CountedStays, UnicastStays DEF At, slaveVars
  <1>7. Configured(h, d, s)'
    <2> DEFINE k == h.cfg[Sent(d, s)]
    <2>1. k \in Nat /\ d.l \in Nat /\ d.f \in Nat
      BY Numbers
    <2>2. h.cfg[d.k] <= d.l /\ d.l <= d.f /\ d.l <= ready + k /\ d.f <= ready + configs + k
      BY DEF At, Configured
    <2>3. Sent(d, s)' = Sent(d, s)
      BY <1>1 DEF Sent
    <2> HIDE DEF k
    <2>4. d.l <= ready' + k /\ d.f <= ready' + configs' + k
      BY <1>1, <1>2, <2>1, <2>2
    <2> QED BY <2>2, <2>3, <2>4 DEF Configured, k
  <1> QED BY <1>3, <1>4, <1>6, <1>7 DEF IInv, InStep, At

\* A notification that has landed was one on its way.
LEMMA NoticeLandsPreserves ==
    ASSUME TypeOK, Places, NEW h \in History, NEW d \in DVal, NEW s \in SVal,
           Ordered(h), InStream(h, d, s), At(h, d, s), NoticeLands
    PROVE  IInv'
  <1>1. /\ notices > 0 /\ notices' = notices - 1 /\ notified' = notified + 1
        /\ UNCHANGED <<mode, hostVars, masterVars, ready, qs, countS, forwarded, taken, updates, unicast_only_cores, workerVars>>
    BY DEF NoticeLands
  <1>2. notices \in Nat /\ notified \in Nat /\ notices' \in Nat /\ notified' \in Nat
    BY <1>1 DEF TypeOK
  <1>3. TypeOK' /\ Places'
    BY <1>1, <1>2 DEF TypeOK, Places, DIs, SIs, hostVars, masterVars, workerVars
  <1>4. InStream(h, d, s)'
    BY <1>1, QueuesStay DEF hostVars, masterVars
  <1>5. Pending' = Pending /\ Unfinished' = Unfinished
    <2>1. notices' + notified' = notices + notified /\ taken' = taken
      BY <1>1, <1>2
    <2> QED BY <1>1, <2>1, UnfinishedStays DEF Pending
  <1>6. At(h, d, s)'
    BY <1>1, <1>5, NotifiedStays, ConfiguredStays, CountedStays, UnicastStays DEF At, masterVars
  <1> QED BY <1>3, <1>4, <1>6 DEF IInv, InStep

\* The next count reaches dispatch_d: it is larger than the one that was there.
LEMMA GrowLands ==
    ASSUME TypeOK, NEW n \in Nat, Growing(n), updates # <<>>, countD' = Head(updates), updates' = Tail(updates)
    PROVE  Growing(n)' /\ updates' \in Seq(Nat) /\ countD' \in Nat
  <1>1. countD \in Nat /\ updates \in Seq(Nat)
    BY DEF TypeOK
  <1> DEFINE l == Len(updates)
  <1>2. /\ l \in Nat /\ Len(updates') = l - 1 /\ l >= 1 /\ countD' = updates[1] /\ updates' \in Seq(Nat) /\ countD' \in Nat
        /\ \A i \in 1 .. l - 1 : updates'[i] = updates[i + 1]
    BY <1>1, LenProperties, EmptySeq, HeadTailProperties
  <1>3. /\ \A i \in 1 .. l : countD < updates[i] /\ updates[i] <= n
        /\ \A i, j \in 1 .. l : i < j => updates[i] < updates[j]
    BY DEF Growing
  <1> HIDE DEF l
  <1>4. countD' <= n
    BY <1>2, <1>3
  <1>5. ASSUME NEW i \in 1 .. l - 1 PROVE countD' < updates'[i] /\ updates'[i] <= n
    <2>1. 1 \in 1 .. l /\ i + 1 \in 1 .. l /\ 1 < i + 1
      BY <1>2
    <2> QED BY <1>2, <1>3, <2>1
  <1>6. ASSUME NEW i \in 1 .. l - 1, NEW j \in 1 .. l - 1, i < j PROVE updates'[i] < updates'[j]
    <2>1. i + 1 \in 1 .. l /\ j + 1 \in 1 .. l /\ i + 1 < j + 1
      BY <1>2, <1>6
    <2> QED BY <1>2, <1>3, <2>1
  <1> QED BY <1>2, <1>4, <1>5, <1>6 DEF Growing

\* While dispatch_d clears its count, nothing is unfinished and no count is on its way.
LEMMA QuietWhileClearing ==
    ASSUME TypeOK, Places, NEW h \in History, NEW d \in DVal, NEW s \in SVal,
           Ordered(h), InStream(h, d, s), At(h, d, s), clearing # None
    PROVE  Unfinished = 0 /\ updates = <<>>
  <1>1. qd # <<>> /\ Head(qd).op = "clear" /\ countD = Head(qd).count
    BY DEF Places, DIs
  <1>2. PICK z \in DVal : Head(qd) \in Command /\ Head(qd).to = "d" /\ DStep(h, Head(qd), d, z)
    BY <1>1, DTail
  <1>3. d.b + Head(qd).count = h.sum[d.k] /\ Head(qd).count \in Nat /\ Head(qd).count <= countD
    BY <1>1, <1>2 DEF DStep, Command
  <1> QED BY <1>3, ReachedByMaster DEF At

\* A forwarded count replaces a smaller one, and never while dispatch_d clears.
LEMMA UpdateLandsPreserves ==
    ASSUME TypeOK, Places, NEW h \in History, NEW d \in DVal, NEW s \in SVal,
           Ordered(h), InStream(h, d, s), At(h, d, s), UpdateLands
    PROVE  IInv'
  <1>1. /\ updates # <<>> /\ countD' = Head(updates) /\ updates' = Tail(updates)
        /\ UNCHANGED <<mode, hostVars, qd, clearing, configs, ready, slaveVars, notices, unicast_only_cores, workerVars>>
    BY DEF UpdateLands
  <1>2. mode = "distributed" /\ ~MasterAhead(h, d, s)
    BY <1>1 DEF At, Counted, MasterAhead
  <1>3. clearing = None
    BY <1>1, QuietWhileClearing
  <1>4. updates' \in Seq(Nat) /\ countD' \in Nat
    <2>1. updates \in Seq(Nat)
      BY DEF TypeOK
    <2> QED BY <1>1, <2>1, QueueTypes
  <1>5. TypeOK' /\ Places'
    BY <1>1, <1>3, <1>4 DEF TypeOK, Places, DIs, SIs, hostVars, slaveVars, workerVars
  <1>6. InStream(h, d, s)'
    BY <1>1, QueuesStay DEF hostVars, slaveVars
  <1>7. Pending' = Pending /\ Unfinished' = Unfinished
    BY <1>1, UnfinishedStays DEF Pending, slaveVars
  <1>8. Notified(h, d, s)' /\ Configured(h, d, s)' /\ UnicastKnown(d, s)'
    BY <1>1, <1>7, NotifiedStays, ConfiguredStays, UnicastStays DEF At
  <1>9. mode' = mode /\ countS' = countS /\ forwarded' = forwarded
    BY <1>1 DEF slaveVars
  <1>10. h.sum[s.k] = s.b + countS' + Unfinished'
    BY <1>2, <1>7, <1>9 DEF At, Counted
  <1>11. CASE SameBase(d, s)
    <2>1. PICK n \in Nat : n = forwarded
      BY DEF TypeOK
    <2>2. Growing(n)'
      BY <1>1, <1>11, <2>1, GrowLands DEF SameBase
    <2>3. SameBase(d, s)'
      BY <1>9, <1>11, <2>1, <2>2 DEF SameBase, Growing
    <2> QED BY <1>2, <1>5, <1>6, <1>8, <1>9, <1>10, <2>3 DEF IInv, InStep, At, Counted
  <1>12. CASE SlaveAhead(h, d, s)
    <2> DEFINE n == h.sum[s.k] - d.b
    <2>1. n \in Nat /\ Growing(n)
      <3>1. h.sum[s.k] \in Nat /\ d.b \in Nat /\ s.b \in Nat
        BY Numbers
      <3> QED BY <1>12, <3>1 DEF SlaveAhead
    <2>2. Growing(n)'
      <3> HIDE DEF n
      <3>1. PICK m \in Nat : m = n
        BY <2>1
      <3>2. Growing(m)'
        BY <1>1, <2>1, <3>1, GrowLands
      <3>3. n' = n
        BY DEF n
      <3> QED BY <3>1, <3>2, <3>3 DEF Growing
    <2>3. SlaveAhead(h, d, s)'
      BY <1>9, <1>12, <2>2 DEF SlaveAhead
    <2> QED BY <1>2, <1>5, <1>6, <1>8, <1>9, <1>10, <2>3 DEF IInv, InStep, At, Counted
  <1> QED BY <1>2, <1>11, <1>12 DEF At, Counted

\* What a worker does leaves what is unfinished as it is.
LEMMA WorkerPreserves ==
    ASSUME TypeOK, Places, NEW h \in History, NEW d \in DVal, NEW s \in SVal,
           Ordered(h), InStream(h, d, s), At(h, d, s), NEW w \in Workers, WorkerSees(w) \/ WorkerDone(w)
    PROVE  IInv'
  <1>1. UNCHANGED <<mode, hostVars, masterVars, ready, slaveVars, notices, updates, unicast_only_cores>>
    BY DEF WorkerSees, WorkerDone
  <1>2. worker \in [Workers -> {"idle", "go", "reset", "run"}] /\ reports \in Nat
    BY DEF TypeOK
  <1>3. Unfinished' = Unfinished /\ reports' \in Nat /\ worker' \in [Workers -> {"idle", "go", "reset", "run"}]
    <2>1. CASE worker[w] = "go"
      <3>1. worker' = [worker EXCEPT ![w] = "run"] /\ reports' = reports
        BY <2>1 DEF WorkerSees, WorkerDone
      <3>2. Busy' = Busy
        BY <1>2, <2>1, <3>1 DEF Busy
      <3> QED BY <1>2, <3>1, <3>2 DEF Unfinished
    <2>2. CASE worker[w] # "go"
      <3>1. worker[w] # "idle" /\ worker' = [worker EXCEPT ![w] = "idle"] /\ reports' = reports + 1
        BY <2>2 DEF WorkerSees, WorkerDone
      <3>2. Cardinality(Busy)' + 1 = Cardinality(Busy)
        BY <1>2, <3>1, WorkerFinishes
      <3>3. IsFiniteSet(Busy')
        BY GoAssumption, FS_Subset DEF Busy
      <3>4. Cardinality(Busy)' \in Nat /\ Cardinality(Busy) \in Nat
        BY <3>3, BusyFinite, FS_CardinalityType
      <3>5. Unfinished' = reports' + Cardinality(Busy)' /\ Unfinished = reports + Cardinality(Busy)
        BY DEF Unfinished
      <3> QED BY <1>2, <3>1, <3>2, <3>4, <3>5
    <2> QED BY <2>1, <2>2
  <1>4. TypeOK' /\ Places'
    BY <1>1, <1>3 DEF TypeOK, Places, DIs, SIs, hostVars, masterVars, slaveVars
  <1>5. InStream(h, d, s)'
    BY <1>1, QueuesStay DEF hostVars, masterVars, slaveVars
  <1>6. Pending' = Pending
    BY <1>1 DEF Pending, slaveVars
  <1>7. At(h, d, s)'
    BY <1>1, <1>3, <1>6, NotifiedStays, ConfiguredStays, CountedStays, UnicastStays DEF At, masterVars, slaveVars
  <1> QED BY <1>4, <1>5, <1>7 DEF IInv, InStep

\* A completion moves from what is unfinished to the count that the workers report to.
LEMMA ReportLandsPreserves ==
    ASSUME TypeOK, Places, NEW h \in History, NEW d \in DVal, NEW s \in SVal,
           Ordered(h), InStream(h, d, s), At(h, d, s), ReportLands
    PROVE  IInv'
  <1>1. /\ reports > 0 /\ reports' = reports - 1
        /\ countS' = (IF mode = "distributed" THEN countS + 1 ELSE countS)
        /\ countD' = (IF mode = "distributed" THEN countD ELSE countD + 1)
        /\ UNCHANGED <<mode, hostVars, qd, clearing, configs, ready, qs, forwarded, notified, taken, notices, updates,
                       unicast_only_cores, worker>>
    BY DEF ReportLands
  <1>2. /\ reports \in Nat /\ countS \in Nat /\ countD \in Nat /\ s.b \in Nat /\ d.b \in Nat /\ forwarded \in Nat
        /\ h.sum[s.k] \in Nat
    BY Numbers
  <1>3. Unfinished' \in Nat /\ Unfinished = Unfinished' + 1 /\ Unfinished # 0
    <2>1. Busy' = Busy /\ Cardinality(Busy) \in Nat
      BY <1>1, BusyFinite DEF Busy
    <2>2. Unfinished' = reports' + Cardinality(Busy) /\ Unfinished = reports + Cardinality(Busy)
      BY <2>1 DEF Unfinished
    <2> QED BY <1>1, <1>2, <2>1, <2>2
  <1>4. clearing = None
    BY <1>3, QuietWhileClearing
  <1>5. TypeOK' /\ Places'
    BY <1>1, <1>2, <1>4 DEF TypeOK, Places, DIs, SIs, hostVars
  <1>6. InStream(h, d, s)'
    BY <1>1, QueuesStay DEF hostVars
  <1>7. Pending' = Pending
    BY <1>1 DEF Pending
  <1>8. Notified(h, d, s)' /\ Configured(h, d, s)' /\ UnicastKnown(d, s)'
    BY <1>1, <1>7, NotifiedStays, ConfiguredStays, UnicastStays DEF At
  <1>9. Counted(h, d, s)'
    <2>1. ASSUME mode # "distributed" PROVE Counted(h, d, s)'
      <3> DEFINE a == h.sum[Sent(d, s)]
      <3>1. a = d.b + countD + Unfinished /\ updates = <<>> /\ Sent(d, s)' = Sent(d, s)
        BY <1>1, <2>1 DEF At, Counted, Sent
      <3> HIDE DEF a
      <3>2. a = d.b + countD' + Unfinished'
        <4>1. countD' = countD + 1 /\ a = d.b + countD + Unfinished
          BY <1>1, <2>1, <3>1
        <4> QED BY <1>2, <1>3, <4>1
      <3> QED BY <1>1, <2>1, <3>1, <3>2 DEF Counted, a
    <2>2. ASSUME mode = "distributed" PROVE Counted(h, d, s)'
      <3> DEFINE a == h.sum[s.k]
      <3>1. a = s.b + countS + Unfinished
        BY <2>2 DEF At, Counted
      <3>2. a = s.b + countS' + Unfinished'
        <4> HIDE DEF a
        <4> QED BY <1>1, <1>2, <1>3, <2>2, <3>1
      <3>3. ~SlaveAhead(h, d, s) /\ ~MasterAhead(h, d, s)
        <4>1. a # s.b /\ a # s.b + countS
          <5> HIDE DEF a
          <5> QED BY <1>2, <1>3, <3>1
        <4> QED BY <4>1 DEF SlaveAhead, MasterAhead
      <3>4. SameBase(d, s)
        BY <2>2, <3>3 DEF At, Counted
      <3>5. SameBase(d, s)'
        <4>1. forwarded <= countS'
          BY <1>1, <1>2, <2>2, <3>4 DEF SameBase
        <4>2. countD' = countD /\ updates' = updates /\ forwarded' = forwarded
          BY <1>1, <2>2
        <4> QED BY <3>4, <4>1, <4>2 DEF SameBase, Growing
      <3> QED BY <1>1, <2>2, <3>2, <3>5 DEF Counted
    <2> QED BY <2>1, <2>2
  <1> QED BY <1>5, <1>6, <1>8, <1>9 DEF IInv, InStep, At

-----------------------------------------------------------------------------
(* The host *)

\* What was enqueued before stays; only where the next go signal counts from may still move, to all that was given.
Extends(h, g) ==
    /\ h.end <= g.end
    /\ \A i \in 0 .. h.end : g.sum[i] = h.sum[i] /\ g.cfg[i] = h.cfg[i]
    /\ \A i \in 0 .. h.end : g.base[i] = h.base[i] \/ (i = h.end /\ g.base[i] = g.sum[i])

\* The commands that are under way still do what they did.
LEMMA StepsGrow ==
    ASSUME NEW h \in History, NEW g \in History, Extends(h, g)
    PROVE  DSteps(h) \subseteq DSteps(g) /\ SSteps(h) \subseteq SSteps(g)
  <1>1. h.end \in Nat /\ g.end \in Nat /\ h.end <= g.end
    BY DEF History, Extends
  <1>2. ASSUME NEW c \in Command, NEW a \in DVal, NEW z \in DVal, DStep(h, c, a, z)
        PROVE  DStep(g, c, a, z)
    <2>1. CASE c.to # "d"
      BY <1>2, <2>1 DEF DStep
    <2>2. CASE c.to = "d"
      <3>1. z.k <= h.end /\ z.k = (IF c.op \in {"notify", "go", "reset"} THEN a.k + 1 ELSE a.k) /\ a.k \in Nat /\ z.k \in Nat
        BY <1>2, <2>2 DEF DStep, DVal
      <3>2. a.k \in 0 .. h.end /\ z.k \in 0 .. h.end /\ z.k <= g.end
        BY <1>1, <3>1
      <3>3. g.sum[a.k] = h.sum[a.k]
        BY <3>2 DEF Extends
      <3>4. ASSUME c.op \in {"notify", "go", "reset"}
            PROVE  /\ g.base[a.k] = h.base[a.k] /\ g.cfg[a.k] = h.cfg[a.k]
                   /\ g.cfg[a.k + 1] = h.cfg[a.k + 1] /\ g.sum[a.k + 1] = h.sum[a.k + 1]
        <4>1. a.k + 1 \in 0 .. h.end /\ a.k # h.end
          BY <1>1, <3>1, <3>4
        <4> QED BY <3>2, <4>1 DEF Extends
      <3> QED BY <1>2, <2>2, <3>2, <3>3, <3>4 DEF DStep, GoAt
    <2> QED BY <2>1, <2>2
  <1>3. ASSUME NEW c \in Command, NEW a \in SVal, NEW z \in SVal, SStep(h, c, a, z)
        PROVE  SStep(g, c, a, z)
    <2>1. CASE c.to # "s"
      BY <1>3, <2>1 DEF SStep
    <2>2. CASE c.to = "s"
      <3>1. z.k <= h.end /\ z.k = (IF c.op \in {"go", "reset"} THEN a.k + 1 ELSE a.k) /\ a.k \in Nat /\ z.k \in Nat
        BY <1>3, <2>2 DEF SStep, SVal
      <3>2. a.k \in 0 .. h.end /\ z.k \in 0 .. h.end /\ z.k <= g.end
        BY <1>1, <3>1
      <3>3. g.sum[a.k] = h.sum[a.k] /\ (h.base[a.k] = h.sum[a.k] => g.base[a.k] = g.sum[a.k])
        BY <3>2 DEF Extends
      <3>4. ASSUME c.op \in {"go", "reset"}
            PROVE  /\ g.base[a.k] = h.base[a.k] /\ g.cfg[a.k] = h.cfg[a.k]
                   /\ g.cfg[a.k + 1] = h.cfg[a.k + 1] /\ g.sum[a.k + 1] = h.sum[a.k + 1]
        <4>1. a.k + 1 \in 0 .. h.end /\ a.k # h.end
          BY <1>1, <3>1, <3>4
        <4> QED BY <3>2, <4>1 DEF Extends
      <3> QED BY <1>3, <2>2, <3>2, <3>3, <3>4 DEF SStep, GoAt
    <2> QED BY <2>1, <2>2
  <1> QED BY <1>2, <1>3 DEF DSteps, SSteps

\* The dispatchers are where they were.
LEMMA AtGrows ==
    ASSUME TypeOK, NEW h \in History, NEW g \in History, NEW d \in DVal, NEW s \in SVal,
           Ordered(h), Extends(h, g), At(h, d, s)
    PROVE  At(g, d, s)
  <1> DEFINE k == Sent(d, s)
  <1>1. k <= d.k /\ d.k <= h.end /\ k \in Nat /\ d.k \in Nat /\ h.end \in Nat /\ g.end \in Nat /\ h.end <= g.end
    BY PendingCounts, Numbers DEF At, Extends
  <1>2. k \in 0 .. h.end /\ d.k \in 0 .. h.end /\ d.k <= g.end
    <2> HIDE DEF k
    <2> QED BY <1>1
  <1>3. g.sum[k] = h.sum[k] /\ g.cfg[k] = h.cfg[k] /\ g.cfg[d.k] = h.cfg[d.k]
    BY <1>2 DEF Extends
  <1>4. Notified(g, d, s)
    <2>1. ASSUME NEW i \in Nat, k <= i, i < d.k PROVE g.base[i] = d.b
      <3>1. i \in 0 .. h.end /\ i # h.end
        BY <1>1, <2>1
      <3>2. g.base[i] = h.base[i]
        BY <3>1 DEF Extends
      <3> QED BY <2>1, <3>2 DEF At, Notified
    <2> QED BY <1>2, <2>1 DEF At, Notified
  <1>5. Configured(g, d, s)
    BY <1>3 DEF At, Configured
  <1>6. Counted(g, d, s)
    <2>1. CASE mode # "distributed"
      BY <1>3, <2>1 DEF At, Counted
    <2>2. CASE mode = "distributed"
      <3>1. k = s.k
        BY <2>2 DEF Sent
      <3>2. g.sum[s.k] = h.sum[s.k] /\ (h.base[s.k] = h.sum[s.k] => g.base[s.k] = g.sum[s.k])
        BY <1>2, <1>3, <3>1 DEF Extends
      <3>3. SlaveAhead(h, d, s) => SlaveAhead(g, d, s)
        BY <3>2 DEF SlaveAhead
      <3>4. MasterAhead(h, d, s) => MasterAhead(g, d, s)
        BY <3>2 DEF MasterAhead
      <3> QED BY <2>2, <3>2, <3>3, <3>4 DEF At, Counted
    <2> QED BY <2>1, <2>2
  <1> QED BY <1>4, <1>5, <1>6 DEF At

\* When everything was relayed, the commands in the buffers lead to where the host is.
LEMMA AllRelayed ==
    ASSUME NEW h \in History, NEW d \in DVal, NEW s \in SVal, InStream(h, d, s), stream = <<>>
    PROVE  \E dm \in DVal, sm \in SVal : /\ Path(qd, DSteps(h), DVal, d, dm) /\ Path(qs, SSteps(h), SVal, s, sm)
                                         /\ HostAt(h, dm, sm)
  <1>1. PICK dm \in DVal, sm \in SVal : Underway(h, d, dm, s, sm)
    BY DEF InStream
  <1>2. PICK de \in DVal, se \in SVal :
           /\ Path(stream, DSteps(h), DVal, dm, de) /\ Path(stream, SSteps(h), SVal, sm, se)
           /\ HostAt(h, de, se)
    BY <1>1 DEF Underway
  <1>3. dm = de /\ sm = se
    BY <1>2, PathEmptyEnds
  <1> QED BY <1>1, <1>2, <1>3 DEF Underway

\* New commands that lead to where the host then is.
LEMMA HostPreserves ==
    ASSUME TypeOK, Places, NEW h \in History, NEW d \in DVal, NEW s \in SVal, Ordered(h), At(h, d, s),
           NEW dm \in DVal, NEW sm \in SVal, Path(qd, DSteps(h), DVal, d, dm), Path(qs, SSteps(h), SVal, s, sm),
           NEW g \in History, Extends(h, g), Ordered(g), NEW de \in DVal, NEW se \in SVal,
           Path(stream', DSteps(g), DVal, dm, de), Path(stream', SSteps(g), SVal, sm, se), HostAt(g, de, se)',
           stream' \in Seq(Command), expected' \in Nat, open' \in BOOLEAN,
           UNCHANGED <<mode, masterVars, ready, slaveVars, notices, updates, unicast_only_cores, workerVars>>
    PROVE  IInv'
  <1>1. TypeOK' /\ Places'
    BY DEF TypeOK, Places, DIs, SIs, masterVars, slaveVars, workerVars
  <1>2. DSteps(g)' = DSteps(g) /\ SSteps(g)' = SSteps(g)
    BY StepsStay
  <1>3. Path(qd, DSteps(g), DVal, d, dm) /\ Path(qs, SSteps(g), SVal, s, sm)
    BY StepsGrow, PathMore
  <1>4. qd' = qd /\ qs' = qs
    BY DEF masterVars, slaveVars
  <1> HIDE DEF DSteps, SSteps
  <1>5. Underway(g, d, dm, s, sm)'
    BY <1>2, <1>3, <1>4 DEF Underway
  <1>6. InStream(g, d, s)'
    BY <1>5 DEF InStream
  <1>7. Pending' = Pending /\ Unfinished' = Unfinished
    BY UnfinishedStays DEF Pending, slaveVars
  <1>8. At(g, d, s)
    BY AtGrows
  <1>9. At(g, d, s)'
    BY <1>7, <1>8, NotifiedStays, ConfiguredStays, CountedStays, UnicastStays DEF At, masterVars, slaveVars
  <1> QED BY <1>1, <1>6, <1>9 DEF IInv, InStep

\* The commands the host makes are commands.
LEMMA CmdType ==
    ASSUME NEW to \in {"d", "s"}, NEW n \in Nat, NEW on \in SUBSET Workers,
           NEW op \in {"config", "barrier", "wait", "clear", "notify", "go", "reset", "unicast", "terminate"}
    PROVE  /\ Cmd(to, op, n, on) \in Command /\ <<Cmd(to, op, n, on)>> \in Seq(Command)
           /\ Cmd(to, op, n, on).to = to /\ Cmd(to, op, n, on).op = op
           /\ Cmd(to, op, n, on).count = n /\ Cmd(to, op, n, on).on = on
  BY DEF Cmd, Command

\* A command that a dispatcher does not see.
LEMMA NotSeen ==
    ASSUME NEW g, NEW c \in Command, NEW a \in DVal, NEW y \in SVal
    PROVE  /\ c.to = "s" => Path(<<c>>, DSteps(g), DVal, a, a)
           /\ c.to = "d" => Path(<<c>>, SSteps(g), SVal, y, y)
  <1>1. ASSUME c.to = "s" PROVE Path(<<c>>, DSteps(g), DVal, a, a)
    <2>1. <<c, a, a>> \in DSteps(g)
      BY <1>1, StepFacts DEF DStep
    <2> QED BY <2>1, PathOne
  <1>2. ASSUME c.to = "d" PROVE Path(<<c>>, SSteps(g), SVal, y, y)
    <2>1. <<c, y, y>> \in SSteps(g)
      BY <1>2, StepFacts DEF SStep
    <2> QED BY <2>1, PathOne
  <1> QED BY <1>1, <1>2

\* A go signal for the workers on can follow what leads to a and y.
GoNext(g, a, y, n, on, op) ==
    /\ a.k + 1 <= g.end /\ g.base[a.k] = a.b /\ a.b + n = g.sum[a.k] /\ g.cfg[a.k + 1] <= a.l
    /\ g.sum[a.k + 1] = g.sum[a.k] + Cardinality(on)
    /\ g.cfg[a.k + 1] = g.cfg[a.k] + (IF op = "go" THEN 1 ELSE 0)
    /\ mode = "master" => a.u = 1
    /\ mode # "master" => y.k = a.k /\ y.u = 1
    /\ mode = "distributed" => y.b = a.b

\* A notification and a go signal: both dispatchers have one more go signal behind them.
LEMMA GoPath ==
    ASSUME NEW g \in History, NEW a \in DVal, NEW y \in SVal, NEW n \in Nat, NEW on \in Groups, NEW op \in {"go", "reset"},
           GoNext(g, a, y, n, on, op)
    PROVE  /\ Notify \in Seq(Command) /\ <<Cmd(Sender, op, n, on)>> \in Seq(Command)
           /\ \E da \in DVal, db \in DVal, yb \in SVal :
                 /\ Path(Notify, DSteps(g), DVal, a, da) /\ Path(<<Cmd(Sender, op, n, on)>>, DSteps(g), DVal, da, db)
                 /\ Path(Notify, SSteps(g), SVal, y, y) /\ Path(<<Cmd(Sender, op, n, on)>>, SSteps(g), SVal, y, yb)
                 /\ db.k = a.k + 1 /\ db.b = a.b /\ db.f = a.f /\ db.l = a.l /\ db.u = a.u
                 /\ mode # "master" => yb.k = y.k + 1
                 /\ yb.b = y.b /\ yb.u = y.u
  <1> DEFINE c == Cmd(Sender, op, n, on)
             m == Cmd("d", "notify", 0, {})
             e == [k |-> a.k + 1, b |-> a.b, f |-> a.f, l |-> a.l, u |-> a.u]
             x == [k |-> y.k + 1, b |-> y.b, u |-> y.u]
  <1>1. e \in DVal /\ x \in SVal /\ e.k = a.k + 1 /\ e.b = a.b /\ e.f = a.f /\ e.l = a.l /\ e.u = a.u
        /\ x.k = y.k + 1 /\ x.b = y.b /\ x.u = y.u
    BY DEF DVal, SVal
  <1>2. c \in Command /\ c.to = Sender /\ c.op = op /\ c.count = n /\ c.on = on /\ <<c>> \in Seq(Command)
    <2>1. Sender \in {"d", "s"} /\ on \in SUBSET Workers
      BY GroupSize DEF Sender
    <2> QED BY <2>1, CmdType
  <1>3. m \in Command /\ m.to = "d" /\ m.op = "notify" /\ m.count = 0 /\ <<m>> \in Seq(Command)
    BY CmdType
  <1>4. GoAt(g, c, a.k)
    BY <1>2 DEF GoAt, GoNext
  <1> HIDE DEF c, m, e, x
  <1>5. CASE mode = "master"
    <2>1. Notify = <<>> /\ Sender = "d" /\ Notify \in Seq(Command)
      BY <1>5 DEF Notify, Sender
    <2>2. Path(Notify, DSteps(g), DVal, a, a) /\ Path(Notify, SSteps(g), SVal, y, y)
      BY <2>1, PathEmpty
    <2>3. DStep(g, c, a, e)
      BY <1>1, <1>2, <1>4, <1>5, <2>1 DEF DStep, GoNext
    <2>4. Path(<<c>>, DSteps(g), DVal, a, e)
      BY <1>1, <1>2, <2>3, StepFacts, PathOne
    <2>5. Path(<<c>>, SSteps(g), SVal, y, y)
      BY <1>2, <2>1, NotSeen
    <2> QED BY <1>1, <1>2, <1>5, <2>1, <2>2, <2>4, <2>5 DEF c
  <1>6. CASE mode # "master"
    <2>1. Notify = <<m>> /\ Sender = "s" /\ Notify \in Seq(Command)
      BY <1>3, <1>6 DEF Notify, Sender, m
    <2>2. DStep(g, m, a, e)
      BY <1>1, <1>3, <1>6 DEF DStep, GoNext
    <2>3. Path(Notify, DSteps(g), DVal, a, e)
      BY <1>1, <1>3, <2>1, <2>2, StepFacts, PathOne
    <2>4. Path(Notify, SSteps(g), SVal, y, y)
      BY <1>3, <2>1, NotSeen
    <2>5. SStep(g, c, y, x)
      BY <1>1, <1>2, <1>4, <1>6, <2>1 DEF SStep, GoNext
    <2>6. Path(<<c>>, SSteps(g), SVal, y, x)
      BY <1>1, <1>2, <2>5, StepFacts, PathOne
    <2>7. Path(<<c>>, DSteps(g), DVal, e, e)
      BY <1>1, <1>2, <2>1, NotSeen
    <2> QED BY <1>1, <1>2, <1>6, <2>1, <2>3, <2>4, <2>6, <2>7 DEF c
  <1> QED BY <1>5, <1>6

\* The waits that clear: both dispatchers count from what was given to the workers.
LEMMA ClearPath ==
    ASSUME NEW g \in History, NEW a \in DVal, NEW y \in SVal, NEW n \in Nat,
           a.k <= g.end, a.b + n = g.sum[a.k], g.base[a.k] = g.sum[a.k],
           mode = "distributed" => y.k = a.k /\ y.b = a.b
    PROVE  /\ ClearCmds(n) \in Seq(Command)
           /\ \E db \in DVal, yb \in SVal :
                 /\ Path(ClearCmds(n), DSteps(g), DVal, a, db) /\ Path(ClearCmds(n), SSteps(g), SVal, y, yb)
                 /\ db.k = a.k /\ db.b = g.sum[a.k] /\ db.f = a.f /\ db.l = a.l /\ db.u = a.u
                 /\ yb.k = y.k /\ yb.u = y.u
                 /\ mode = "distributed" => yb.b = g.sum[a.k]
  <1> DEFINE c == Cmd("d", "clear", n, {})
             m == Cmd("s", "clear", n, {})
             p == IF mode = "distributed" THEN <<m>> ELSE <<>>
             e == [k |-> a.k, b |-> g.sum[a.k], f |-> a.f, l |-> a.l, u |-> a.u]
             x == [k |-> y.k, b |-> g.sum[y.k], u |-> y.u]
  <1>1. e \in DVal /\ x \in SVal /\ e.k = a.k /\ e.b = g.sum[a.k] /\ e.f = a.f /\ e.l = a.l /\ e.u = a.u
        /\ x.k = y.k /\ x.b = g.sum[y.k] /\ x.u = y.u
    BY DEF DVal, SVal, History
  <1>2. c \in Command /\ c.to = "d" /\ c.op = "clear" /\ c.count = n /\ <<c>> \in Seq(Command)
    BY CmdType
  <1>3. m \in Command /\ m.to = "s" /\ m.op = "clear" /\ m.count = n /\ <<m>> \in Seq(Command)
    BY CmdType
  <1>4. ClearCmds(n) = p \o <<c>> /\ p \in Seq(Command)
    BY <1>3 DEF ClearCmds
  <1>5. ClearCmds(n) \in Seq(Command)
    BY <1>2, <1>4, ConcatProperties
  <1> HIDE DEF c, m, e, x
  <1>6. DStep(g, c, a, e)
    BY <1>1, <1>2 DEF DStep
  <1>7. Path(<<c>>, DSteps(g), DVal, a, e) /\ \A v \in SVal : Path(<<c>>, SSteps(g), SVal, v, v)
    BY <1>1, <1>2, <1>6, StepFacts, PathOne, NotSeen
  <1>8. Path(p, DSteps(g), DVal, a, a)
    BY <1>3, NotSeen, PathEmpty
  <1>9. CASE mode = "distributed"
    <2>1. SStep(g, m, y, x)
      BY <1>1, <1>3, <1>9 DEF SStep
    <2>2. Path(p, SSteps(g), SVal, y, x)
      BY <1>1, <1>3, <1>9, <2>1, StepFacts, PathOne
    <2> HIDE DEF p
    <2>3. Path(p \o <<c>>, DSteps(g), DVal, a, e)
      BY <1>1, <1>2, <1>4, <1>7, <1>8, PathConcat
    <2>4. Path(p \o <<c>>, SSteps(g), SVal, y, x)
      BY <1>1, <1>2, <1>4, <1>7, <2>2, PathConcat
    <2> QED BY <1>1, <1>4, <1>5, <1>9, <2>3, <2>4
  <1>10. CASE mode # "distributed"
    <2>1. Path(p, SSteps(g), SVal, y, y)
      BY <1>10, PathEmpty
    <2> HIDE DEF p
    <2>2. Path(p \o <<c>>, DSteps(g), DVal, a, e)
      BY <1>1, <1>2, <1>4, <1>7, <1>8, PathConcat
    <2>3. Path(p \o <<c>>, SSteps(g), SVal, y, y)
      BY <1>1, <1>2, <1>4, <1>7, <2>1, PathConcat
    <2> QED BY <1>1, <1>4, <1>5, <1>10, <2>2, <2>3
  <1> QED BY <1>9, <1>10

\* What precedes the notification of a program.
ConfigCmds(n, first) ==
    (IF first THEN <<Cmd("d", "wait", n, {}), Cmd("d", "config", 0, {})>>
              ELSE <<Cmd("d", "config", 0, {}), Cmd("d", "wait", n, {})>>)
    \o <<Cmd("d", "barrier", 0, {})>>

\* The wait, the configuration and the barrier of a program, in either order.
LEMMA ConfigPath ==
    ASSUME NEW g \in History, NEW a \in DVal, NEW y \in SVal, NEW n \in Nat, NEW first \in BOOLEAN,
           a.k <= g.end, a.b + n = g.sum[a.k]
    PROVE  /\ ConfigCmds(n, first) \in Seq(Command)
           /\ \E db \in DVal : /\ Path(ConfigCmds(n, first), DSteps(g), DVal, a, db) /\ Path(ConfigCmds(n, first), SSteps(g), SVal, y, y)
                               /\ db.k = a.k /\ db.b = a.b /\ db.f = a.f + 1 /\ db.l = a.f + 1 /\ db.u = a.u
  <1> DEFINE p == ConfigCmds(n, first)
             w == Cmd("d", "wait", n, {})
             f == Cmd("d", "config", 0, {})
             b == Cmd("d", "barrier", 0, {})
             q == IF first THEN <<w, f>> ELSE <<f, w>>
             e == [k |-> a.k, b |-> a.b, f |-> a.f + 1, l |-> a.l, u |-> a.u]
             x == [k |-> a.k, b |-> a.b, f |-> a.f + 1, l |-> a.f + 1, u |-> a.u]
  <1>1. /\ e \in DVal /\ e.k = a.k /\ e.b = a.b /\ e.f = a.f + 1 /\ e.l = a.l /\ e.u = a.u
        /\ x \in DVal /\ x.k = a.k /\ x.b = a.b /\ x.f = a.f + 1 /\ x.l = a.f + 1 /\ x.u = a.u
    BY DEF DVal
  <1>2. /\ w \in Command /\ w.to = "d" /\ w.op = "wait" /\ w.count = n
        /\ f \in Command /\ f.to = "d" /\ f.op = "config"
        /\ b \in Command /\ b.to = "d" /\ b.op = "barrier" /\ <<b>> \in Seq(Command)
    BY CmdType
  <1>3. p = q \o <<b>>
    BY DEF ConfigCmds
  <1> HIDE DEF p, w, f, b, e, x
  <1>4. q \in Seq(Command)
    BY <1>2, ShortSeq
  <1>5. p \in Seq(Command)
    BY <1>2, <1>3, <1>4, ConcatProperties
  <1>6. DStep(g, w, a, a) /\ DStep(g, f, a, e) /\ DStep(g, w, e, e) /\ DStep(g, b, e, x)
    BY <1>1, <1>2 DEF DStep
  <1>7. /\ <<w, a, a>> \in DSteps(g) /\ <<f, a, e>> \in DSteps(g)
        /\ <<w, e, e>> \in DSteps(g) /\ <<b, e, x>> \in DSteps(g)
    BY <1>1, <1>2, <1>6, StepFacts
  <1>8. SStep(g, w, y, y) /\ SStep(g, f, y, y)
    BY <1>2 DEF SStep
  <1>9. <<w, y, y>> \in SSteps(g) /\ <<f, y, y>> \in SSteps(g)
    BY <1>2, <1>8, StepFacts
  <1>10. Path(q, DSteps(g), DVal, a, e)
    BY <1>1, <1>7, PathTwo
  <1>11. Path(q, SSteps(g), SVal, y, y)
    BY <1>9, PathTwo
  <1> HIDE DEF q
  <1>12. Path(<<b>>, DSteps(g), DVal, e, x) /\ Path(<<b>>, SSteps(g), SVal, y, y)
    BY <1>1, <1>2, <1>7, PathOne, NotSeen
  <1>13. Path(p, DSteps(g), DVal, a, x)
    BY <1>1, <1>2, <1>3, <1>4, <1>10, <1>12, PathConcat
  <1>14. Path(p, SSteps(g), SVal, y, y)
    BY <1>2, <1>3, <1>4, <1>11, <1>12, PathConcat
  <1> QED BY <1>1, <1>5, <1>13, <1>14 DEF p

\* One more go signal.
LEMMA NextHistory ==
    ASSUME NEW h \in History, Ordered(h), NEW on \in Groups, NEW n \in {0, 1}, NEW b \in Nat
    PROVE  \E g \in History :
              /\ Extends(h, g) /\ Ordered(g) /\ g.end = h.end + 1
              /\ g.base[h.end] = h.base[h.end] /\ g.base[h.end + 1] = b
              /\ g.sum[h.end] = h.sum[h.end] /\ g.sum[h.end + 1] = h.sum[h.end] + Cardinality(on)
              /\ g.cfg[h.end] = h.cfg[h.end] /\ g.cfg[h.end + 1] = h.cfg[h.end] + n
  <1> DEFINE m == Cardinality(on)
             E == h.end
             S == [i \in Nat |-> IF i = E + 1 THEN h.sum[E] + m ELSE h.sum[i]]
             B == [i \in Nat |-> IF i = E + 1 THEN b ELSE h.base[i]]
             C == [i \in Nat |-> IF i = E + 1 THEN h.cfg[E] + n ELSE h.cfg[i]]
             g == [end |-> E + 1, sum |-> S, base |-> B, cfg |-> C]
  <1>1. m \in Nat /\ m >= 1
    BY GroupSize
  <1>2. E \in Nat /\ h.sum \in [Nat -> Nat] /\ h.base \in [Nat -> Nat] /\ h.cfg \in [Nat -> Nat]
    BY DEF History
  <1> HIDE DEF m
  <1>3. S \in [Nat -> Nat] /\ B \in [Nat -> Nat] /\ C \in [Nat -> Nat]
    BY <1>1, <1>2
  <1>4. /\ \A i \in 0 .. E : S[i] = h.sum[i] /\ B[i] = h.base[i] /\ C[i] = h.cfg[i]
        /\ S[E + 1] = h.sum[E] + m /\ B[E + 1] = b /\ C[E + 1] = h.cfg[E] + n
    BY <1>2
  <1> HIDE DEF S, B, C
  <1>5. g \in History /\ g.end = E + 1 /\ g.sum = S /\ g.base = B /\ g.cfg = C
    <2>1. E + 1 \in Nat
      BY <1>2
    <2> HIDE DEF E
    <2> QED BY <1>3, <2>1 DEF History
  <1> HIDE DEF g
  <1>6. Extends(h, g)
    BY <1>2, <1>4, <1>5 DEF Extends
  <1>7. Ordered(g)
    <2> SUFFICES ASSUME NEW i \in 0 .. E + 1, NEW j \in 0 .. E + 1, i < j
                 PROVE  S[i] < S[j] /\ C[i] <= C[j]
      BY <1>5 DEF Ordered
    <2>1. i \in 0 .. E
      BY <1>2
    <2>2. CASE j \in 0 .. E
      BY <1>4, <2>1, <2>2 DEF Ordered
    <2>3. CASE j = E + 1
      <3>1. E \in 0 .. E /\ (i = E \/ i < E)
        <4>1. E \in Nat
          BY <1>2
        <4> HIDE DEF E
        <4> QED BY <2>1, <4>1
      <3>2. h.sum[i] \in Nat /\ h.sum[E] \in Nat /\ h.cfg[i] \in Nat /\ h.cfg[E] \in Nat
        BY <1>2, <2>1
      <3>3. h.sum[i] <= h.sum[E] /\ h.cfg[i] <= h.cfg[E]
        BY <2>1, <3>1, <3>2 DEF Ordered
      <3>4. S[i] = h.sum[i] /\ C[i] = h.cfg[i] /\ S[j] = h.sum[E] + m /\ C[j] = h.cfg[E] + n
        BY <1>4, <2>1, <2>3
      <3> QED BY <1>1, <3>2, <3>3, <3>4
    <2>4. j \in 0 .. E \/ j = E + 1
      <3>1. E \in Nat
        BY <1>2
      <3> HIDE DEF E
      <3> QED BY <3>1
    <2> QED BY <2>2, <2>3, <2>4
  <1>8. E \in 0 .. E
    BY <1>2
  <1> QED BY <1>4, <1>5, <1>6, <1>7, <1>8 DEF m

\* The commands of a program: configuration, wait, barrier, notification and go signal.
LEMMA EnqueueProgramPreserves ==
    ASSUME TypeOK, Places, NEW h \in History, NEW d \in DVal, NEW s \in SVal,
           Ordered(h), InStream(h, d, s), At(h, d, s), NEW on \in Groups, NEW first \in BOOLEAN, EnqueueProgram(on, first)
    PROVE  IInv'
  <1>1. /\ stream = <<>> /\ stream' = ProgramCmds(on, expected, first) /\ expected' = expected + Cardinality(on)
        /\ UNCHANGED <<mode, open, masterVars, ready, slaveVars, notices, updates, unicast_only_cores, workerVars>>
    BY DEF EnqueueProgram
  <1>2. PICK dm \in DVal, sm \in SVal : /\ Path(qd, DSteps(h), DVal, d, dm) /\ Path(qs, SSteps(h), SVal, s, sm)
                                        /\ HostAt(h, dm, sm)
    BY <1>1, AllRelayed
  <1>3. /\ dm.k = h.end /\ h.base[h.end] = dm.b /\ h.sum[h.end] = dm.b + expected
        /\ h.cfg[h.end] <= dm.f /\ h.cfg[h.end] <= dm.l
        /\ mode = "master" => dm.u = 1
        /\ mode # "master" => sm.k = h.end /\ sm.u = 1
        /\ mode = "distributed" => sm.b = dm.b
    BY <1>2 DEF HostAt
  <1>4. /\ dm.k \in Nat /\ dm.b \in Nat /\ dm.f \in Nat /\ dm.l \in Nat /\ h.end \in Nat /\ h.cfg[h.end] \in Nat
        /\ expected \in Nat /\ h.sum[h.end] \in Nat
    BY Numbers DEF TypeOK
  <1>5. Cardinality(on) \in Nat
    BY GroupSize
  <1>6. PICK g \in History :
           /\ Extends(h, g) /\ Ordered(g) /\ g.end = h.end + 1
           /\ g.base[h.end] = h.base[h.end] /\ g.base[h.end + 1] = dm.b
           /\ g.sum[h.end] = h.sum[h.end] /\ g.sum[h.end + 1] = h.sum[h.end] + Cardinality(on)
           /\ g.cfg[h.end] = h.cfg[h.end] /\ g.cfg[h.end + 1] = h.cfg[h.end] + 1
    <2>1. dm.b \in Nat /\ 1 \in {0, 1}
      BY <1>4
    <2> QED BY <2>1, NextHistory, Zenon
  <1> DEFINE p == ConfigCmds(expected, first)
             c == <<Cmd(Sender, "go", expected, on)>>
  <1>7. stream' = (p \o Notify) \o c
    BY <1>1 DEF ProgramCmds, ConfigCmds
  <1>8. /\ p \in Seq(Command)
        /\ \E db \in DVal : /\ Path(p, DSteps(g), DVal, dm, db) /\ Path(p, SSteps(g), SVal, sm, sm)
                            /\ db.k = dm.k /\ db.b = dm.b /\ db.f = dm.f + 1 /\ db.l = dm.f + 1 /\ db.u = dm.u
    <2>1. dm.k <= g.end /\ dm.b + expected = g.sum[dm.k]
      BY <1>3, <1>4, <1>6
    <2>3. expected \in Nat
      BY <1>4
    <2> QED BY <2>1, <2>3, ConfigPath
  <1>9. PICK d1 \in DVal : /\ Path(p, DSteps(g), DVal, dm, d1) /\ Path(p, SSteps(g), SVal, sm, sm)
                           /\ d1.k = dm.k /\ d1.b = dm.b /\ d1.f = dm.f + 1 /\ d1.l = dm.f + 1 /\ d1.u = dm.u
    BY <1>8
  <1> HIDE DEF p
  <1>10. /\ Notify \in Seq(Command) /\ c \in Seq(Command)
         /\ \E da \in DVal, db \in DVal, yb \in SVal :
                 /\ Path(Notify, DSteps(g), DVal, d1, da) /\ Path(c, DSteps(g), DVal, da, db)
                 /\ Path(Notify, SSteps(g), SVal, sm, sm) /\ Path(c, SSteps(g), SVal, sm, yb)
                 /\ db.k = d1.k + 1 /\ db.b = d1.b /\ db.f = d1.f /\ db.l = d1.l /\ db.u = d1.u
                 /\ mode # "master" => yb.k = sm.k + 1
                 /\ yb.b = sm.b /\ yb.u = sm.u
    <2>1. GoNext(g, d1, sm, expected, on, "go")
      BY <1>3, <1>4, <1>6, <1>9 DEF GoNext
    <2>2. expected \in Nat /\ "go" \in {"go", "reset"}
      BY <1>4
    <2> QED BY <2>1, <2>2, GoPath, Zenon
  <1>11. PICK d2 \in DVal, de \in DVal, se \in SVal :
                 /\ Path(Notify, DSteps(g), DVal, d1, d2) /\ Path(c, DSteps(g), DVal, d2, de)
                 /\ Path(Notify, SSteps(g), SVal, sm, sm) /\ Path(c, SSteps(g), SVal, sm, se)
                 /\ de.k = d1.k + 1 /\ de.b = d1.b /\ de.f = d1.f /\ de.l = d1.l /\ de.u = d1.u
                 /\ mode # "master" => se.k = sm.k + 1
                 /\ se.b = sm.b /\ se.u = sm.u
    BY <1>10
  <1> HIDE DEF c
  <1>12. p \o Notify \in Seq(Command) /\ stream' \in Seq(Command)
    BY <1>7, <1>8, <1>10, ConcatProperties
  <1>13. Path(p \o Notify, DSteps(g), DVal, dm, d2) /\ Path(p \o Notify, SSteps(g), SVal, sm, sm)
    BY <1>8, <1>9, <1>10, <1>11, PathConcat
  <1>14. Path(stream', DSteps(g), DVal, dm, de) /\ Path(stream', SSteps(g), SVal, sm, se)
    BY <1>7, <1>10, <1>11, <1>12, <1>13, PathConcat
  <1>15. HostAt(g, de, se)'
    <2> DEFINE m == Cardinality(on)
    <2>1. m \in Nat /\ expected' = expected + m /\ mode' = mode /\ g.sum[h.end + 1] = h.sum[h.end] + m
      BY <1>1, <1>5, <1>6
    <2> HIDE DEF m
    <2>2. g.sum[h.end + 1] = dm.b + expected'
      BY <1>3, <1>4, <2>1
    <2>3. g.cfg[h.end + 1] <= dm.f + 1
      BY <1>3, <1>4, <1>6
    <2>4. de.k = h.end + 1 /\ de.b = dm.b /\ de.f = dm.f + 1 /\ de.l = dm.f + 1 /\ de.u = dm.u
      BY <1>3, <1>9, <1>11
    <2> QED BY <1>3, <1>6, <1>11, <2>1, <2>2, <2>3, <2>4 DEF HostAt
  <1>16. expected' \in Nat /\ open' \in BOOLEAN
    BY <1>1, <1>4, <1>5 DEF TypeOK
  <1> QED BY <1>1, <1>2, <1>6, <1>12, <1>14, <1>15, <1>16, HostPreserves

\* The commands of a trace: a reset of the workers, then both counts start at zero.
LEMMA EnqueueTracePreserves ==
    ASSUME TypeOK, Places, NEW h \in History, NEW d \in DVal, NEW s \in SVal,
           Ordered(h), InStream(h, d, s), At(h, d, s), NEW on \in Groups, EnqueueTrace(on)
    PROVE  IInv'
  <1> DEFINE n == expected + Cardinality(on)
             c == <<Cmd(Sender, "reset", expected, on)>>
  <1>1. /\ stream = <<>> /\ expected' = 0
        /\ UNCHANGED <<mode, open, masterVars, ready, slaveVars, notices, updates, unicast_only_cores, workerVars>>
    BY DEF EnqueueTrace
  <1>2. PICK dm \in DVal, sm \in SVal : /\ Path(qd, DSteps(h), DVal, d, dm) /\ Path(qs, SSteps(h), SVal, s, sm)
                                        /\ HostAt(h, dm, sm)
    BY <1>1, AllRelayed
  <1>3. /\ dm.k = h.end /\ h.base[h.end] = dm.b /\ h.sum[h.end] = dm.b + expected
        /\ h.cfg[h.end] <= dm.f /\ h.cfg[h.end] <= dm.l
        /\ mode = "master" => dm.u = 1
        /\ mode # "master" => sm.k = h.end /\ sm.u = 1
        /\ mode = "distributed" => sm.b = dm.b
    BY <1>2 DEF HostAt
  <1>4. /\ dm.k \in Nat /\ dm.b \in Nat /\ dm.f \in Nat /\ dm.l \in Nat /\ h.end \in Nat /\ h.cfg[h.end] \in Nat
        /\ expected \in Nat /\ h.sum[h.end] \in Nat /\ Cardinality(on) \in Nat
    BY Numbers, GroupSize DEF TypeOK
  <1>5. n \in Nat /\ h.sum[h.end] + Cardinality(on) \in Nat /\ h.sum[h.end] + Cardinality(on) = dm.b + n
    BY <1>3, <1>4
  <1>6. PICK g \in History :
           /\ Extends(h, g) /\ Ordered(g) /\ g.end = h.end + 1
           /\ g.base[h.end] = h.base[h.end] /\ g.base[h.end + 1] = h.sum[h.end] + Cardinality(on)
           /\ g.sum[h.end] = h.sum[h.end] /\ g.sum[h.end + 1] = h.sum[h.end] + Cardinality(on)
           /\ g.cfg[h.end] = h.cfg[h.end] /\ g.cfg[h.end + 1] = h.cfg[h.end] + 0
    <2>1. h.sum[h.end] + Cardinality(on) \in Nat /\ 0 \in {0, 1}
      BY <1>5
    <2> QED BY <2>1, NextHistory, Zenon
  <1>7. stream' = (Notify \o c) \o ClearCmds(n)
    BY DEF EnqueueTrace
  <1>8. /\ Notify \in Seq(Command) /\ c \in Seq(Command)
        /\ \E da \in DVal, db \in DVal, yb \in SVal :
                 /\ Path(Notify, DSteps(g), DVal, dm, da) /\ Path(c, DSteps(g), DVal, da, db)
                 /\ Path(Notify, SSteps(g), SVal, sm, sm) /\ Path(c, SSteps(g), SVal, sm, yb)
                 /\ db.k = dm.k + 1 /\ db.b = dm.b /\ db.f = dm.f /\ db.l = dm.l /\ db.u = dm.u
                 /\ mode # "master" => yb.k = sm.k + 1
                 /\ yb.b = sm.b /\ yb.u = sm.u
    <2>1. GoNext(g, dm, sm, expected, on, "reset")
      BY <1>3, <1>4, <1>6 DEF GoNext
    <2>2. expected \in Nat /\ "reset" \in {"go", "reset"}
      BY <1>4
    <2> QED BY <2>1, <2>2, GoPath, Zenon
  <1>9. PICK d1 \in DVal, d2 \in DVal, s2 \in SVal :
                 /\ Path(Notify, DSteps(g), DVal, dm, d1) /\ Path(c, DSteps(g), DVal, d1, d2)
                 /\ Path(Notify, SSteps(g), SVal, sm, sm) /\ Path(c, SSteps(g), SVal, sm, s2)
                 /\ d2.k = dm.k + 1 /\ d2.b = dm.b /\ d2.f = dm.f /\ d2.l = dm.l /\ d2.u = dm.u
                 /\ mode # "master" => s2.k = sm.k + 1
                 /\ s2.b = sm.b /\ s2.u = sm.u
    BY <1>8
  <1> HIDE DEF c, n
  <1>10. /\ ClearCmds(n) \in Seq(Command)
         /\ \E db \in DVal, yb \in SVal :
                 /\ Path(ClearCmds(n), DSteps(g), DVal, d2, db) /\ Path(ClearCmds(n), SSteps(g), SVal, s2, yb)
                 /\ db.k = d2.k /\ db.b = g.sum[d2.k] /\ db.f = d2.f /\ db.l = d2.l /\ db.u = d2.u
                 /\ yb.k = s2.k /\ yb.u = s2.u
                 /\ mode = "distributed" => yb.b = g.sum[d2.k]
    <2>1. d2.k <= g.end /\ d2.b + n = g.sum[d2.k] /\ g.base[d2.k] = g.sum[d2.k]
      BY <1>3, <1>4, <1>5, <1>6, <1>9
    <2>2. mode = "distributed" => s2.k = d2.k /\ s2.b = d2.b
      BY <1>3, <1>9
    <2> QED BY <1>5, <2>1, <2>2, ClearPath
  <1>11. PICK de \in DVal, se \in SVal :
                 /\ Path(ClearCmds(n), DSteps(g), DVal, d2, de) /\ Path(ClearCmds(n), SSteps(g), SVal, s2, se)
                 /\ de.k = d2.k /\ de.b = g.sum[d2.k] /\ de.f = d2.f /\ de.l = d2.l /\ de.u = d2.u
                 /\ se.k = s2.k /\ se.u = s2.u
                 /\ mode = "distributed" => se.b = g.sum[d2.k]
    BY <1>10
  <1>12. Notify \o c \in Seq(Command) /\ stream' \in Seq(Command)
    BY <1>7, <1>8, <1>10, ConcatProperties
  <1>13. Path(Notify \o c, DSteps(g), DVal, dm, d2) /\ Path(Notify \o c, SSteps(g), SVal, sm, s2)
    BY <1>8, <1>9, PathConcat
  <1>14. Path(stream', DSteps(g), DVal, dm, de) /\ Path(stream', SSteps(g), SVal, sm, se)
    BY <1>7, <1>10, <1>11, <1>12, <1>13, PathConcat
  <1>15. HostAt(g, de, se)'
    <2>1. expected' = 0 /\ mode' = mode
      BY <1>1
    <2>2. g.end = h.end + 1 /\ de.k = h.end + 1 /\ de.b = g.sum[h.end + 1] /\ de.f = dm.f /\ de.l = dm.l /\ de.u = dm.u
      BY <1>3, <1>6, <1>9, <1>11
    <2>3. g.sum[h.end + 1] \in Nat /\ g.base[h.end + 1] = g.sum[h.end + 1] /\ g.cfg[h.end + 1] = h.cfg[h.end]
      BY <1>4, <1>5, <1>6
    <2>4. g.sum[h.end + 1] = de.b + expected'
      BY <2>1, <2>2, <2>3
    <2>5. mode # "master" => se.k = h.end + 1 /\ se.u = 1
      BY <1>3, <1>9, <1>11
    <2>6. mode = "distributed" => se.b = de.b
      BY <1>11
    <2> QED BY <1>3, <2>1, <2>2, <2>3, <2>4, <2>5, <2>6 DEF HostAt
  <1>16. expected' \in Nat /\ open' \in BOOLEAN
    BY <1>1 DEF TypeOK
  <1> QED BY <1>1, <1>2, <1>6, <1>12, <1>14, <1>15, <1>16, HostPreserves

\* The commands of RecordBegin: both counts start at zero.
LEMMA RecordBeginPreserves ==
    ASSUME TypeOK, Places, NEW h \in History, NEW d \in DVal, NEW s \in SVal,
           Ordered(h), InStream(h, d, s), At(h, d, s), RecordBegin
    PROVE  IInv'
  <1>1. /\ stream = <<>> /\ stream' = ClearCmds(expected) /\ expected' = 0
        /\ UNCHANGED <<mode, open, masterVars, ready, slaveVars, notices, updates, unicast_only_cores, workerVars>>
    BY DEF RecordBegin
  <1>2. PICK dm \in DVal, sm \in SVal : /\ Path(qd, DSteps(h), DVal, d, dm) /\ Path(qs, SSteps(h), SVal, s, sm)
                                        /\ HostAt(h, dm, sm)
    BY <1>1, AllRelayed
  <1>3. /\ dm.k = h.end /\ h.sum[h.end] = dm.b + expected
        /\ h.cfg[h.end] <= dm.f /\ h.cfg[h.end] <= dm.l
        /\ mode = "master" => dm.u = 1
        /\ mode # "master" => sm.k = h.end /\ sm.u = 1
        /\ mode = "distributed" => sm.b = dm.b
    BY <1>2 DEF HostAt
  <1>4. h.end \in Nat /\ h.sum \in [Nat -> Nat] /\ h.base \in [Nat -> Nat] /\ h.cfg \in [Nat -> Nat] /\ expected \in Nat
    BY Numbers DEF TypeOK
  <1> DEFINE E == h.end
             B == [i \in Nat |-> IF i = E THEN h.sum[E] ELSE h.base[i]]
             g == [end |-> E, sum |-> h.sum, base |-> B, cfg |-> h.cfg]
  <1>5. B \in [Nat -> Nat] /\ B[E] = h.sum[E] /\ \A i \in 0 .. E : B[i] = h.base[i] \/ i = E
    BY <1>4
  <1> HIDE DEF B
  <1>6. g \in History /\ g.end = E /\ g.sum = h.sum /\ g.base = B /\ g.cfg = h.cfg
    BY <1>4, <1>5 DEF History
  <1> HIDE DEF g
  <1>7. Extends(h, g) /\ Ordered(g)
    BY <1>4, <1>5, <1>6 DEF Extends, Ordered
  <1>8. /\ ClearCmds(expected) \in Seq(Command)
        /\ \E db \in DVal, yb \in SVal :
                 /\ Path(ClearCmds(expected), DSteps(g), DVal, dm, db) /\ Path(ClearCmds(expected), SSteps(g), SVal, sm, yb)
                 /\ db.k = dm.k /\ db.b = g.sum[dm.k] /\ db.f = dm.f /\ db.l = dm.l /\ db.u = dm.u
                 /\ yb.k = sm.k /\ yb.u = sm.u
                 /\ mode = "distributed" => yb.b = g.sum[dm.k]
    <2>1. dm.k <= g.end /\ dm.b + expected = g.sum[dm.k] /\ g.base[dm.k] = g.sum[dm.k]
      BY <1>3, <1>4, <1>5, <1>6
    <2>2. mode = "distributed" => sm.k = dm.k /\ sm.b = dm.b
      BY <1>3
    <2> QED BY <1>4, <1>6, <2>1, <2>2, ClearPath
  <1>9. PICK de \in DVal, se \in SVal :
                 /\ Path(ClearCmds(expected), DSteps(g), DVal, dm, de) /\ Path(ClearCmds(expected), SSteps(g), SVal, sm, se)
                 /\ de.k = dm.k /\ de.b = g.sum[dm.k] /\ de.f = dm.f /\ de.l = dm.l /\ de.u = dm.u
                 /\ se.k = sm.k /\ se.u = sm.u
                 /\ mode = "distributed" => se.b = g.sum[dm.k]
    BY <1>8
  <1>10. HostAt(g, de, se)'
    <2>1. expected' = 0 /\ mode' = mode
      BY <1>1
    <2>2. de.k = g.end /\ de.b = g.sum[g.end] /\ g.base[g.end] = g.sum[g.end] /\ g.sum[g.end] \in Nat /\ g.cfg[g.end] = h.cfg[h.end]
      BY <1>3, <1>4, <1>5, <1>6, <1>9
    <2>3. g.sum[g.end] = de.b + expected'
      BY <2>1, <2>2
    <2>4. mode # "master" => se.k = g.end /\ se.u = 1
      BY <1>3, <1>6, <1>9
    <2> QED BY <1>3, <1>9, <2>1, <2>2, <2>3, <2>4 DEF HostAt
  <1>11. expected' \in Nat /\ open' \in BOOLEAN
    BY <1>1 DEF TypeOK
  <1> QED BY <1>1, <1>2, <1>6, <1>7, <1>8, <1>9, <1>10, <1>11, HostPreserves

\* The commands that end both dispatchers.
LEMMA EnqueueTerminatePreserves ==
    ASSUME TypeOK, Places, NEW h \in History, NEW d \in DVal, NEW s \in SVal,
           Ordered(h), InStream(h, d, s), At(h, d, s), EnqueueTerminate
    PROVE  IInv'
  <1> DEFINE c == Cmd("d", "terminate", 0, {})
             m == Cmd("s", "terminate", 0, {})
             p == IF mode = "master" THEN <<>> ELSE <<m>>
  <1>1. /\ stream = <<>> /\ stream' = <<c>> \o p /\ open' = FALSE /\ expected' = expected
        /\ UNCHANGED <<mode, masterVars, ready, slaveVars, notices, updates, unicast_only_cores, workerVars>>
    BY DEF EnqueueTerminate
  <1>2. PICK dm \in DVal, sm \in SVal : /\ Path(qd, DSteps(h), DVal, d, dm) /\ Path(qs, SSteps(h), SVal, s, sm)
                                        /\ HostAt(h, dm, sm)
    BY <1>1, AllRelayed
  <1>3. dm.k = h.end /\ h.end \in Nat /\ (mode # "master" => sm.k = h.end)
    BY <1>2, Numbers DEF HostAt
  <1>4. /\ c \in Command /\ c.to = "d" /\ c.op = "terminate" /\ <<c>> \in Seq(Command)
        /\ m \in Command /\ m.to = "s" /\ m.op = "terminate" /\ <<m>> \in Seq(Command)
    BY CmdType
  <1> HIDE DEF c, m
  <1>5. DStep(h, c, dm, dm) /\ (mode # "master" => SStep(h, m, sm, sm))
    BY <1>3, <1>4 DEF DStep, SStep
  <1>6. Path(<<c>>, DSteps(h), DVal, dm, dm) /\ Path(<<c>>, SSteps(h), SVal, sm, sm)
    BY <1>4, <1>5, StepFacts, PathOne, NotSeen
  <1>7. p \in Seq(Command) /\ Path(p, DSteps(h), DVal, dm, dm) /\ Path(p, SSteps(h), SVal, sm, sm)
    <2>1. CASE mode = "master"
      BY <2>1, PathEmpty
    <2>2. CASE mode # "master"
      BY <1>4, <1>5, <2>2, StepFacts, PathOne, NotSeen
    <2> QED BY <2>1, <2>2
  <1> HIDE DEF p
  <1>8. stream' \in Seq(Command)
    BY <1>1, <1>4, <1>7, ConcatProperties
  <1>9. Path(stream', DSteps(h), DVal, dm, dm) /\ Path(stream', SSteps(h), SVal, sm, sm)
    BY <1>1, <1>4, <1>6, <1>7, PathConcat
  <1>10. HostAt(h, dm, sm)' /\ Extends(h, h)
    BY <1>1, <1>2, <1>3 DEF HostAt, Extends
  <1>11. expected' \in Nat /\ open' \in BOOLEAN
    BY <1>1 DEF TypeOK
  <1> QED BY <1>1, <1>2, <1>8, <1>9, <1>10, <1>11, HostPreserves

-----------------------------------------------------------------------------
(* Theorems *)

\* A device starts with the command that sets unicast_only_cores.
LEMMA InitInvariant ==
    ASSUME Init
    PROVE  IInv
  <1> DEFINE c == Cmd(Sender, "unicast", 0, UnicastCores)
             O == [i \in Nat |-> 0]
             h == [end |-> 0, sum |-> O, base |-> O, cfg |-> O]
             d == [k |-> 0, b |-> 0, f |-> 0, l |-> 0, u |-> 0]
             e == [k |-> 0, b |-> 0, f |-> 0, l |-> 0, u |-> 1]
             s == [k |-> 0, b |-> 0, u |-> 0]
             x == [k |-> 0, b |-> 0, u |-> 1]
  <1>1. O \in [Nat -> Nat] /\ O[0] = 0
    OBVIOUS
  <1> HIDE DEF O
  <1>2. /\ h \in History /\ h.end = 0 /\ h.sum = O /\ h.base = O /\ h.cfg = O
    BY <1>1 DEF History
  <1>3. /\ d \in DVal /\ d.k = 0 /\ d.b = 0 /\ d.f = 0 /\ d.l = 0 /\ d.u = 0
        /\ e \in DVal /\ e.k = 0 /\ e.b = 0 /\ e.f = 0 /\ e.l = 0 /\ e.u = 1
        /\ s \in SVal /\ s.k = 0 /\ s.b = 0 /\ s.u = 0
        /\ x \in SVal /\ x.k = 0 /\ x.b = 0 /\ x.u = 1
    BY DEF DVal, SVal
  <1>4. c \in Command /\ c.to = Sender /\ c.op = "unicast" /\ c.count = 0 /\ c.on = UnicastCores /\ <<c>> \in Seq(Command)
    <2>1. Sender \in {"d", "s"} /\ UnicastCores \in SUBSET Workers
      BY DEF Sender, Workers
    <2> QED BY <2>1, CmdType
  <1>5. stream = <<c>> /\ qd = <<>> /\ qs = <<>> /\ updates = <<>>
    BY DEF Init
  <1> HIDE DEF c, h, d, e, s, x
  <1>6. TypeOK
    <2>1. stream \in Seq(Command) /\ qd \in Seq(Command) /\ qs \in Seq(Command) /\ updates \in Seq(Nat)
      BY <1>4, <1>5
    <2>2. /\ mode \in Modes /\ expected = 0 /\ open = TRUE /\ countD = 0 /\ clearing = None /\ configs = 0 /\ ready = 0
          /\ countS = 0 /\ forwarded = 0 /\ notices = 0 /\ notified = 0 /\ taken = FALSE /\ unicast_only_cores = {}
          /\ worker = [w \in Workers |-> "idle"] /\ reports = 0
      BY DEF Init
    <2> QED BY <2>1, <2>2 DEF TypeOK
  <1>7. Places
    BY <1>5, EmptySeq DEF Init, Places
  <1>8. Ordered(h)
    BY <1>2 DEF Ordered
  <1>9. Path(qd, DSteps(h), DVal, d, d) /\ Path(qs, SSteps(h), SVal, s, s)
    BY <1>3, <1>5, PathEmpty
  <1>10. InStream(h, d, s)
    <2>1. CASE mode = "master"
      <3>1. c.to = "d"
        BY <1>4, <2>1 DEF Sender
      <3>2. DStep(h, c, d, e)
        BY <1>2, <1>3, <1>4, <2>1, <3>1 DEF DStep
      <3>3. Path(stream, DSteps(h), DVal, d, e)
        BY <1>3, <1>4, <1>5, <3>2, StepFacts, PathOne
      <3>4. Path(stream, SSteps(h), SVal, s, s)
        BY <1>3, <1>4, <1>5, <3>1, NotSeen
      <3>5. HostAt(h, e, s)
        BY <1>1, <1>2, <1>3, <2>1 DEF HostAt, Init
      <3> QED BY <1>3, <1>9, <3>3, <3>4, <3>5 DEF InStream, Underway
    <2>2. CASE mode # "master"
      <3>1. c.to = "s"
        BY <1>4, <2>2 DEF Sender
      <3>2. SStep(h, c, s, x)
        BY <1>2, <1>3, <1>4, <2>2, <3>1 DEF SStep
      <3>3. Path(stream, SSteps(h), SVal, s, x)
        BY <1>3, <1>4, <1>5, <3>2, StepFacts, PathOne
      <3>4. Path(stream, DSteps(h), DVal, d, d)
        BY <1>3, <1>4, <1>5, <3>1, NotSeen
      <3>5. HostAt(h, d, x)
        BY <1>1, <1>2, <1>3, <2>2 DEF HostAt, Init
      <3> QED BY <1>3, <1>9, <3>3, <3>4, <3>5 DEF InStream, Underway
    <2> QED BY <2>1, <2>2
  <1>11. At(h, d, s)
    <2>1. Busy = {} /\ reports = 0
      BY DEF Init, Busy
    <2>2. Unfinished = 0
      BY <2>1, BusyFinite DEF Unfinished
    <2>3. Sent(d, s) = 0 /\ Pending = 0
      BY <1>3 DEF Sent, Pending, Init
    <2>4. Notified(h, d, s)
      BY <1>2, <1>3, <2>3 DEF Notified
    <2>5. Configured(h, d, s)
      BY <1>1, <1>2, <1>3, <2>3 DEF Configured, Init
    <2>6. Growing(forwarded) /\ forwarded = 0 /\ countS = 0 /\ countD = 0
      BY <1>5, EmptySeq DEF Init, Growing
    <2>7. SameBase(d, s)
      BY <1>3, <2>6 DEF SameBase
    <2>8. Counted(h, d, s)
      BY <1>1, <1>2, <1>3, <1>5, <2>2, <2>3, <2>6, <2>7 DEF Counted
    <2>9. UnicastKnown(d, s)
      BY <1>3 DEF UnicastKnown
    <2> QED BY <2>4, <2>5, <2>8, <2>9 DEF At
  <1> QED BY <1>2, <1>3, <1>6, <1>7, <1>8, <1>10, <1>11 DEF IInv, InStep

\* Every step preserves the invariant.
LEMMA NextInvariant ==
    ASSUME IInv, [Next]_vars
    PROVE  IInv'
  <1> USE DEF IInv
  <1>1. PICK h \in History, d \in DVal, s \in SVal : Ordered(h) /\ InStream(h, d, s) /\ At(h, d, s)
    BY DEF InStep
  <1>2. CASE UNCHANGED vars
    <2>1. UNCHANGED <<mode, hostVars, masterVars, ready, slaveVars, notices, updates, unicast_only_cores, workerVars>>
      BY <1>2 DEF vars
    <2>2. TypeOK' /\ Places'
      BY <2>1 DEF TypeOK, Places, DIs, SIs, hostVars, masterVars, slaveVars, workerVars
    <2>3. InStream(h, d, s)'
      BY <1>1, <2>1, QueuesStay DEF hostVars, masterVars, slaveVars
    <2>4. Pending' = Pending /\ Unfinished' = Unfinished
      BY <2>1, UnfinishedStays DEF Pending, slaveVars
    <2>5. At(h, d, s)'
      BY <1>1, <2>1, <2>4, NotifiedStays, ConfiguredStays, CountedStays, UnicastStays DEF At, masterVars, slaveVars
    <2> QED BY <1>1, <2>2, <2>3, <2>5 DEF InStep
  <1> USE <1>1
  <1>3. CASE Host
    <2>1. CASE \E on \in Groups, first \in BOOLEAN : EnqueueProgram(on, first)
      BY <2>1, EnqueueProgramPreserves
    <2>2. CASE \E on \in Groups : EnqueueTrace(on)
      BY <2>2, EnqueueTracePreserves
    <2>3. CASE RecordBegin
      BY <2>3, RecordBeginPreserves
    <2>4. CASE EnqueueTerminate
      BY <2>4, EnqueueTerminatePreserves
    <2> QED BY <1>3, <2>1, <2>2, <2>3, <2>4 DEF Host
  <1>4. CASE Relay
    BY <1>4, RelayPreserves
  <1>5. CASE Master
    <2>1. CASE DConfig
      BY <2>1, DConfigPreserves
    <2>2. CASE DBarrier
      BY <2>2, DBarrierPreserves
    <2>3. CASE DWait \/ DTerminate
      BY <2>3, DPassPreserves
    <2>4. CASE DClear
      BY <2>4, DClearPreserves
    <2>5. CASE DCleared
      BY <2>5, DClearedPreserves
    <2>6. CASE DNotify
      BY <2>6, DNotifyPreserves
    <2>7. CASE DGo
      BY <2>7, DGoPreserves
    <2>8. CASE DSetUnicast
      BY <2>8, DSetUnicastPreserves
    <2> QED BY <1>5, <2>1, <2>2, <2>3, <2>4, <2>5, <2>6, <2>7, <2>8 DEF Master
  <1>6. CASE Slave
    <2>1. CASE SUpdate
      BY <2>1, SUpdatePreserves
    <2>2. CASE SNotified
      BY <2>2, SNotifiedPreserves
    <2>3. CASE SGo
      BY <2>3, SGoPreserves
    <2>4. CASE SSetUnicast \/ STerminate
      BY <2>4, SSetUnicastPreserves
    <2>5. CASE SClear
      BY <2>5, SClearPreserves
    <2> QED BY <1>6, <2>1, <2>2, <2>3, <2>4, <2>5 DEF Slave
  <1>7. CASE ConfigLands
    BY <1>7, ConfigLandsPreserves
  <1>8. CASE NoticeLands
    BY <1>8, NoticeLandsPreserves
  <1>9. CASE UpdateLands
    BY <1>9, UpdateLandsPreserves
  <1>10. CASE ReportLands
    BY <1>10, ReportLandsPreserves
  <1>11. CASE WorkerStep
    <2>1. PICK w \in Workers : WorkerSees(w) \/ WorkerDone(w)
      BY <1>11 DEF WorkerStep
    <2> QED BY <2>1, WorkerPreserves
  <1>12. CASE Done
    BY <1>2, <1>12 DEF Done
  <1> QED BY <1>2, <1>3, <1>4, <1>5, <1>6, <1>7, <1>8, <1>9, <1>10, <1>11, <1>12 DEF Next

\* The commands under way lead each dispatcher to where the host is, and each count is what was given to the workers
\* since its last reset less what is unfinished (cq_dispatch.cpp, cq_dispatch_slave.cpp, EnqueueTraceCommand::process).
THEOREM GoInvariant == Spec => []IInv
  <1>1. Init => IInv
    BY InitInvariant
  <1>2. IInv /\ [Next]_vars => IInv'
    BY NextInvariant
  <1> QED BY <1>1, <1>2, PTL DEF Spec

\* All variables keep their types; in particular no count and no notification ever goes below zero.
THEOREM TypeCorrect == Spec => []TypeOK
  <1>1. IInv => TypeOK
    BY DEF IInv
  <1> QED BY <1>1, GoInvariant, PTL

\* A go signal or reset is sent when all workers are idle, a go signal when the configuration has landed: the wait for
\* the count and for the notification in process_go_signal_mcast_cmd is enough in every mode.
THEOREM GoSafeHolds == Spec => GoSafe
  <1> DEFINE A == \A w \in Workers : worker'[w] \in {"go", "reset"} /\ worker'[w] # worker[w] =>
                     /\ \A v \in Workers : worker[v] = "idle"
                     /\ worker'[w] = "go" => ready > 0
  <1>1. ASSUME IInv, Next PROVE A
    <2> SUFFICES ASSUME NEW w \in Workers, worker'[w] \in {"go", "reset"}, worker'[w] # worker[w]
                 PROVE  /\ \A v \in Workers : worker[v] = "idle"
                        /\ worker'[w] = "go" => ready > 0
      OBVIOUS
    <2>1. PICK h \in History, d \in DVal, s \in SVal : Ordered(h) /\ InStream(h, d, s) /\ At(h, d, s)
      BY <1>1 DEF IInv, InStep
    <2>t. TypeOK /\ Places /\ worker \in [Workers -> {"idle", "go", "reset", "run"}]
      BY <1>1 DEF IInv, TypeOK
    <2>2. Unfinished = 0 => \A v \in Workers : worker[v] = "idle"
      BY <2>1, <2>t, Numbers DEF Busy
    <2>3. CASE DGo
      <3> DEFINE c == Head(qd)
      <3>1. qd # <<>> /\ c.op \in {"go", "reset"} /\ countD >= c.count /\ SendGo(c)
        BY <2>3 DEF DGo, DIs
      <3>2. PICK z \in DVal : c \in Command /\ c.to = "d" /\ DStep(h, c, d, z)
        BY <2>1, <2>t, <3>1, DTail
      <3>3. c.count <= countD
        BY <2>t, <3>1, <3>2 DEF Command, TypeOK
      <3>4. worker'[w] = c.op
        BY <3>1 DEF SendGo
      <3> HIDE DEF c
      <3>5. Unfinished = 0 /\ (c.op = "go" => ready > 0)
        BY <2>1, <2>t, <3>1, <3>2, <3>3, ReachedBySender
      <3> QED BY <2>2, <3>4, <3>5
    <2>4. CASE SGo
      <3> DEFINE c == Head(qs)
      <3>1. taken /\ WorkerSem >= c.count /\ SendGo(c) /\ qs # <<>> /\ c.op \in {"go", "reset"}
        BY <2>4, <2>t DEF SGo, Places, SIs
      <3>2. PICK z \in SVal : c \in Command /\ c.to = "s" /\ SStep(h, c, s, z)
        BY <2>1, <2>t, <3>1, STail
      <3>3. c.count <= WorkerSem
        BY <2>t, <3>1, <3>2 DEF Command, TypeOK, WorkerSem
      <3>4. worker'[w] = c.op
        BY <3>1 DEF SendGo
      <3> HIDE DEF c
      <3>5. Unfinished = 0 /\ (c.op = "go" => ready > 0)
        BY <2>1, <2>t, <3>1, <3>2, <3>3, ReachedBySlave
      <3> QED BY <2>2, <3>4, <3>5
    <2>5. CASE worker' = worker
      BY <2>5
    <2>6. CASE WorkerStep
      <3>1. PICK v \in Workers : WorkerSees(v) \/ WorkerDone(v)
        BY <2>6 DEF WorkerStep
      <3>2. worker' = [worker EXCEPT ![v] = "run"] \/ worker' = [worker EXCEPT ![v] = "idle"]
        BY <3>1 DEF WorkerSees, WorkerDone
      <3> QED BY <2>t, <3>2
    <2>7. DGo \/ SGo \/ WorkerStep \/ worker' = worker
      <3>1. Host => worker' = worker
        BY DEF Host, EnqueueProgram, EnqueueTrace, RecordBegin, EnqueueTerminate, workerVars
      <3>2. Relay \/ ConfigLands \/ NoticeLands \/ UpdateLands \/ ReportLands \/ Done => worker' = worker
        BY DEF Relay, ConfigLands, NoticeLands, UpdateLands, ReportLands, Done, vars, workerVars
      <3>3. Master => DGo \/ worker' = worker
        BY DEF Master, DConfig, DBarrier, DWait, DClear, DCleared, DNotify, DSetUnicast, DTerminate, workerVars
      <3>4. Slave => SGo \/ worker' = worker
        BY DEF Slave, SUpdate, SNotified, SSetUnicast, SClear, STerminate, workerVars
      <3> QED BY <1>1, <3>1, <3>2, <3>3, <3>4 DEF Next
    <2> QED BY <2>3, <2>4, <2>5, <2>6, <2>7
  <1>2. IInv /\ [Next]_vars => [A]_vars
    BY <1>1
  <1> QED BY <1>2, GoInvariant, PTL DEF Spec, GoSafe

\* When a wait of dispatch_d ends (process_wait), no go signal that it let go is pending and all workers are idle,
\* whichever dispatcher has reset its count and whichever counts are still on their way.
THEOREM WaitMeansDoneHolds == Spec => WaitMeansDone
  <1>1. ASSUME IInv, DWait \/ DClear PROVE ~Outstanding
    <2>1. PICK h \in History, d \in DVal, s \in SVal : Ordered(h) /\ InStream(h, d, s) /\ At(h, d, s)
      BY <1>1 DEF IInv, InStep
    <2>2. TypeOK /\ Places
      BY <1>1 DEF IInv
    <2> DEFINE c == Head(qd)
    <2>3. qd # <<>> /\ c.op \in {"wait", "clear"} /\ countD >= c.count
      BY <1>1 DEF DWait, DClear, DIs
    <2>4. PICK z \in DVal : c \in Command /\ c.to = "d" /\ DStep(h, c, d, z)
      BY <2>1, <2>2, <2>3, DTail
    <2>5. d.b + c.count = h.sum[d.k] /\ c.count \in Nat /\ c.count <= countD
      BY <2>2, <2>3, <2>4 DEF DStep, Command, TypeOK
    <2>6. Pending = 0 /\ Unfinished = 0
      BY <2>1, <2>2, <2>5, ReachedByMaster DEF At
    <2>7. Busy = {}
      BY <2>1, <2>2, <2>6, Numbers
    <2>8. notices = 0 /\ notified = 0 /\ ~taken
      <3>1. notices \in Nat /\ notified \in Nat /\ notices + notified + (IF taken THEN 1 ELSE 0) = 0
        BY <2>2, <2>6 DEF Pending, TypeOK
      <3> QED BY <3>1
    <2> QED BY <2>7, <2>8 DEF Outstanding, Busy
  <1>2. IInv /\ [Next]_vars => [(DWait \/ DClear) => ~Outstanding]_vars
    BY <1>1
  <1> QED BY <1>2, GoInvariant, PTL DEF Spec, WaitMeansDone
=============================================================================
