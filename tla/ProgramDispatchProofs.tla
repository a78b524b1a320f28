------------------------ MODULE ProgramDispatchProofs ------------------------
(***************************************************************************)
(* Proofs about the launch of programs and traces, for every number of     *)
(* core types, every size of the rings and every trace.                    *)
(***************************************************************************)
EXTENDS ProgramDispatch, CommandPaths, FiniteSetTheorems, SequenceTheorems, WellFoundedInduction, TLAPS

-----------------------------------------------------------------------------
(* The configuration rings *)

Rings == [CoreTypes -> Ring]

\* A reservation has the size that was asked for and an address of the ring.
LEMMA ReserveType ==
    ASSUME NEW r \in Rings, NEW sizes \in Programs
    PROVE  /\ reserve(r, sizes).at \in [CoreTypes -> Piece]
           /\ \A i \in CoreTypes : reserve(r, sizes).at[i].size = sizes[i]
  <1>1. \A i \in CoreTypes : /\ r[i].entries[r[i].alloc].addr \in Nat
                             /\ sizes[i] \in Nat
    <2>1. \A i \in CoreTypes : r[i] \in Ring /\ sizes[i] \in 0 .. MaxSize
      BY DEF Rings, Programs
    <2>2. ASSUME NEW x \in Ring
          PROVE  x.entries[x.alloc].addr \in Nat
      BY DEF Ring, ConfigEntry
    <2> QED BY <2>1, <2>2, DispatchAssumption
  <1>2. ASSUME NEW i \in CoreTypes, NEW f
        PROVE  Round(i, r[i], sizes[i], f).addr \in Nat
    BY <1>1 DEF Round
  <1>3. \A i \in CoreTypes : /\ ReserveOne(i, r[i], sizes[i]).addr \in Nat
                             /\ ReserveOne(i, r[i], sizes[i]).size = sizes[i]
    BY <1>1, <1>2 DEF ReserveOne
  <1> QED BY <1>1, <1>3 DEF reserve, Piece

\* free keeps the type of the rings.
LEMMA FreeType ==
    ASSUME NEW r \in Rings, NEW upTo
    PROVE  free(r, upTo) \in Rings
  <1>1. ASSUME NEW x \in Ring
        PROVE  [x EXCEPT !.free = NextIndex(x.free)] \in Ring
    BY ConfigAssumption DEF Ring, NextIndex
  <1> QED BY <1>1 DEF Rings, free

\* alloc keeps the type of the rings.
LEMMA AllocType ==
    ASSUME NEW r \in Rings, NEW at \in [CoreTypes -> Piece], NEW sync \in Nat
    PROVE  alloc(r, at, sync) \in Rings
  <1>1. ASSUME NEW x \in Ring, NEW p \in Piece
        PROVE  [x EXCEPT !.entries[x.alloc] = [addr |-> p.addr, size |-> p.size, sync |-> sync],
                         !.entries[NextIndex(x.alloc)] =
                            [addr |-> p.addr + p.size, size |-> 0, sync |-> 0],
                         !.alloc = NextIndex(x.alloc)] \in Ring
    <2>1. NextIndex(x.alloc) \in 0 .. EntryCount - 1
      BY ConfigAssumption DEF Ring, NextIndex
    <2>2. /\ [addr |-> p.addr, size |-> p.size, sync |-> sync] \in ConfigEntry
          /\ [addr |-> p.addr + p.size, size |-> 0, sync |-> 0] \in ConfigEntry
      BY DEF ConfigEntry, Piece
    <2> QED BY <2>1, <2>2 DEF Ring
  <1>2. ASSUME NEW i \in CoreTypes
        PROVE  alloc(r, at, sync)[i] \in Ring
    <2>1. r[i] \in Ring /\ at[i] \in Piece
      BY DEF Rings
    <2> QED BY <1>1, <2>1, Zenon DEF alloc
  <1>3. alloc(r, at, sync) = [i \in CoreTypes |-> alloc(r, at, sync)[i]]
    BY DEF alloc
  <1> QED BY <1>2, <1>3 DEF Rings

-----------------------------------------------------------------------------
(* Types *)

\* There are finitely many core types, so what runs can be counted.
LEMMA CoreTypesFinite ==
    /\ IsFiniteSet(CoreTypes)
    /\ \A T \in SUBSET CoreTypes : IsFiniteSet(T) /\ Cardinality(T) \in Nat
  <1>1. IsFiniteSet(CoreTypes)
    BY ConfigAssumption, FS_Interval DEF CoreTypes
  <1> QED BY <1>1, FS_Subset, FS_CardinalityType

\* The launch message ring wraps inside of its slots.
LEMMA SlotType == \A n \in Nat : Slot(n) \in Slots
  BY DispatchAssumption DEF Slot, Slots

\* The placeholder for no launch is a launch.
LEMMA NoLaunchType == NoLaunch \in Launch
  BY DispatchAssumption DEF NoLaunch, Launch, Piece, Slots

\* The commands the host makes are commands.
LEMMA CommandTypes ==
    ASSUME NEW p \in Launch, NEW n \in Nat, NEW on \in SUBSET CoreTypes, NEW clear \in BOOLEAN
    PROVE  /\ ConfigCmd(p) \in Command /\ LaunchCmd(p, n) \in Command
           /\ ResetCmd(on, n) \in Command /\ WaitCmd(n, clear) \in Command
  <1>1. NoLaunch \in Launch
    BY NoLaunchType
  <1>2. RunsOn(p) \in SUBSET CoreTypes
    BY DEF RunsOn
  <1> QED BY <1>1, <1>2 DEF Command, ConfigCmd, LaunchCmd, ResetCmd, WaitCmd

\* The launch that a program becomes.
ProgramLaunch(sizes) == [at |-> reserve(rings, sizes).at, slot |-> wptr]

\* A program is launched on the core types it has kernels for, from where its reservation is.
LEMMA ProgramLaunchType ==
    ASSUME TypeOK, NEW sizes \in Programs
    PROVE  ProgramLaunch(sizes) \in Launch /\ RunsOn(ProgramLaunch(sizes)) = On(sizes)
  <1>1. rings \in Rings /\ wptr \in [CoreTypes -> Slots]
    BY DEF TypeOK, Rings
  <1>2. /\ reserve(rings, sizes).at \in [CoreTypes -> Piece]
        /\ \A i \in CoreTypes : reserve(rings, sizes).at[i].size = sizes[i]
    BY <1>1, ReserveType
  <1>3. RunsOn(ProgramLaunch(sizes)) = On(sizes)
    BY <1>2 DEF RunsOn, On, ProgramLaunch
  <1> QED BY <1>1, <1>2, <1>3 DEF ProgramLaunch, Launch

\* What enqueueing a program stores is well typed.
LEMMA ProgramTypes ==
    ASSUME TypeOK, NEW sizes \in Programs, NEW n \in Nat
    PROVE  /\ ProgramCmds(sizes, n) \in Seq(Command)
           /\ ProgramRings(sizes, n) \in Rings
           /\ ProgramWptr(sizes) \in [CoreTypes -> Slots]
           /\ Cardinality(On(sizes)) \in Nat
  <1>1. rings \in Rings /\ wptr \in [CoreTypes -> Slots]
    BY DEF TypeOK, Rings
  <1>2. Cardinality(On(sizes)) \in Nat
    BY CoreTypesFinite DEF On
  <1>3. ProgramRings(sizes, n) \in Rings
    BY <1>1, <1>2, ReserveType, FreeType, AllocType DEF ProgramRings
  <1>4. ProgramWptr(sizes) \in [CoreTypes -> Slots]
    <2>1. \A i \in CoreTypes : wptr[i] \in Slots /\ Slot(wptr[i] + 1) \in Slots
      BY <1>1, SlotType DEF Slots
    <2> QED BY <2>1 DEF ProgramWptr
  <1>5. ProgramCmds(sizes, n) \in Seq(Command)
    <2>1. /\ ConfigCmd(ProgramLaunch(sizes)) \in Command
          /\ LaunchCmd(ProgramLaunch(sizes), n) \in Command
          /\ WaitCmd(n, FALSE) \in Command
      BY ProgramLaunchType, CommandTypes
    <2> HIDE DEF ProgramLaunch
    <2>2. ProgramCmds(sizes, n)
            = write_program(ProgramLaunch(sizes), n, reserve(rings, sizes).need_sync)
      BY DEF ProgramCmds, ProgramLaunch
    <2> QED BY <2>1, <2>2, ShortSeq DEF write_program
  <1> QED BY <1>2, <1>3, <1>4, <1>5

\* Every step keeps the variables in their types.
LEMMA TypeStep == TypeOK /\ [Next]_vars => TypeOK'
  <1> SUFFICES ASSUME TypeOK, [Next]_vars PROVE TypeOK'
    OBVIOUS
  <1> USE DispatchAssumption, TokenAssumption
  <1>1. ASSUME enqueue_program
        PROVE  TypeOK'
    <2>1. PICK sizes \in Programs :
             /\ rings' = ProgramRings(sizes, expected)
             /\ devQ' = devQ \o ProgramCmds(sizes, expected)
             /\ wptr' = ProgramWptr(sizes)
             /\ expected' = expected + Cardinality(On(sizes))
             /\ finalized' = IF Traces THEN finalized \cup {sizes} ELSE {}
      BY <1>1 DEF enqueue_program
    <2>0. expected \in Nat
      BY DEF TypeOK
    <2>2. rings' \in Rings /\ wptr' \in [CoreTypes -> Slots] /\ expected' \in Nat
      <3>1. /\ ProgramRings(sizes, expected) \in Rings
            /\ ProgramWptr(sizes) \in [CoreTypes -> Slots]
            /\ Cardinality(On(sizes)) \in Nat
        BY <2>0, ProgramTypes
      <3> QED BY <2>0, <2>1, <3>1
    <2>3. devQ' \in Seq(Command)
      BY <2>1, ProgramTypes, ConcatProperties DEF TypeOK
    <2>4. finalized' \subseteq Programs
      BY <2>1 DEF TypeOK
    <2> QED BY <1>1, <2>2, <2>3, <2>4 DEF TypeOK, enqueue_program, Rings
  <1>2. ASSUME trace_program
        PROVE  TypeOK'
    <2>0. recording /\ trace \in Trace
      BY <1>2 DEF trace_program, TypeOK
    <2>1. PICK sizes \in finalized :
             /\ rings' = ProgramRings(sizes, trace.total)
             /\ wptr' = ProgramWptr(sizes)
             /\ trace' = [cmds     |-> trace.cmds \o ProgramCmds(sizes, trace.total),
                          uses     |-> [i \in CoreTypes |-> trace.uses[i] + (IF i \in On(sizes) THEN 1 ELSE 0)],
                          total    |-> trace.total + Cardinality(On(sizes)),
                          programs |-> trace.programs + 1]
      BY <1>2 DEF trace_program
    <2>2. sizes \in Programs /\ trace.total \in Nat /\ trace.cmds \in Seq(Command)
          /\ trace.programs \in Nat /\ trace.uses \in [CoreTypes -> Nat]
      BY <2>0 DEF TypeOK, Trace
    <2>3. rings' \in Rings /\ wptr' \in [CoreTypes -> Slots] /\ Cardinality(On(sizes)) \in Nat
      BY <2>1, <2>2, ProgramTypes
    <2>4. trace.cmds \o ProgramCmds(sizes, trace.total) \in Seq(Command)
      BY <2>2, ProgramTypes, ConcatProperties
    <2>5. trace' \in Trace
      BY <2>1, <2>2, <2>3, <2>4 DEF Trace
    <2> QED BY <1>2, <2>3, <2>5 DEF TypeOK, trace_program, deviceVars, Rings
  <1>3. ASSUME record_begin
        PROVE  TypeOK'
    <2>1. WaitCmd(expected, TRUE) \in Command
      BY CommandTypes, NoLaunchType DEF TypeOK
    <2>2. devQ' \in Seq(Command)
      BY <1>3, <2>1, AppendProperties DEF TypeOK, record_begin
    <2>3. EmptyTrace \in Trace
      <3>1. <<>> \in Seq(Command)
        BY EmptySeq
      <3> QED BY <3>1 DEF EmptyTrace, Trace
    <2>4. EmptyTrace # NoTrace
      BY <2>3
    <2>5. wptr' \in [CoreTypes -> Slots]
      BY <1>3 DEF record_begin, Slots
    <2> QED BY <1>3, <2>2, <2>3, <2>4, <2>5 DEF TypeOK, record_begin
  <1>4. ASSUME record_end
        PROVE  TypeOK'
    BY <1>4 DEF TypeOK, record_end, deviceVars
  <1>5. ASSUME enqueue_trace
        PROVE  TypeOK'
    <2>1. trace \in Trace /\ TraceOn \in SUBSET CoreTypes
      BY <1>5 DEF TypeOK, enqueue_trace, TraceOn
    <2>2. Cardinality(TraceOn) \in Nat /\ expected + Cardinality(TraceOn) \in Nat
      BY <2>1, CoreTypesFinite DEF TypeOK
    <2>3. /\ ResetCmd(TraceOn, expected) \in Command
          /\ WaitCmd(expected + Cardinality(TraceOn), TRUE) \in Command
      BY <2>1, <2>2, CommandTypes DEF TypeOK
    <2>4. <<ResetCmd(TraceOn, expected), WaitCmd(expected + Cardinality(TraceOn), TRUE)>> \in Seq(Command)
      BY <2>3, ShortSeq
    <2>5. trace.cmds \in Seq(Command) /\ trace.total \in Nat /\ trace.uses \in [CoreTypes -> Nat]
      BY <2>1 DEF Trace
    <2>6. devQ' \in Seq(Command)
      BY <1>5, <2>4, <2>5, ConcatProperties DEF TypeOK, enqueue_trace
    <2>7. wptr' \in [CoreTypes -> Slots]
      BY <1>5, <2>5, SlotType DEF enqueue_trace
    <2> QED BY <1>5, <2>5, <2>6, <2>7 DEF TypeOK, enqueue_trace
  <1>6. ASSUME release_trace
        PROVE  TypeOK'
    BY <1>6 DEF TypeOK, release_trace, deviceVars
  <1>7. ASSUME DeviceStep
        PROVE  TypeOK'
    <2>1. devQ # <<>>
      BY <1>7 DEF DeviceStep, DispatchConfig, DispatchWait, DispatchLaunch, DispatchReset, NextIs
    <2>2. Head(devQ) \in Command /\ Tail(devQ) \in Seq(Command)
      BY <2>1, HeadTailProperties DEF TypeOK
    <2>3. Head(devQ).prog \in Launch /\ NoLaunch \in Launch
      BY <2>2, NoLaunchType DEF Command
    <2>4. CASE DispatchConfig
      BY <2>2, <2>3, <2>4 DEF TypeOK, DispatchConfig, hostVars
    <2>5. CASE DispatchWait
      BY <2>2, <2>5 DEF TypeOK, DispatchWait, hostVars
    <2>6. CASE DispatchLaunch
      BY <2>2, <2>3, <2>6 DEF TypeOK, DispatchLaunch, hostVars
    <2>7. CASE DispatchReset
      BY <2>2, <2>7 DEF TypeOK, DispatchReset, hostVars
    <2> QED BY <1>7, <2>4, <2>5, <2>6, <2>7 DEF DeviceStep
  <1>8. ASSUME NEW i \in CoreTypes, WorkerDone(i) \/ WorkerReset(i)
        PROVE  TypeOK'
    <2>0. rdptr[i] + 1 \in Nat
      BY DEF TypeOK, Slots
    <2>1. Slot(rdptr[i] + 1) \in Slots /\ 0 \in Slots
      BY <2>0, SlotType DEF Slots
    <2> QED BY <1>8, <2>1 DEF TypeOK, WorkerDone, WorkerReset, hostVars
  <1>9. ASSUME UNCHANGED vars
        PROVE  TypeOK'
    BY <1>9 DEF TypeOK, vars, hostVars, deviceVars
  <1> QED
    BY <1>1, <1>2, <1>3, <1>4, <1>5, <1>6, <1>7, <1>8, <1>9 DEF Next, HostStep

-----------------------------------------------------------------------------
(* The counts of completions *)

Busy == {i \in CoreTypes : running[i] # Idle}

\* The completions that are due when command c has been processed and what it starts has run,
\* n having been due before.
Due(c, n) == IF c.op = "wait" /\ c.clear THEN 0
             ELSE IF c.op \in {"launch", "reset"} THEN n + Cardinality(c.on) ELSE n

\* A command other than a configuration waits for exactly what is due.
CountStep == {t \in Command \X Nat \X Nat :
                 /\ t[1].op # "config" => t[1].count = t[2]
                 /\ t[3] = Due(t[1], t[2])}

\* The dispatcher's commands lead from what the device has completed and still runs to what the
\* host expects, and those of a trace from zero to what the trace completes.
CountsInStep ==
    /\ Path(devQ, CountStep, Nat, count + Cardinality(Busy), expected)
    /\ trace # NoTrace => Path(trace.cmds, CountStep, Nat, 0, trace.total)

\* Membership in CountStep.
LEMMA CountStepFacts ==
    ASSUME NEW c \in Command, NEW a \in Nat, NEW b \in Nat
    PROVE  <<c, a, b>> \in CountStep <=> (c.op # "config" => c.count = a) /\ b = Due(c, a)
  BY DEF CountStep

\* The commands of a program lead from what is due before it to that and its own completions,
\* wherever the stall is.
LEMMA ProgramCounts ==
    ASSUME TypeOK, NEW sizes \in Programs, NEW n \in Nat
    PROVE  Path(ProgramCmds(sizes, n), CountStep, Nat, n, n + Cardinality(On(sizes)))
  <1> DEFINE p == ProgramLaunch(sizes)
             m == n + Cardinality(On(sizes))
  <1>1. p \in Launch /\ RunsOn(p) = On(sizes) /\ m \in Nat
    BY ProgramLaunchType, ProgramTypes
  <1>2. ConfigCmd(p) \in Command /\ LaunchCmd(p, n) \in Command /\ WaitCmd(n, FALSE) \in Command
    BY <1>1, CommandTypes
  <1>3. ProgramCmds(sizes, n) = write_program(p, n, reserve(rings, sizes).need_sync)
    BY DEF ProgramCmds, ProgramLaunch
  <1> HIDE DEF p
  <1>4. /\ <<ConfigCmd(p), n, n>> \in CountStep
        /\ <<WaitCmd(n, FALSE), n, n>> \in CountStep
    <2>1. /\ ConfigCmd(p).op = "config" /\ WaitCmd(n, FALSE).op = "wait"
          /\ WaitCmd(n, FALSE).count = n /\ WaitCmd(n, FALSE).clear = FALSE
      BY DEF ConfigCmd, WaitCmd
    <2>2. Due(ConfigCmd(p), n) = n /\ Due(WaitCmd(n, FALSE), n) = n
      BY <2>1 DEF Due
    <2> QED BY <1>2, <2>1, <2>2, CountStepFacts
  <1>5. <<LaunchCmd(p, n), n, m>> \in CountStep
    BY <1>1, <1>2, CountStepFacts DEF LaunchCmd, Due
  <1> HIDE DEF m
  <1>6. /\ Path(<<WaitCmd(n, FALSE), ConfigCmd(p), LaunchCmd(p, n)>>, CountStep, Nat, n, m)
        /\ Path(<<ConfigCmd(p), WaitCmd(n, FALSE), LaunchCmd(p, n)>>, CountStep, Nat, n, m)
    BY <1>1, <1>4, <1>5, PathThree
  <1>7. Path(ProgramCmds(sizes, n), CountStep, Nat, n, m)
    BY <1>3, <1>6 DEF write_program
  <1> QED BY <1>7 DEF m

\* The workers that run are a finite set.
LEMMA BusyFinite == IsFiniteSet(Busy) /\ Cardinality(Busy) \in Nat
  BY CoreTypesFinite DEF Busy

\* At the start nothing was launched and nothing is counted.
LEMMA CountsInit == Init => CountsInStep
  <1> SUFFICES ASSUME Init PROVE CountsInStep
    OBVIOUS
  <1>1. Busy = {}
    BY DEF Init, Busy
  <1>2. count + Cardinality(Busy) = 0 /\ 0 \in Nat
    BY <1>1, FS_EmptySet DEF Init
  <1> QED BY <1>2, PathEmpty DEF Init, CountsInStep

\* Every step of the host, the dispatcher and the workers keeps the counts in step.
LEMMA CountsStep == TypeOK /\ CountsInStep /\ [Next]_vars => CountsInStep'
  <1> SUFFICES ASSUME TypeOK, CountsInStep, [Next]_vars PROVE CountsInStep'
    OBVIOUS
  <1> DEFINE now == count + Cardinality(Busy)
  <1>0. now \in Nat /\ expected \in Nat /\ devQ \in Seq(Command)
    BY BusyFinite DEF TypeOK
  <1>1. ASSUME enqueue_program
        PROVE  CountsInStep'
    <2>1. PICK sizes \in Programs :
             /\ devQ' = devQ \o ProgramCmds(sizes, expected)
             /\ expected' = expected + Cardinality(On(sizes))
      BY <1>1 DEF enqueue_program
    <2>2. ProgramCmds(sizes, expected) \in Seq(Command) /\ Cardinality(On(sizes)) \in Nat
      BY <1>0, ProgramTypes
    <2>3. Path(ProgramCmds(sizes, expected), CountStep, Nat, expected, expected')
      BY <1>0, <2>1, ProgramCounts
    <2>4. expected' \in Nat
      BY <1>0, <2>1, <2>2
    <2>5. Path(devQ', CountStep, Nat, now, expected')
      BY <1>0, <2>1, <2>2, <2>3, <2>4, PathConcat DEF CountsInStep
    <2>6. now' = now /\ trace' = trace
      BY <1>1 DEF enqueue_program, Busy
    <2> QED BY <2>5, <2>6 DEF CountsInStep
  <1>2. ASSUME trace_program
        PROVE  CountsInStep'
    <2>0. trace \in Trace /\ trace # NoTrace
      BY <1>2 DEF trace_program, TypeOK
    <2>1. PICK sizes \in finalized :
             trace' = [cmds     |-> trace.cmds \o ProgramCmds(sizes, trace.total),
                       uses     |-> [i \in CoreTypes |-> trace.uses[i] + (IF i \in On(sizes) THEN 1 ELSE 0)],
                       total    |-> trace.total + Cardinality(On(sizes)),
                       programs |-> trace.programs + 1]
      BY <1>2 DEF trace_program
    <2>2. sizes \in Programs /\ trace.total \in Nat /\ trace.cmds \in Seq(Command)
      BY <2>0 DEF TypeOK, Trace
    <2>3. /\ ProgramCmds(sizes, trace.total) \in Seq(Command) /\ Cardinality(On(sizes)) \in Nat
          /\ Path(ProgramCmds(sizes, trace.total), CountStep, Nat, trace.total,
                  trace.total + Cardinality(On(sizes)))
      BY <2>2, ProgramTypes, ProgramCounts
    <2>4. Path(trace.cmds \o ProgramCmds(sizes, trace.total), CountStep, Nat, 0,
               trace.total + Cardinality(On(sizes)))
      <3>1. Path(trace.cmds, CountStep, Nat, 0, trace.total)
        BY <2>0 DEF CountsInStep
      <3>2. 0 \in Nat /\ trace.total + Cardinality(On(sizes)) \in Nat
        BY <2>2, <2>3
      <3> QED BY <2>2, <2>3, <3>1, <3>2, PathConcat
    <2>5. Path(trace'.cmds, CountStep, Nat, 0, trace'.total)
      BY <2>1, <2>4
    <2>6. now' = now /\ devQ' = devQ /\ expected' = expected
      BY <1>2 DEF trace_program, deviceVars, Busy
    <2> QED BY <2>5, <2>6 DEF CountsInStep
  <1>3. ASSUME record_begin
        PROVE  CountsInStep'
    <2>1. WaitCmd(expected, TRUE) \in Command /\ 0 \in Nat
      BY <1>0, CommandTypes, NoLaunchType
    <2>2. <<WaitCmd(expected, TRUE), expected, 0>> \in CountStep
      BY <1>0, <2>1, CountStepFacts DEF WaitCmd, Due
    <2>3. Path(Append(devQ, WaitCmd(expected, TRUE)), CountStep, Nat, now, 0)
      BY <1>0, <2>1, <2>2, PathAppend DEF CountsInStep
    <2>4. Path(<<>>, CountStep, Nat, 0, 0)
      BY PathEmpty
    <2>5. now' = now /\ devQ' = Append(devQ, WaitCmd(expected, TRUE)) /\ expected' = 0 /\ trace' = EmptyTrace
      BY <1>3 DEF record_begin, Busy
    <2> QED BY <2>3, <2>4, <2>5 DEF CountsInStep, EmptyTrace
  <1>4. ASSUME record_end \/ release_trace
        PROVE  CountsInStep'
    BY <1>4 DEF record_end, release_trace, CountsInStep, deviceVars, Busy
  <1>5. ASSUME enqueue_trace
        PROVE  CountsInStep'
    <2>1. trace \in Trace /\ trace # NoTrace /\ TraceOn \in SUBSET CoreTypes
      BY <1>5 DEF TypeOK, enqueue_trace, TraceOn
    <2> DEFINE m == expected + Cardinality(TraceOn)
               rs == ResetCmd(TraceOn, expected)
               wt == WaitCmd(m, TRUE)
    <2>2. Cardinality(TraceOn) \in Nat /\ m \in Nat /\ 0 \in Nat
      BY <1>0, <2>1, CoreTypesFinite
    <2>3. rs \in Command /\ wt \in Command
      BY <1>0, <2>1, <2>2, CommandTypes, NoLaunchType
    <2>4. <<rs, expected, m>> \in CountStep
      <3>1. rs.op = "reset" /\ rs.count = expected /\ rs.on = TraceOn
        BY DEF ResetCmd
      <3>2. Due(rs, expected) = m
        BY <3>1 DEF Due
      <3>3. rs \in Command /\ expected \in Nat /\ m \in Nat
        BY <1>0, <2>2, <2>3 DEF TypeOK
      <3> HIDE DEF rs, m
      <3> QED BY <3>1, <3>2, <3>3, CountStepFacts
    <2>5. <<wt, m, 0>> \in CountStep
      <3>1. wt.op = "wait" /\ wt.count = m /\ wt.clear = TRUE
        BY DEF WaitCmd
      <3>2. Due(wt, m) = 0
        BY <3>1 DEF Due
      <3> HIDE DEF wt, m
      <3> QED BY <2>2, <2>3, <3>1, <3>2, CountStepFacts
    <2>6. trace.cmds \in Seq(Command) /\ trace.total \in Nat
      BY <2>1 DEF Trace
    <2>7. devQ' = (devQ \o <<rs, wt>>) \o trace.cmds /\ expected' = trace.total /\ trace' = trace /\ now' = now
      BY <1>5 DEF enqueue_trace, Busy
    <2> HIDE DEF rs, wt, m
    <2>8. Path(<<rs, wt>>, CountStep, Nat, expected, 0)
      BY <1>0, <2>2, <2>4, <2>5, PathTwo
    <2>9. <<rs, wt>> \in Seq(Command)
      BY <2>3, ShortSeq
    <2>10. Path(devQ \o <<rs, wt>>, CountStep, Nat, now, 0) /\ devQ \o <<rs, wt>> \in Seq(Command)
      BY <1>0, <2>2, <2>8, <2>9, PathConcat, ConcatProperties DEF CountsInStep
    <2>11. Path(trace.cmds, CountStep, Nat, 0, trace.total)
      BY <2>1 DEF CountsInStep
    <2>12. Path((devQ \o <<rs, wt>>) \o trace.cmds, CountStep, Nat, now, trace.total)
      BY <1>0, <2>2, <2>6, <2>10, <2>11, PathConcat
    <2> QED BY <2>1, <2>7, <2>11, <2>12 DEF CountsInStep
  <1>6. ASSUME DeviceStep
        PROVE  CountsInStep'
    <2>1. devQ # <<>> /\ devQ' = Tail(devQ) /\ UNCHANGED <<trace, expected>>
      BY <1>6 DEF DeviceStep, DispatchConfig, DispatchWait, DispatchLaunch, DispatchReset, NextIs,
                  hostVars
    <2> DEFINE c == Head(devQ)
    <2>2. c \in Command /\ c.on \in SUBSET CoreTypes /\ c.prog \in Launch
      <3>1. c \in Command
        BY <2>1, HeadTailProperties DEF TypeOK
      <3> QED BY <3>1 DEF Command
    <2>3. PICK m \in Nat : <<c, now, m>> \in CountStep /\ Path(Tail(devQ), CountStep, Nat, m, expected)
      BY <1>0, <2>1, PathTail DEF CountsInStep
    <2>4. (c.op # "config" => c.count = now) /\ m = Due(c, now)
      BY <1>0, <2>2, <2>3, CountStepFacts
    <2>5. count \in Nat /\ Cardinality(Busy) \in Nat
      BY BusyFinite DEF TypeOK
    <2>6. now' = m
      <3>1. CASE DispatchConfig
        BY <2>4, <3>1 DEF DispatchConfig, NextIs, Due, Busy
      <3>2. ASSUME count >= c.count, c.op # "config"
            PROVE  Busy = {} /\ now = count
        BY <2>4, <2>5, <3>2, BusyFinite, FS_EmptySet
      <3>3. CASE DispatchWait
        <4>1. Busy' = Busy /\ c.op = "wait" /\ count' = IF c.clear THEN 0 ELSE count
          BY <3>3 DEF DispatchWait, NextIs, Busy
        <4>2. Busy = {} /\ now = count
          BY <3>2, <3>3, <4>1 DEF DispatchWait
        <4>3. Cardinality(Busy') = 0
          BY <4>1, <4>2, FS_EmptySet
        <4> QED BY <2>4, <2>5, <4>1, <4>2, <4>3 DEF Due
      <3>4. CASE DispatchLaunch \/ DispatchReset
        <4>1. Busy = {} /\ now = count /\ c.op \in {"launch", "reset"} /\ count' = count
          BY <3>2, <3>4 DEF DispatchLaunch, DispatchReset, NextIs
        <4>2. Busy' = c.on
          BY <2>2, <3>4, <4>1, TokenAssumption DEF DispatchLaunch, DispatchReset, Busy
        <4> QED BY <2>4, <4>1, <4>2 DEF Due
      <3> QED BY <1>6, <3>1, <3>3, <3>4 DEF DeviceStep
    <2> QED BY <2>1, <2>3, <2>6 DEF CountsInStep
  <1>7. ASSUME NEW i \in CoreTypes, WorkerDone(i) \/ WorkerReset(i)
        PROVE  CountsInStep'
    <2>1. i \in Busy /\ Busy' = Busy \ {i} /\ count' = count + 1
      BY <1>7, TokenAssumption DEF WorkerDone, WorkerReset, Busy, TypeOK
    <2>2. Cardinality(Busy') = Cardinality(Busy) - 1
      BY <2>1, BusyFinite, FS_RemoveElement
    <2>3. now' = now
      BY <2>1, <2>2, BusyFinite DEF TypeOK
    <2> QED BY <1>7, <2>3 DEF WorkerDone, WorkerReset, CountsInStep, hostVars
  <1>8. ASSUME UNCHANGED vars
        PROVE  CountsInStep'
    BY <1>8 DEF vars, hostVars, deviceVars, CountsInStep, Busy
  <1> QED
    BY <1>1, <1>2, <1>3, <1>4, <1>5, <1>6, <1>7, <1>8 DEF Next, HostStep

-----------------------------------------------------------------------------
\* The types and the counts together are inductive.
THEOREM DispatchInvariant == Spec => [](TypeOK /\ CountsInStep)
  <1>1. Init => TypeOK
    <2> SUFFICES ASSUME Init PROVE TypeOK
      OBVIOUS
    <2>1. EmptyRing \in Ring
      BY ConfigAssumption DEF EmptyRing, Ring, ConfigEntry
    <2>2. 0 \in Slots
      BY DispatchAssumption DEF Slots
    <2>3. <<>> \in Seq(Command)
      BY EmptySeq
    <2> QED BY <2>1, <2>2, <2>3, NoLaunchType DEF Init, TypeOK
  <1> QED BY <1>1, CountsInit, TypeStep, CountsStep, PTL DEF Spec

\* TypeOK: the pointers of the host and the workers stay in the rings and every count is natural.
THEOREM TypeCorrect == Spec => []TypeOK
  BY DispatchInvariant, PTL

\* WaitsForAll: every count the dispatcher waits for is exactly what was completed and what
\* still runs, across every capture and replay of traces.
THEOREM WaitsForAllHolds == Spec => []WaitsForAll
  <1>1. TypeOK /\ CountsInStep => WaitsForAll
    <2> SUFFICES ASSUME TypeOK, CountsInStep, devQ # <<>>, Head(devQ).op # "config"
                 PROVE  Head(devQ).count = count + Cardinality(Busy)
      BY DEF WaitsForAll, Busy
    <2> DEFINE now == count + Cardinality(Busy)
    <2>1. now \in Nat /\ expected \in Nat /\ devQ \in Seq(Command) /\ Head(devQ) \in Command
      BY BusyFinite, HeadTailProperties DEF TypeOK
    <2>2. PICK m \in Nat : <<Head(devQ), now, m>> \in CountStep
      BY <2>1, PathTail DEF CountsInStep
    <2> QED BY <2>1, <2>2, CountStepFacts
  <1> QED BY <1>1, DispatchInvariant, PTL

\* A go signal, be it a launch or a reset, finds all workers idle: the dispatcher never signals
\* a worker that still runs.
LaunchesOnIdle ==
    [][DispatchLaunch \/ DispatchReset => \A i \in CoreTypes : running[i] = Idle]_vars

\* What the dispatcher is about to process when it is not held up.
LEMMA NothingBusy ==
    ASSUME TypeOK, WaitsForAll, DispatchWait \/ DispatchLaunch \/ DispatchReset
    PROVE  Busy = {}
  <1>1. Head(devQ).count = count + Cardinality(Busy) /\ count >= Head(devQ).count
    BY DEF WaitsForAll, DispatchWait, DispatchLaunch, DispatchReset, NextIs, Busy
  <1>2. Cardinality(Busy) = 0
    BY <1>1, BusyFinite DEF TypeOK
  <1> QED BY <1>2, BusyFinite, FS_EmptySet

\* LaunchesOnIdle follows from the counts alone, for every number of core types and any traces.
THEOREM LaunchesOnIdleHolds == Spec => LaunchesOnIdle
  <1>1. TypeOK /\ WaitsForAll
          => [DispatchLaunch \/ DispatchReset => \A i \in CoreTypes : running[i] = Idle]_vars
    BY NothingBusy DEF Busy
  <1> QED BY <1>1, TypeCorrect, WaitsForAllHolds, PTL DEF LaunchesOnIdle

-----------------------------------------------------------------------------
(* The launch message slots *)

SlotVec == [CoreTypes -> Slots]
Zero == [i \in CoreTypes |-> 0]

\* What a command makes of the read pointers: a launch is read and passed, a reset goes back to 0.
SlotAfter(c, s) ==
    [i \in CoreTypes |-> IF i \notin c.on \/ c.op \notin {"launch", "reset"} THEN s[i]
                         ELSE IF c.op = "reset" THEN 0 ELSE Slot(s[i] + 1)]

\* A launch message is written to the slots the read pointers will be at.
SlotStep == {t \in Command \X SlotVec \X SlotVec :
                /\ t[1].op = "launch" => \A i \in t[1].on : t[1].prog.slot[i] = t[2][i]
                /\ t[3] = SlotAfter(t[1], t[2])}

\* Where the read pointers are when the workers are done with what they run.
DeviceSlots ==
    [i \in CoreTypes |-> IF running[i] = Idle THEN rdptr[i]
                         ELSE IF running[i] = Reset THEN 0 ELSE Slot(rdptr[i] + 1)]

\* The write pointers the host will have when the capture, if there is one, ends.
HostSlots == IF recording THEN savedWptr ELSE wptr

UsesSlots == [i \in CoreTypes |-> Slot(trace.uses[i])]

\* The dispatcher's commands lead from the read pointers to the write pointers; those of a trace
\* start at 0, on every core type, because a trace resets all of them.
SlotsInStep ==
    /\ Path(devQ, SlotStep, SlotVec, DeviceSlots, HostSlots)
    /\ LaunchInSync
    /\ trace # NoTrace => Path(trace.cmds, SlotStep, SlotVec, Zero, UsesSlots)
    /\ recording => wptr = UsesSlots
    /\ trace # NoTrace /\ ~recording => trace.programs > 0
    /\ trace # NoTrace /\ trace.programs > 0 => TraceOn = CoreTypes
    /\ ~Traces => trace = NoTrace

\* Membership in SlotStep.
LEMMA SlotStepFacts ==
    ASSUME NEW c \in Command, NEW a \in SlotVec, NEW b \in SlotVec
    PROVE  <<c, a, b>> \in SlotStep
              <=> /\ c.op = "launch" => \A i \in c.on : c.prog.slot[i] = a[i]
                  /\ b = SlotAfter(c, a)
  BY DEF SlotStep

\* A number is what it leaves in a division.
LEMMA ModUnique ==
    ASSUME NEW n \in Nat \ {0}, NEW u \in Nat, NEW q \in Int, NEW r \in 0 .. n - 1, u = n * q + r
    PROVE  u % n = r
  OBVIOUS

\* Wrapping before an increment or after it makes no difference.
LEMMA SlotNext == \A u \in Nat : Slot(Slot(u) + 1) = Slot(u + 1)
  <1> SUFFICES ASSUME NEW u \in Nat, NEW n \in Nat \ {0}
               PROVE  ((u % n) + 1) % n = (u + 1) % n
    BY DispatchAssumption DEF Slot
  <1> DEFINE r == u % n
             q == u \div n
  <1>1. r \in 0 .. n - 1 /\ q \in Nat /\ u = n * q + r
    OBVIOUS
  <1> HIDE DEF r, q
  <1>2. CASE r + 1 < n
    <2>1. r + 1 \in 0 .. n - 1 /\ u + 1 = n * q + (r + 1)
      BY <1>1, <1>2
    <2>2. (u + 1) % n = r + 1
      BY <1>1, <2>1, ModUnique
    <2>3. (r + 1) % n = r + 1
      BY <1>1, <1>2, <2>1
    <2> QED BY <2>2, <2>3 DEF r
  <1>3. CASE r + 1 = n
    <2>1. n * (q + 1) = n * q + n
      BY <1>1
    <2>2. 0 \in 0 .. n - 1 /\ q + 1 \in Int /\ u + 1 \in Nat /\ u + 1 = n * (q + 1) + 0
      BY <1>1, <1>3, <2>1
    <2>3. (u + 1) % n = 0
      BY <2>2, ModUnique
    <2>4. (r + 1) % n = 0
      BY <1>3
    <2> QED BY <2>3, <2>4 DEF r
  <1> QED BY <1>1, <1>2, <1>3

\* The commands of a program lead from the write pointers it finds to those it leaves.
LEMMA ProgramSlots ==
    ASSUME TypeOK, NEW sizes \in Programs, NEW n \in Nat
    PROVE  Path(ProgramCmds(sizes, n), SlotStep, SlotVec, wptr, ProgramWptr(sizes))
  <1> DEFINE p == ProgramLaunch(sizes)
             v == ProgramWptr(sizes)
  <1>1. p \in Launch /\ RunsOn(p) = On(sizes) /\ wptr \in SlotVec /\ v \in SlotVec
    BY ProgramLaunchType, ProgramTypes DEF SlotVec, TypeOK
  <1>2. ConfigCmd(p) \in Command /\ LaunchCmd(p, n) \in Command /\ WaitCmd(n, FALSE) \in Command
    BY <1>1, CommandTypes
  <1>3. ProgramCmds(sizes, n) = write_program(p, n, reserve(rings, sizes).need_sync)
    BY DEF ProgramCmds, ProgramLaunch
  <1>4. p.slot = wptr /\ \A i \in CoreTypes : v[i] = IF i \in On(sizes) THEN Slot(wptr[i] + 1) ELSE wptr[i]
    BY DEF ProgramLaunch, ProgramWptr
  <1>5. v = [i \in CoreTypes |-> IF i \in On(sizes) THEN Slot(wptr[i] + 1) ELSE wptr[i]]
    BY DEF ProgramWptr
  <1> HIDE DEF p, v
  <1>6. /\ <<ConfigCmd(p), wptr, wptr>> \in SlotStep
        /\ <<WaitCmd(n, FALSE), wptr, wptr>> \in SlotStep
    <2>1. /\ ConfigCmd(p).op = "config" /\ WaitCmd(n, FALSE).op = "wait"
      BY DEF ConfigCmd, WaitCmd
    <2>2. SlotAfter(ConfigCmd(p), wptr) = wptr /\ SlotAfter(WaitCmd(n, FALSE), wptr) = wptr
      BY <1>1, <2>1 DEF SlotAfter, SlotVec
    <2> QED BY <1>1, <1>2, <2>1, <2>2, SlotStepFacts
  <1>7. <<LaunchCmd(p, n), wptr, v>> \in SlotStep
    <2>1. /\ LaunchCmd(p, n).op = "launch" /\ LaunchCmd(p, n).on = On(sizes)
          /\ LaunchCmd(p, n).prog = p
      BY <1>1 DEF LaunchCmd
    <2>2. SlotAfter(LaunchCmd(p, n), wptr) = v
      BY <1>5, <2>1 DEF SlotAfter
    <2> QED BY <1>1, <1>2, <1>4, <2>1, <2>2, SlotStepFacts
  <1>8. /\ Path(<<WaitCmd(n, FALSE), ConfigCmd(p), LaunchCmd(p, n)>>, SlotStep, SlotVec, wptr, v)
        /\ Path(<<ConfigCmd(p), WaitCmd(n, FALSE), LaunchCmd(p, n)>>, SlotStep, SlotVec, wptr, v)
    BY <1>1, <1>6, <1>7, PathThree
  <1>9. Path(ProgramCmds(sizes, n), SlotStep, SlotVec, wptr, v)
    BY <1>3, <1>8 DEF write_program
  <1> QED BY <1>9 DEF v

\* The pointers are vectors of slots.
LEMMA SlotVecTypes ==
    ASSUME TypeOK
    PROVE  /\ DeviceSlots \in SlotVec /\ HostSlots \in SlotVec /\ wptr \in SlotVec
           /\ Zero \in SlotVec /\ (trace # NoTrace => UsesSlots \in SlotVec)
  <1>1. ASSUME NEW i \in CoreTypes
        PROVE  rdptr[i] \in Slots /\ Slot(rdptr[i] + 1) \in Slots /\ 0 \in Slots
    <2>1. rdptr[i] \in Slots /\ rdptr[i] + 1 \in Nat
      BY DEF TypeOK, Slots
    <2> QED BY <2>1, SlotType, DispatchAssumption DEF Slots
  <1>2. trace # NoTrace => \A i \in CoreTypes : Slot(trace.uses[i]) \in Slots
    BY SlotType DEF TypeOK, Trace
  <1>3. 0 \in Slots
    BY DispatchAssumption DEF Slots
  <1>4. DeviceSlots \in SlotVec
    BY <1>1 DEF DeviceSlots, SlotVec
  <1> QED BY <1>2, <1>3, <1>4 DEF TypeOK, HostSlots, Zero, UsesSlots, SlotVec

\* At the start the host and the device are at slot 0 of every ring of launch messages.
LEMMA SlotsInit == Init => SlotsInStep
  <1> SUFFICES ASSUME Init PROVE SlotsInStep
    OBVIOUS
  <1>1. DeviceSlots = Zero /\ HostSlots = Zero
    BY DEF Init, DeviceSlots, HostSlots, Zero
  <1>2. Zero \in SlotVec
    BY DispatchAssumption DEF Zero, SlotVec, Slots
  <1>3. Path(devQ, SlotStep, SlotVec, DeviceSlots, HostSlots)
    BY <1>1, <1>2, PathEmpty DEF Init
  <1> QED BY <1>3 DEF Init, SlotsInStep, LaunchInSync

\* Every step keeps the pointers in step, when no traces are used or there is one core type.
LEMMA SlotsStep ==
    ASSUME ~Traces \/ NumTypes = 1, TypeOK, WaitsForAll, SlotsInStep, [Next]_vars
    PROVE  SlotsInStep'
  <1>0. /\ DeviceSlots \in SlotVec /\ HostSlots \in SlotVec /\ wptr \in SlotVec /\ Zero \in SlotVec
        /\ (trace # NoTrace => UsesSlots \in SlotVec) /\ devQ \in Seq(Command)
    BY SlotVecTypes DEF TypeOK
  <1>1. ASSUME enqueue_program
        PROVE  SlotsInStep'
    <2>1. PICK sizes \in Programs :
             devQ' = devQ \o ProgramCmds(sizes, expected) /\ wptr' = ProgramWptr(sizes)
      BY <1>1 DEF enqueue_program
    <2>2. ProgramCmds(sizes, expected) \in Seq(Command) /\ wptr' \in SlotVec
      BY <2>1, ProgramTypes DEF TypeOK, SlotVec
    <2>3. Path(ProgramCmds(sizes, expected), SlotStep, SlotVec, wptr, wptr')
      BY <2>1, ProgramSlots DEF TypeOK
    <2>4. HostSlots = wptr /\ HostSlots' = wptr'
      BY <1>1 DEF enqueue_program, HostSlots
    <2>5. Path(devQ', SlotStep, SlotVec, DeviceSlots, wptr')
      BY <1>0, <2>1, <2>2, <2>3, <2>4, PathConcat DEF SlotsInStep
    <2>6. DeviceSlots' = DeviceSlots /\ UNCHANGED <<trace, recording>> /\ ~recording
      BY <1>1 DEF enqueue_program, DeviceSlots
    <2>7. LaunchInSync' /\ UsesSlots' = UsesSlots /\ TraceOn' = TraceOn
      BY <1>1 DEF enqueue_program, SlotsInStep, LaunchInSync, UsesSlots, TraceOn
    <2> QED BY <2>4, <2>5, <2>6, <2>7 DEF SlotsInStep
  <1>2. ASSUME trace_program
        PROVE  SlotsInStep'
    <2>0. trace \in Trace /\ trace # NoTrace /\ NumTypes = 1
      BY <1>2 DEF trace_program, TypeOK, SlotsInStep
    <2>1. PICK sizes \in finalized :
             /\ wptr' = ProgramWptr(sizes)
             /\ trace' = [cmds     |-> trace.cmds \o ProgramCmds(sizes, trace.total),
                          uses     |-> [i \in CoreTypes |-> trace.uses[i] + (IF i \in On(sizes) THEN 1 ELSE 0)],
                          total    |-> trace.total + Cardinality(On(sizes)),
                          programs |-> trace.programs + 1]
      BY <1>2 DEF trace_program
    <2>2. /\ sizes \in Programs /\ trace.total \in Nat /\ trace.cmds \in Seq(Command)
          /\ trace.uses \in [CoreTypes -> Nat] /\ trace.programs \in Nat
      BY <2>0 DEF TypeOK, Trace
    <2>3. On(sizes) = CoreTypes
      BY <2>0, <2>2 DEF Programs, On, CoreTypes
    <2>4. recording /\ wptr = UsesSlots
      BY <1>2 DEF trace_program, SlotsInStep
    <2>5. /\ ProgramCmds(sizes, trace.total) \in Seq(Command)
          /\ Path(ProgramCmds(sizes, trace.total), SlotStep, SlotVec, wptr, wptr')
          /\ wptr' \in SlotVec
      BY <2>1, <2>2, ProgramTypes, ProgramSlots DEF SlotVec
    <2>6. /\ trace'.cmds = trace.cmds \o ProgramCmds(sizes, trace.total)
          /\ trace'.uses = [i \in CoreTypes |-> trace.uses[i] + 1]
          /\ trace'.programs = trace.programs + 1
      BY <2>1, <2>3
    <2>7. wptr' = [i \in CoreTypes |-> Slot(trace.uses[i] + 1)]
      <3>1. wptr' = [i \in CoreTypes |-> Slot(wptr[i] + 1)]
        BY <2>1, <2>3 DEF ProgramWptr
      <3>2. ASSUME NEW i \in CoreTypes
            PROVE  Slot(wptr[i] + 1) = Slot(trace.uses[i] + 1)
        BY <2>2, <2>4, SlotNext DEF UsesSlots
      <3> QED BY <3>1, <3>2
    <2>8. UsesSlots' = wptr'
      BY <2>6, <2>7 DEF UsesSlots
    <2>9. Path(trace'.cmds, SlotStep, SlotVec, Zero, UsesSlots')
      <3>1. Path(trace.cmds, SlotStep, SlotVec, Zero, wptr)
        BY <2>0, <2>4 DEF SlotsInStep
      <3> QED BY <1>0, <2>2, <2>5, <2>6, <2>8, <3>1, PathConcat
    <2>10. TraceOn' = CoreTypes
      <3>1. ASSUME NEW i \in CoreTypes
            PROVE  trace'.uses[i] # 0
        BY <2>2, <2>6
      <3> QED BY <3>1 DEF TraceOn
    <2>11. /\ UNCHANGED <<devQ, running, rdptr, savedWptr, recording>>
           /\ DeviceSlots' = DeviceSlots /\ HostSlots' = HostSlots /\ LaunchInSync'
      BY <1>2, <2>4 DEF trace_program, deviceVars, DeviceSlots, HostSlots, SlotsInStep, LaunchInSync
    <2>12. Path(devQ', SlotStep, SlotVec, DeviceSlots', HostSlots')
      BY <2>11 DEF SlotsInStep
    <2> QED BY <2>0, <2>4, <2>8, <2>9, <2>10, <2>11, <2>12 DEF SlotsInStep
  <1>3. ASSUME record_begin
        PROVE  SlotsInStep'
    <2> DEFINE c == WaitCmd(expected, TRUE)
    <2>1. c \in Command /\ c.op = "wait"
      BY CommandTypes, NoLaunchType DEF TypeOK, WaitCmd
    <2>2. /\ ~recording /\ recording' = TRUE /\ devQ' = Append(devQ, c) /\ savedWptr' = wptr
          /\ wptr' = Zero /\ trace' = EmptyTrace /\ Traces /\ UNCHANGED <<running, rdptr>>
      BY <1>3 DEF record_begin, Zero
    <2> HIDE DEF c
    <2>3. <<c, wptr, wptr>> \in SlotStep
      <3>1. SlotAfter(c, wptr) = wptr
        BY <1>0, <2>1 DEF SlotAfter, SlotVec
      <3> QED BY <1>0, <2>1, <3>1, SlotStepFacts
    <2>4. HostSlots = wptr /\ HostSlots' = wptr /\ DeviceSlots' = DeviceSlots /\ LaunchInSync'
      BY <2>2 DEF HostSlots, DeviceSlots, SlotsInStep, LaunchInSync
    <2>5. Path(devQ', SlotStep, SlotVec, DeviceSlots', HostSlots')
      BY <1>0, <2>1, <2>2, <2>3, <2>4, PathAppend DEF SlotsInStep
    <2>6. trace'.cmds = <<>> /\ trace'.uses = [i \in CoreTypes |-> 0] /\ trace'.programs = 0
      BY <2>2 DEF EmptyTrace
    <2>7. UsesSlots' = Zero
      <3>1. Slot(0) = 0
        BY DispatchAssumption DEF Slot
      <3> QED BY <2>6, <3>1 DEF UsesSlots, Zero
    <2>8. Path(trace'.cmds, SlotStep, SlotVec, Zero, UsesSlots')
      BY <1>0, <2>6, <2>7, PathEmpty
    <2> QED BY <2>2, <2>4, <2>5, <2>6, <2>7, <2>8 DEF SlotsInStep
  <1>4. ASSUME record_end
        PROVE  SlotsInStep'
    <2>1. /\ recording /\ recording' = FALSE /\ wptr' = savedWptr /\ trace.programs > 0
          /\ UNCHANGED <<trace, devQ, running, rdptr>>
      BY <1>4 DEF record_end, deviceVars
    <2>2. HostSlots' = HostSlots /\ DeviceSlots' = DeviceSlots /\ UsesSlots' = UsesSlots
      BY <2>1 DEF HostSlots, DeviceSlots, UsesSlots
    <2>3. LaunchInSync' /\ TraceOn' = TraceOn
      BY <2>1 DEF SlotsInStep, LaunchInSync, TraceOn
    <2> QED BY <2>1, <2>2, <2>3 DEF SlotsInStep
  <1>5. ASSUME enqueue_trace
        PROVE  SlotsInStep'
    <2>1. trace \in Trace /\ trace # NoTrace /\ TraceOn = CoreTypes
      BY <1>5 DEF TypeOK, enqueue_trace, SlotsInStep
    <2> DEFINE m == expected + Cardinality(TraceOn)
               rs == ResetCmd(TraceOn, expected)
               wt == WaitCmd(m, TRUE)
    <2>2. m \in Nat
      BY <2>1, CoreTypesFinite DEF TypeOK
    <2>3. rs \in Command /\ wt \in Command
      BY <2>1, <2>2, CommandTypes, NoLaunchType DEF TypeOK
    <2>4. <<rs, wptr, Zero>> \in SlotStep
      <3>1. rs.op = "reset" /\ rs.on = CoreTypes
        BY <2>1 DEF ResetCmd
      <3>2. SlotAfter(rs, wptr) = Zero
        BY <3>1 DEF SlotAfter, Zero
      <3> QED BY <1>0, <2>3, <3>1, <3>2, SlotStepFacts
    <2>5. <<wt, Zero, Zero>> \in SlotStep
      <3>1. wt.op = "wait"
        BY DEF WaitCmd
      <3>2. SlotAfter(wt, Zero) = Zero
        BY <3>1 DEF SlotAfter, Zero
      <3> QED BY <1>0, <2>3, <3>1, <3>2, SlotStepFacts
    <2>6. trace.cmds \in Seq(Command)
      BY <2>1 DEF Trace
    <2>7. /\ devQ' = (devQ \o <<rs, wt>>) \o trace.cmds /\ UNCHANGED <<trace, recording, running, rdptr>>
          /\ ~recording /\ wptr' = UsesSlots
      BY <1>5 DEF enqueue_trace, UsesSlots
    <2> HIDE DEF rs, wt, m
    <2>8. Path(<<rs, wt>>, SlotStep, SlotVec, wptr, Zero)
      BY <1>0, <2>4, <2>5, PathTwo
    <2>9. <<rs, wt>> \in Seq(Command)
      BY <2>3, ShortSeq
    <2>10. HostSlots = wptr /\ HostSlots' = UsesSlots /\ DeviceSlots' = DeviceSlots
      BY <2>7 DEF HostSlots, DeviceSlots
    <2>11. Path(devQ \o <<rs, wt>>, SlotStep, SlotVec, DeviceSlots, Zero) /\ devQ \o <<rs, wt>> \in Seq(Command)
      BY <1>0, <2>8, <2>9, <2>10, PathConcat, ConcatProperties DEF SlotsInStep
    <2>12. Path(trace.cmds, SlotStep, SlotVec, Zero, UsesSlots) /\ UsesSlots \in SlotVec
      BY <1>0, <2>1 DEF SlotsInStep
    <2>13. Path((devQ \o <<rs, wt>>) \o trace.cmds, SlotStep, SlotVec, DeviceSlots, UsesSlots)
      BY <1>0, <2>6, <2>11, <2>12, PathConcat
    <2>14. UsesSlots' = UsesSlots /\ TraceOn' = TraceOn /\ LaunchInSync'
      BY <2>7 DEF UsesSlots, TraceOn, SlotsInStep, LaunchInSync
    <2> QED BY <2>7, <2>10, <2>12, <2>13, <2>14 DEF SlotsInStep
  <1>6. ASSUME release_trace
        PROVE  SlotsInStep'
    <2>1. trace' = NoTrace /\ ~recording /\ UNCHANGED <<recording, wptr, savedWptr, devQ, running, rdptr>>
      BY <1>6 DEF release_trace, deviceVars
    <2>2. HostSlots' = HostSlots /\ DeviceSlots' = DeviceSlots /\ LaunchInSync'
      BY <2>1 DEF HostSlots, DeviceSlots, SlotsInStep, LaunchInSync
    <2> QED BY <2>1, <2>2 DEF SlotsInStep
  <1>7. ASSUME DeviceStep
        PROVE  SlotsInStep'
    <2>1. devQ # <<>> /\ devQ' = Tail(devQ) /\ UNCHANGED <<hostVars, rdptr>>
      BY <1>7 DEF DeviceStep, DispatchConfig, DispatchWait, DispatchLaunch, DispatchReset, NextIs
    <2> DEFINE c == Head(devQ)
    <2>2. c \in Command /\ c.on \in SUBSET CoreTypes /\ c.prog \in Launch
      <3>1. c \in Command
        BY <2>1, HeadTailProperties DEF TypeOK
      <3> QED BY <3>1 DEF Command
    <2>3. PICK v \in SlotVec : <<c, DeviceSlots, v>> \in SlotStep
                               /\ Path(Tail(devQ), SlotStep, SlotVec, v, HostSlots)
      BY <1>0, <2>1, PathTail DEF SlotsInStep
    <2>4. (c.op = "launch" => \A i \in c.on : c.prog.slot[i] = DeviceSlots[i]) /\ v = SlotAfter(c, DeviceSlots)
      BY <1>0, <2>2, <2>3, SlotStepFacts
    <2>5. DeviceSlots' = v /\ LaunchInSync'
      <3>1. CASE DispatchConfig \/ DispatchWait
        <4>1. c.op \in {"config", "wait"} /\ running' = running
          BY <3>1 DEF DispatchConfig, DispatchWait, NextIs
        <4>2. v = DeviceSlots
          BY <1>0, <2>4, <4>1 DEF SlotAfter, SlotVec
        <4> QED BY <2>1, <4>1, <4>2 DEF DeviceSlots, SlotsInStep, LaunchInSync
      <3>2. CASE DispatchLaunch \/ DispatchReset
        <4>1. \A i \in CoreTypes : running[i] = Idle
          BY <3>2, NothingBusy DEF Busy
        <4>2. \A i \in CoreTypes : DeviceSlots[i] = rdptr[i]
          BY <4>1 DEF DeviceSlots
        <4>3. CASE DispatchLaunch
          <5>1. c.op = "launch" /\ running' = [i \in CoreTypes |-> IF i \in c.on THEN c.prog ELSE running[i]]
            BY <4>3 DEF DispatchLaunch, NextIs
          <5>2. c.prog \notin {Idle, Reset}
            BY <2>2, TokenAssumption
          <5>3. \A i \in CoreTypes : /\ i \in c.on => running'[i] = c.prog
                                     /\ i \notin c.on => running'[i] = Idle
            BY <4>1, <5>1
          <5>4. v = [i \in CoreTypes |-> IF i \in c.on THEN Slot(rdptr[i] + 1) ELSE rdptr[i]]
            BY <2>4, <4>2, <5>1 DEF SlotAfter
          <5>5. DeviceSlots' = v
            BY <2>1, <5>2, <5>3, <5>4 DEF DeviceSlots
          <5>6. LaunchInSync'
            BY <2>1, <2>2, <2>4, <4>2, <5>1, <5>2, <5>3 DEF LaunchInSync
          <5> QED BY <5>5, <5>6
        <4>4. CASE DispatchReset
          <5>1. c.op = "reset" /\ running' = [i \in CoreTypes |-> IF i \in c.on THEN Reset ELSE running[i]]
            BY <4>4 DEF DispatchReset, NextIs
          <5>2. \A i \in CoreTypes : /\ i \in c.on => running'[i] = Reset
                                     /\ i \notin c.on => running'[i] = Idle
            BY <4>1, <5>1
          <5>3. v = [i \in CoreTypes |-> IF i \in c.on THEN 0 ELSE rdptr[i]]
            BY <2>4, <4>2, <5>1 DEF SlotAfter
          <5>4. DeviceSlots' = v
            BY <2>1, <5>2, <5>3, TokenAssumption DEF DeviceSlots
          <5>5. LaunchInSync'
            BY <5>2 DEF LaunchInSync
          <5> QED BY <5>4, <5>5
        <4> QED BY <3>2, <4>3, <4>4
      <3> QED BY <1>7, <3>1, <3>2 DEF DeviceStep
    <2>6. HostSlots' = HostSlots /\ UNCHANGED <<trace, recording, wptr>>
      BY <2>1 DEF HostSlots, hostVars
    <2>7. UsesSlots' = UsesSlots /\ TraceOn' = TraceOn
      BY <2>6 DEF UsesSlots, TraceOn
    <2>8. Path(devQ', SlotStep, SlotVec, DeviceSlots', HostSlots')
      BY <2>1, <2>3, <2>5, <2>6
    <2> QED BY <2>5, <2>6, <2>7, <2>8 DEF SlotsInStep
  <1>8. ASSUME NEW i \in CoreTypes, WorkerDone(i) \/ WorkerReset(i)
        PROVE  SlotsInStep'
    <2>1. /\ UNCHANGED <<hostVars, devQ>> /\ running' = [running EXCEPT ![i] = Idle]
          /\ rdptr' = [rdptr EXCEPT ![i] = IF running[i] = Reset THEN 0 ELSE Slot(rdptr[i] + 1)]
          /\ running[i] # Idle
      BY <1>8, TokenAssumption DEF WorkerDone, WorkerReset
    <2>2. /\ \A j \in CoreTypes \ {i} : running'[j] = running[j] /\ rdptr'[j] = rdptr[j]
          /\ running'[i] = Idle /\ rdptr'[i] = IF running[i] = Reset THEN 0 ELSE Slot(rdptr[i] + 1)
      BY <2>1 DEF TypeOK
    <2>3. DeviceSlots' = DeviceSlots
      BY <2>1, <2>2 DEF DeviceSlots
    <2>4. LaunchInSync'
      BY <2>2 DEF SlotsInStep, LaunchInSync
    <2>5. HostSlots' = HostSlots /\ UNCHANGED <<trace, recording, wptr>>
      BY <2>1 DEF HostSlots, hostVars
    <2>6. UsesSlots' = UsesSlots /\ TraceOn' = TraceOn
      BY <2>5 DEF UsesSlots, TraceOn
    <2> QED BY <2>1, <2>3, <2>4, <2>5, <2>6 DEF SlotsInStep
  <1>9. ASSUME UNCHANGED vars
        PROVE  SlotsInStep'
    <2>1. HostSlots' = HostSlots /\ DeviceSlots' = DeviceSlots /\ UsesSlots' = UsesSlots /\ TraceOn' = TraceOn
      BY <1>9 DEF vars, hostVars, deviceVars, HostSlots, DeviceSlots, UsesSlots, TraceOn
    <2>2. LaunchInSync'
      BY <1>9 DEF vars, deviceVars, SlotsInStep, LaunchInSync
    <2> QED BY <1>9, <2>1, <2>2 DEF vars, hostVars, deviceVars, SlotsInStep
  <1> QED
    BY <1>1, <1>2, <1>3, <1>4, <1>5, <1>6, <1>7, <1>8, <1>9 DEF Next, HostStep

\* LaunchInSync: the workers find the launch message of the program they are to run at their read
\* pointer. It holds without traces for every number of core types, and with traces for one: a
\* trace that leaves a core type out does not reset its pointer.
THEOREM LaunchInSyncHolds ==
    ASSUME ~Traces \/ NumTypes = 1
    PROVE  Spec => []LaunchInSync
  <1>1. TypeOK /\ WaitsForAll /\ SlotsInStep /\ [Next]_vars => SlotsInStep'
    BY SlotsStep
  <1>2. SlotsInStep => LaunchInSync
    BY DEF SlotsInStep
  <1> QED BY <1>1, <1>2, SlotsInit, TypeCorrect, WaitsForAllHolds, PTL DEF Spec

-----------------------------------------------------------------------------
(* The configuration rings: how much they hold *)

\* A set of numbers up to n has a last one.
LEMMA LastExists ==
    ASSUME NEW n \in Nat, NEW T \in SUBSET (1 .. n), T # {}
    PROVE  \E i \in T : \A j \in T : j <= i
  <1> DEFINE U == {n - i : i \in T}
             R == OpToRel(<, Nat)
  <1>0. \A i \in T : n - i \in Nat
    OBVIOUS
  <1>1. U \subseteq Nat /\ U # {}
    <2> HIDE DEF R
    <2> QED BY <1>0
  <1>2. IsWellFoundedOn(R, Nat)
    BY NatLessThanWellFounded, Zenon
  <1>3. \A x, y \in Nat : <<x, y>> \in R <=> x < y
    BY DEF OpToRel
  <1> HIDE DEF U, R
  <1>4. PICK u \in U : \A v \in U : ~ (<<v, u>> \in R)
    BY <1>1, <1>2, WFMin
  <1>5. ASSUME NEW v \in U PROVE u <= v
    <2>1. u \in Nat /\ v \in Nat
      BY <1>1
    <2>2. ~(v < u)
      BY <1>3, <1>4, <2>1
    <2> QED BY <2>1, <2>2
  <1>6. PICK i \in T : u = n - i
    BY DEF U
  <1>7. ASSUME NEW j \in T PROVE j <= i
    <2>1. n - j \in U
      BY DEF U
    <2>2. u <= n - j
      BY <1>5, <2>1
    <2> QED BY <1>6, <2>2
  <1> QED BY <1>7

\* A ring counts at most one program as held, and the next address is the end of its piece.
HeldOne(r) ==
    \/ r.alloc = r.free
    \/ /\ r.alloc = NextIndex(r.free)
       /\ r.entries[r.alloc].addr = r.entries[r.free].addr + r.entries[r.free].size

\* The rings of all core types move together.
RingsInStep ==
    \A i, j \in CoreTypes :
        /\ HeldOne(rings[i])
        /\ rings[i].alloc = rings[j].alloc
        /\ rings[i].free = rings[j].free
        /\ rings[i].entries[rings[i].free].sync = rings[j].entries[rings[j].free].sync

\* The entry after e is another one.
LEMMA NextIndexFacts ==
    \A e \in 0 .. EntryCount - 1 : NextIndex(e) \in 0 .. EntryCount - 1 /\ NextIndex(e) # e
  BY ConfigAssumption DEF NextIndex

\* The loop of reserve ends in its first round when the ring holds one program: there is no other
\* entry to go on to.
LEMMA FirstRound ==
    ASSUME NEW i \in CoreTypes, NEW r \in Ring, NEW size \in Nat \ {0}, r.alloc = NextIndex(r.free)
    PROVE  LET one == ReserveOne(i, r, size)
               found == Round(i, r, size, r.free)
           IN /\ one.addr = found.addr /\ one.size = size
              /\ one.need_sync = found.need_sync /\ one.sync = found.sync
  <1> DEFINE ends == {n \in 0 .. EntryCount - 1 : ~Round(i, r, size, Ahead(r, n)).again}
             k == CHOOSE n \in ends : \A m \in ends : n <= m
  <1>1. r.free \in 0 .. EntryCount - 1 /\ 0 \in 0 .. EntryCount - 1
    BY ConfigAssumption DEF Ring
  <1>2. Ahead(r, 0) = r.free
    BY <1>1, ConfigAssumption DEF Ahead
  <1>3. ~Round(i, r, size, r.free).again
    <2>1. NextIndex(r.free) # r.alloc <=> FALSE
      OBVIOUS
    <2> QED BY <2>1, Zenon DEF Round
  <1>4. 0 \in ends
    BY <1>1, <1>2, <1>3
  <1>5. \A m \in ends : m \in Nat
    OBVIOUS
  <1> HIDE DEF ends
  <1>6. k = 0
    <2>1. \A m \in ends : 0 <= m
      BY <1>5
    <2>2. k \in ends /\ \A m \in ends : k <= m
      BY <1>4, <2>1
    <2>3. k <= 0 /\ 0 <= k /\ k \in Nat
      BY <1>4, <1>5, <2>2
    <2> QED BY <2>3
  <1>7. ReserveOne(i, r, size) = LET found == Round(i, r, size, Ahead(r, k))
                                 IN [addr |-> found.addr, size |-> size, need_sync |-> found.need_sync,
                                     sync |-> found.sync]
    BY DEF ReserveOne, ends
  <1> HIDE DEF k
  <1>8. ReserveOne(i, r, size) = LET found == Round(i, r, size, r.free)
                                 IN [addr |-> found.addr, size |-> size, need_sync |-> found.need_sync,
                                     sync |-> found.sync]
    BY <1>2, <1>6, <1>7
  <1> QED BY <1>8

\* What alloc makes of one ring.
LEMMA AllocOne ==
    ASSUME NEW r \in Rings, NEW at \in [CoreTypes -> Piece], NEW sync \in Nat, NEW i \in CoreTypes
    PROVE  LET new == alloc(r, at, sync)[i]
               n == NextIndex(r[i].alloc)
           IN /\ new.free = r[i].free /\ new.alloc = n
              /\ new.entries[r[i].alloc] = [addr |-> at[i].addr, size |-> at[i].size, sync |-> sync]
              /\ new.entries[n].addr = at[i].addr + at[i].size
  <1>1. ASSUME NEW x \in Ring, NEW p
        PROVE  LET n == NextIndex(x.alloc)
                   new == [x EXCEPT !.entries[x.alloc] = [addr |-> p.addr, size |-> p.size, sync |-> sync],
                                    !.entries[n] = [addr |-> p.addr + p.size, size |-> 0, sync |-> 0],
                                    !.alloc = n]
               IN /\ new.free = x.free /\ new.alloc = n
                  /\ new.entries[x.alloc] = [addr |-> p.addr, size |-> p.size, sync |-> sync]
                  /\ new.entries[n].addr = p.addr + p.size
    <2>1. /\ NextIndex(x.alloc) \in 0 .. EntryCount - 1 /\ NextIndex(x.alloc) # x.alloc
          /\ x.alloc \in 0 .. EntryCount - 1
      BY NextIndexFacts DEF Ring
    <2>2. DOMAIN x.entries = 0 .. EntryCount - 1
      BY DEF Ring
    <2> QED BY <2>1, <2>2 DEF Ring
  <1>2. r[i] \in Ring
    BY DEF Rings
  <1> QED BY <1>1, <1>2 DEF alloc

\* A program that is enqueued leaves the rings with its own piece as the one that is held.
LEMMA ProgramHeld ==
    ASSUME TypeOK, RingsInStep, NEW sizes \in Programs, NEW n \in Nat, NEW i \in CoreTypes
    PROVE  LET new == ProgramRings(sizes, n)[i]
               at == reserve(rings, sizes).at
           IN /\ new.free = rings[i].alloc /\ new.alloc = NextIndex(rings[i].alloc)
              /\ new.entries[new.free]
                    = [addr |-> at[i].addr, size |-> at[i].size, sync |-> n + Cardinality(On(sizes))]
              /\ new.entries[new.alloc].addr = at[i].addr + at[i].size
  <1> DEFINE upTo == reserve(rings, sizes).sync
             at == reserve(rings, sizes).at
             freed == free(rings, upTo)
             sync == n + Cardinality(On(sizes))
  <1>1. rings \in Rings /\ rings[i] \in Ring
    BY DEF TypeOK, Rings
  <1>2. at \in [CoreTypes -> Piece] /\ freed \in Rings /\ sync \in Nat
    BY <1>1, ReserveType, FreeType, ProgramTypes, SMTT(30)
  <1>3. freed[i].free = rings[i].alloc /\ freed[i].alloc = rings[i].alloc
    <2>1. CASE rings[i].alloc = rings[i].free
      BY <2>1 DEF free
    <2>2. CASE rings[i].alloc # rings[i].free
      <3> DEFINE last == CHOOSE l \in CoreTypes : sizes[l] # 0 /\ \A j \in CoreTypes : sizes[j] # 0 => j <= l
      <3>1. last \in CoreTypes /\ sizes[last] # 0
        <4>1. On(sizes) \in SUBSET (1 .. NumTypes) /\ On(sizes) # {} /\ NumTypes \in Nat
          BY ConfigAssumption DEF On, CoreTypes, Programs
        <4>2. \E l \in On(sizes) : \A j \in On(sizes) : j <= l
          BY <4>1, LastExists
        <4>3. \E l \in CoreTypes : sizes[l] # 0 /\ \A j \in CoreTypes : sizes[j] # 0 => j <= l
          BY <4>2 DEF On
        <4> QED BY <4>3
      <3>2. upTo = ReserveOne(last, rings[last], sizes[last]).sync
        BY <3>1 DEF reserve
      <3> HIDE DEF last
      <3>3. rings[last] \in Ring /\ sizes[last] \in Nat \ {0}
        BY <1>1, <3>1, DispatchAssumption DEF Rings, Programs
      <3>4. rings[last].alloc = NextIndex(rings[last].free)
        <4>1. rings[last].alloc # rings[last].free
          BY <2>2, <3>1 DEF RingsInStep
        <4> QED BY <3>1, <4>1 DEF RingsInStep, HeldOne
      <3>5. upTo = Round(last, rings[last], sizes[last], rings[last].free).sync
        BY <3>1, <3>2, <3>3, <3>4, FirstRound
      <3>6. upTo = rings[last].entries[rings[last].free].sync
        BY <3>5 DEF Round
      <3>7. upTo = rings[i].entries[rings[i].free].sync
        BY <3>1, <3>6 DEF RingsInStep
      <3>8. rings[i].alloc = NextIndex(rings[i].free)
        BY <2>2 DEF RingsInStep, HeldOne
      <3>9. upTo \in Nat
        BY <1>1, <3>7 DEF Ring, ConfigEntry
      <3> HIDE DEF upTo
      <3>10. freed[i] = [rings[i] EXCEPT !.free = NextIndex(rings[i].free)]
        BY <2>2, <3>7, <3>9 DEF free
      <3> QED BY <1>1, <3>8, <3>10 DEF Ring
    <2> QED BY <2>1, <2>2
  <1>4. ProgramRings(sizes, n) = alloc(freed, at, sync)
    BY DEF ProgramRings
  <1> HIDE DEF freed, at, sync
  <1>5. /\ ProgramRings(sizes, n)[i].free = freed[i].free
        /\ ProgramRings(sizes, n)[i].alloc = NextIndex(freed[i].alloc)
        /\ ProgramRings(sizes, n)[i].entries[freed[i].alloc]
              = [addr |-> at[i].addr, size |-> at[i].size, sync |-> sync]
        /\ ProgramRings(sizes, n)[i].entries[NextIndex(freed[i].alloc)].addr = at[i].addr + at[i].size
    BY <1>2, <1>4, AllocOne
  <1>6. /\ ProgramRings(sizes, n)[i].free = rings[i].alloc
        /\ ProgramRings(sizes, n)[i].alloc = NextIndex(rings[i].alloc)
        /\ ProgramRings(sizes, n)[i].entries[rings[i].alloc]
              = [addr |-> at[i].addr, size |-> at[i].size, sync |-> sync]
        /\ ProgramRings(sizes, n)[i].entries[NextIndex(rings[i].alloc)].addr = at[i].addr + at[i].size
    BY <1>3, <1>5
  <1> QED BY <1>6 DEF at, sync

\* Enqueueing and capturing keep the rings in step; nothing else touches them.
LEMMA RingsStep == TypeOK /\ RingsInStep /\ [Next]_vars => RingsInStep'
  <1> SUFFICES ASSUME TypeOK, RingsInStep, [Next]_vars PROVE RingsInStep'
    OBVIOUS
  <1>1. ASSUME NEW sizes \in Programs, NEW n \in Nat, rings' = ProgramRings(sizes, n)
        PROVE  RingsInStep'
    <2> SUFFICES ASSUME NEW i \in CoreTypes, NEW j \in CoreTypes
                 PROVE  /\ HeldOne(rings'[i])
                        /\ rings'[i].alloc = rings'[j].alloc
                        /\ rings'[i].free = rings'[j].free
                        /\ rings'[i].entries[rings'[i].free].sync = rings'[j].entries[rings'[j].free].sync
      BY DEF RingsInStep
    <2> DEFINE at == reserve(rings, sizes).at
               sync == n + Cardinality(On(sizes))
    <2>1. ASSUME NEW l \in CoreTypes
          PROVE  /\ rings'[l].free = rings[l].alloc /\ rings'[l].alloc = NextIndex(rings[l].alloc)
                 /\ rings'[l].entries[rings'[l].free] = [addr |-> at[l].addr, size |-> at[l].size, sync |-> sync]
                 /\ rings'[l].entries[rings'[l].alloc].addr = at[l].addr + at[l].size
      BY <1>1, ProgramHeld
    <2> HIDE DEF at, sync
    <2>2. rings[i].alloc = rings[j].alloc
      BY DEF RingsInStep
    <2>3. HeldOne(rings'[i])
      <3>1. rings'[i].alloc = NextIndex(rings'[i].free)
        BY <2>1
      <3>2. /\ rings'[i].entries[rings'[i].free].addr = at[i].addr
            /\ rings'[i].entries[rings'[i].free].size = at[i].size
        <4>1. rings'[i].entries[rings'[i].free] = [addr |-> at[i].addr, size |-> at[i].size, sync |-> sync]
          BY <2>1
        <4> QED BY <4>1
      <3>3. rings'[i].entries[rings'[i].alloc].addr = at[i].addr + at[i].size
        BY <2>1
      <3> QED BY <3>1, <3>2, <3>3 DEF HeldOne
    <2>4. /\ rings'[i].entries[rings'[i].free].sync = sync
          /\ rings'[j].entries[rings'[j].free].sync = sync
      <3>1. ASSUME NEW l \in CoreTypes
            PROVE  rings'[l].entries[rings'[l].free].sync = sync
        <4>1. rings'[l].entries[rings'[l].free] = [addr |-> at[l].addr, size |-> at[l].size, sync |-> sync]
          BY <2>1
        <4> QED BY <4>1
      <3> QED BY <3>1
    <2> QED BY <2>1, <2>2, <2>3, <2>4
  <1>2. CASE enqueue_program
    BY <1>1, <1>2 DEF enqueue_program, TypeOK
  <1>3. CASE trace_program
    <2>1. trace \in Trace /\ trace.total \in Nat
      BY <1>3 DEF trace_program, TypeOK, Trace
    <2> QED BY <1>1, <1>3, <2>1 DEF trace_program, TypeOK
  <1>4. CASE UNCHANGED rings
    BY <1>4 DEF RingsInStep
  <1>5. enqueue_program \/ trace_program \/ UNCHANGED rings
    BY DEF Next, HostStep, DeviceStep, record_begin, record_end, enqueue_trace, release_trace, DispatchConfig,
           DispatchWait, DispatchLaunch, DispatchReset, WorkerDone, WorkerReset, vars, hostVars
  <1> QED BY <1>2, <1>3, <1>4, <1>5

\* The book-keeping of the rings counts the last program at most: whatever the number of entries
\* (kernel_config_entry_count), every program that reserves frees the one before it, so a
\* configuration is written early only next to the piece of the program launched last.
THEOREM OneProgramHeld == Spec => []RingsInStep
  <1>1. Init => RingsInStep
    BY DEF Init, RingsInStep, HeldOne, EmptyRing
  <1> QED BY <1>1, RingsStep, TypeCorrect, PTL DEF Spec

-----------------------------------------------------------------------------
(* The configurations of programs that run *)

PieceVec == [CoreTypes -> Piece]
NoPieces == [i \in CoreTypes |-> [addr |-> 0, size |-> 0]]

\* The pieces that may be in use when command c has been processed: a launch waits for all
\* programs before it, so only its own; a wait leaves none.
PiecesAfter(c, s) == IF c.op = "config" THEN s ELSE IF c.op = "launch" THEN c.prog.at ELSE NoPieces

\* A configuration is written beside the pieces that are in use.
PieceStep == {t \in Command \X PieceVec \X PieceVec :
                 /\ t[1].op = "config" => \A i \in CoreTypes : Disjoint(t[1].prog.at[i], t[2][i])
                 /\ t[3] = PiecesAfter(t[1], t[2])}

\* The pieces of the program that the host counts as held.
RingPieces ==
    [i \in CoreTypes |-> LET e == rings[i].entries[rings[i].free]
                         IN IF rings[i].free = rings[i].alloc THEN [addr |-> 0, size |-> 0]
                            ELSE [addr |-> e.addr, size |-> e.size]]

\* The dispatcher's commands lead from pieces s, among which are those of all that runs and beside
\* which is what was loaded, to the pieces the host holds.
PiecesFrom(s) ==
    /\ Path(devQ, PieceStep, PieceVec, s, RingPieces)
    /\ \A i \in CoreTypes : /\ running[i] \notin {Idle, Reset} => running[i].at[i] = s[i]
                            /\ Disjoint(loaded.at[i], s[i])

PiecesInStep == trace = NoTrace /\ \E s \in PieceVec : PiecesFrom(s)

\* Membership in PieceStep.
LEMMA PieceStepFacts ==
    ASSUME NEW c \in Command, NEW a \in PieceVec, NEW b \in PieceVec
    PROVE  <<c, a, b>> \in PieceStep
              <=> /\ c.op = "config" => \A i \in CoreTypes : Disjoint(c.prog.at[i], a[i])
                  /\ b = PiecesAfter(c, a)
  BY DEF PieceStep

\* An empty piece is beside every other.
LEMMA BesideNothing ==
    ASSUME NEW p, NEW q, p.size = 0
    PROVE  Disjoint(p, q) /\ Disjoint(q, p)
  BY DEF Disjoint

\* What the rings hold are pieces of the configuration buffers.
LEMMA RingPiecesType ==
    ASSUME rings \in Rings
    PROVE  RingPieces \in PieceVec /\ NoPieces \in PieceVec
  <1>1. ASSUME NEW r \in Ring
        PROVE  r.entries[r.free].addr \in Nat /\ r.entries[r.free].size \in Nat
    BY DEF Ring, ConfigEntry
  <1>2. \A i \in CoreTypes : rings[i] \in Ring
    BY DEF Rings
  <1>3. \A i \in CoreTypes : RingPieces[i] \in Piece
    BY <1>1, <1>2 DEF RingPieces, Piece
  <1>4. RingPieces = [i \in CoreTypes |-> RingPieces[i]]
    BY DEF RingPieces
  <1>5. NoPieces \in PieceVec
    BY DEF NoPieces, PieceVec, Piece
  <1> HIDE DEF RingPieces
  <1> QED BY <1>3, <1>4, <1>5 DEF PieceVec

\* What is reserved without a sync lies beside what the ring holds: behind it, or, when the end of
\* the ring is too near, before it.
LEMMA ReserveBeside ==
    ASSUME TypeOK, RingsInStep, NEW sizes \in Programs, NEW i \in CoreTypes, ~reserve(rings, sizes).need_sync
    PROVE  Disjoint(reserve(rings, sizes).at[i], RingPieces[i])
  <1> DEFINE r == rings[i]
             f == r.entries[r.free]
             one == ReserveOne(i, r, sizes[i])
             at == reserve(rings, sizes).at[i]
  <1>1. r \in Ring /\ sizes[i] \in Nat
    BY DispatchAssumption DEF TypeOK, Programs
  <1>2. at = [addr |-> one.addr, size |-> one.size] /\ ~one.need_sync
    BY DEF reserve
  <1>3. CASE r.free = r.alloc
    <2>1. RingPieces[i].size = 0
      BY <1>3 DEF RingPieces
    <2> QED BY <2>1, BesideNothing
  <1>4. CASE sizes[i] = 0
    <2>1. at.size = 0
      BY <1>2, <1>4 DEF ReserveOne
    <2> QED BY <2>1, BesideNothing
  <1>5. CASE r.free # r.alloc /\ sizes[i] # 0
    <2>1. r.alloc = NextIndex(r.free) /\ r.entries[r.alloc].addr = f.addr + f.size
      BY <1>5 DEF RingsInStep, HeldOne
    <2>2. /\ one.addr = Round(i, r, sizes[i], r.free).addr
          /\ one.size = sizes[i]
          /\ one.need_sync = Round(i, r, sizes[i], r.free).need_sync
      BY <1>1, <1>5, <2>1, FirstRound
    <2>3. f.addr \in Nat /\ f.size \in Nat /\ RingSize[i] \in Nat
      BY <1>1, ConfigAssumption DEF Ring, ConfigEntry
    <2>4. RingPieces[i].addr = f.addr /\ RingPieces[i].size = f.size
      BY <1>5 DEF RingPieces
    <2> DEFINE next == f.addr + f.size
               wraps == next + sizes[i] > RingSize[i]
               addr == IF wraps THEN 0 ELSE next
    <2>5. ~(addr + sizes[i] > IF wraps THEN f.addr ELSE RingSize[i])
      <3>1. ~Round(i, r, sizes[i], r.free).need_sync
        BY <1>2, <2>2
      <3>2. next >= f.addr
        BY <2>3
      <3> QED BY <2>1, <3>1, <3>2, Zenon DEF Round
    <2>6. one.addr = addr
      <3>1. next >= f.addr
        BY <2>3
      <3> QED BY <2>1, <2>2, <2>5, <3>1, Zenon DEF Round
    <2>7. at.addr = addr /\ at.size = sizes[i]
      BY <1>2, <2>2, <2>6
    <2>8. at.addr + at.size <= f.addr \/ f.addr + f.size <= at.addr
      <3> HIDE DEF at, f
      <3> QED BY <1>1, <2>3, <2>5, <2>7
    <2> QED BY <2>4, <2>8 DEF Disjoint
  <1> QED BY <1>3, <1>4, <1>5

\* The commands of a program lead from the pieces that are held to its own.
LEMMA ProgramPieces ==
    ASSUME TypeOK, RingsInStep, NEW sizes \in Programs, NEW n \in Nat
    PROVE  Path(ProgramCmds(sizes, n), PieceStep, PieceVec, RingPieces, reserve(rings, sizes).at)
  <1> DEFINE p == ProgramLaunch(sizes)
             at == reserve(rings, sizes).at
             stall == reserve(rings, sizes).need_sync
  <1>1. p \in Launch /\ p.at = at /\ at \in PieceVec
    BY ProgramLaunchType, ReserveType DEF ProgramLaunch, PieceVec, TypeOK, Rings
  <1>2. ConfigCmd(p) \in Command /\ LaunchCmd(p, n) \in Command /\ WaitCmd(n, FALSE) \in Command
    BY <1>1, CommandTypes
  <1>3. ProgramCmds(sizes, n) = write_program(p, n, stall)
    BY DEF ProgramCmds, ProgramLaunch
  <1>4. ~stall => \A i \in CoreTypes : Disjoint(at[i], RingPieces[i])
    BY ReserveBeside
  <1>5. RingPieces \in PieceVec /\ NoPieces \in PieceVec
    BY RingPiecesType DEF TypeOK, Rings
  <1> HIDE DEF p, at, stall
  <1>6. /\ ConfigCmd(p).op = "config" /\ ConfigCmd(p).prog = p
        /\ WaitCmd(n, FALSE).op = "wait"
        /\ LaunchCmd(p, n).op = "launch" /\ LaunchCmd(p, n).prog = p
    BY DEF ConfigCmd, WaitCmd, LaunchCmd
  <1>7. ASSUME NEW s \in PieceVec
        PROVE  /\ <<WaitCmd(n, FALSE), s, NoPieces>> \in PieceStep
               /\ <<LaunchCmd(p, n), s, at>> \in PieceStep
               /\ (\A i \in CoreTypes : Disjoint(at[i], s[i])) => <<ConfigCmd(p), s, s>> \in PieceStep
    BY <1>1, <1>2, <1>5, <1>6, PieceStepFacts DEF PiecesAfter
  <1>8. CASE stall
    <2>1. \A i \in CoreTypes : Disjoint(at[i], NoPieces[i])
      BY BesideNothing DEF NoPieces
    <2>2. Path(<<WaitCmd(n, FALSE), ConfigCmd(p), LaunchCmd(p, n)>>, PieceStep, PieceVec, RingPieces, at)
      BY <1>1, <1>5, <1>7, <2>1, PathThree
    <2> QED BY <1>3, <1>8, <2>2 DEF write_program, at
  <1>9. CASE ~stall
    <2>1. Path(<<ConfigCmd(p), WaitCmd(n, FALSE), LaunchCmd(p, n)>>, PieceStep, PieceVec, RingPieces, at)
      BY <1>1, <1>4, <1>5, <1>7, <1>9, PathThree
    <2> QED BY <1>3, <1>9, <2>1 DEF write_program, at
  <1> QED BY <1>8, <1>9

\* At the start no piece is reserved.
LEMMA PiecesInit == Init => PiecesInStep
  <1> SUFFICES ASSUME Init PROVE PiecesInStep
    OBVIOUS
  <1>1. RingPieces = NoPieces
    BY DEF Init, EmptyRing, RingPieces, NoPieces
  <1>2. NoPieces \in PieceVec
    BY DEF NoPieces, PieceVec, Piece
  <1>3. Path(devQ, PieceStep, PieceVec, NoPieces, RingPieces)
    BY <1>1, <1>2, PathEmpty DEF Init
  <1>4. \A i \in CoreTypes : Disjoint(loaded.at[i], NoPieces[i])
    BY BesideNothing DEF NoPieces
  <1>5. PiecesFrom(NoPieces)
    BY <1>3, <1>4 DEF PiecesFrom, Init
  <1> QED BY <1>2, <1>5 DEF PiecesInStep, Init

\* Without traces every step keeps the pieces in step.
LEMMA PiecesStep ==
    ASSUME ~Traces, TypeOK, WaitsForAll, RingsInStep, PiecesInStep, [Next]_vars
    PROVE  PiecesInStep'
  <1>1. PICK s \in PieceVec : PiecesFrom(s)
    BY DEF PiecesInStep
  <1>2. trace = NoTrace /\ ~recording /\ devQ \in Seq(Command)
    BY DEF PiecesInStep, TypeOK
  <1>3. RingPieces \in PieceVec /\ NoPieces \in PieceVec
    BY RingPiecesType DEF TypeOK, Rings
  <1>4. ASSUME enqueue_program
        PROVE  PiecesInStep'
    <2>1. PICK sizes \in Programs :
             /\ rings' = ProgramRings(sizes, expected)
             /\ devQ' = devQ \o ProgramCmds(sizes, expected)
      BY <1>4 DEF enqueue_program
    <2>2. expected \in Nat /\ ProgramCmds(sizes, expected) \in Seq(Command)
      BY ProgramTypes DEF TypeOK
    <2> DEFINE at == reserve(rings, sizes).at
    <2>3. at \in PieceVec
      BY ReserveType DEF TypeOK, Rings, PieceVec
    <2>4. Path(ProgramCmds(sizes, expected), PieceStep, PieceVec, RingPieces, at)
      BY <2>2, ProgramPieces
    <2>5. RingPieces' = at
      <3>1. ASSUME NEW i \in CoreTypes
            PROVE  RingPieces'[i] = at[i]
        <4> DEFINE new == rings'[i]
        <4>1. /\ new.free = rings[i].alloc /\ new.alloc = NextIndex(rings[i].alloc)
              /\ new.entries[new.free]
                    = [addr |-> at[i].addr, size |-> at[i].size, sync |-> expected + Cardinality(On(sizes))]
          BY <2>1, <2>2, ProgramHeld
        <4>2. new.free # new.alloc
          BY <4>1, NextIndexFacts DEF TypeOK, Ring
        <4>3. at[i] \in Piece
          BY <2>3 DEF PieceVec
        <4> HIDE DEF at
        <4>4. at[i] = [addr |-> at[i].addr, size |-> at[i].size]
          BY <4>3 DEF Piece
        <4>5. new.entries[new.free].addr = at[i].addr /\ new.entries[new.free].size = at[i].size
          BY <4>1
        <4> QED BY <4>2, <4>4, <4>5 DEF RingPieces
      <3>2. RingPieces' = [i \in CoreTypes |-> RingPieces'[i]] /\ at = [i \in CoreTypes |-> at[i]]
        BY <2>3 DEF RingPieces, PieceVec
      <3> HIDE DEF at
      <3> QED BY <3>1, <3>2
    <2> HIDE DEF at
    <2>6. Path(devQ', PieceStep, PieceVec, s, RingPieces')
      <3>1. Path(devQ, PieceStep, PieceVec, s, RingPieces)
        BY <1>1 DEF PiecesFrom
      <3> QED BY <1>2, <1>3, <2>1, <2>2, <2>3, <2>4, <2>5, <3>1, PathConcat
    <2>7. UNCHANGED <<running, loaded, trace>>
      BY <1>4 DEF enqueue_program
    <2>8. PiecesFrom(s)'
      BY <1>1, <2>6, <2>7 DEF PiecesFrom
    <2> QED BY <1>2, <2>7, <2>8 DEF PiecesInStep
  <1>5. ASSUME DeviceStep
        PROVE  PiecesInStep'
    <2>1. devQ # <<>> /\ devQ' = Tail(devQ) /\ UNCHANGED <<rings, trace>>
      BY <1>5 DEF DeviceStep, DispatchConfig, DispatchWait, DispatchLaunch, DispatchReset, NextIs, hostVars
    <2> DEFINE c == Head(devQ)
    <2>2. c \in Command /\ c.on \in SUBSET CoreTypes /\ c.prog \in Launch
      <3>1. c \in Command
        BY <2>1, HeadTailProperties DEF TypeOK
      <3> QED BY <3>1 DEF Command
    <2>3. PICK v \in PieceVec : <<c, s, v>> \in PieceStep /\ Path(Tail(devQ), PieceStep, PieceVec, v, RingPieces)
      BY <1>1, <1>2, <1>3, <2>1, PathTail DEF PiecesFrom
    <2>4. (c.op = "config" => \A i \in CoreTypes : Disjoint(c.prog.at[i], s[i])) /\ v = PiecesAfter(c, s)
      BY <2>2, <2>3, PieceStepFacts
    <2>5. \A i \in CoreTypes : /\ running'[i] \notin {Idle, Reset} => running'[i].at[i] = v[i]
                               /\ Disjoint(loaded'.at[i], v[i])
      <3>1. CASE DispatchConfig
        <4>1. c.op = "config" /\ running' = running /\ loaded' = c.prog
          BY <3>1 DEF DispatchConfig, NextIs
        <4>2. v = s
          BY <2>4, <4>1 DEF PiecesAfter
        <4> QED BY <1>1, <2>4, <4>1, <4>2 DEF PiecesFrom
      <3>2. ASSUME DispatchWait \/ DispatchLaunch \/ DispatchReset
            PROVE  \A i \in CoreTypes : running[i] = Idle
        BY <3>2, NothingBusy DEF Busy
      <3>3. CASE DispatchWait
        <4>1. c.op = "wait" /\ running' = running
          BY <3>3 DEF DispatchWait, NextIs
        <4>2. v = NoPieces
          BY <2>4, <4>1 DEF PiecesAfter
        <4>3. \A i \in CoreTypes : Disjoint(loaded'.at[i], v[i])
          BY <4>2, BesideNothing DEF NoPieces
        <4> QED BY <3>2, <3>3, <4>1, <4>3
      <3>4. CASE DispatchLaunch
        <4>1. /\ c.op = "launch" /\ loaded' = NoLaunch
              /\ running' = [i \in CoreTypes |-> IF i \in c.on THEN c.prog ELSE running[i]]
          BY <3>4 DEF DispatchLaunch, NextIs
        <4>2. v = c.prog.at
          BY <2>4, <4>1 DEF PiecesAfter
        <4>3. \A i \in CoreTypes : loaded'.at[i].size = 0
          BY <4>1 DEF NoLaunch
        <4>4. \A i \in CoreTypes : Disjoint(loaded'.at[i], v[i])
          BY <4>3, BesideNothing
        <4> QED BY <3>2, <3>4, <4>1, <4>2, <4>4
      <3>5. CASE DispatchReset
        <4>1. /\ c.op = "reset"
              /\ running' = [i \in CoreTypes |-> IF i \in c.on THEN Reset ELSE running[i]]
          BY <3>5 DEF DispatchReset, NextIs
        <4>2. v = NoPieces
          BY <2>4, <4>1 DEF PiecesAfter
        <4>3. \A i \in CoreTypes : Disjoint(loaded'.at[i], v[i])
          BY <4>2, BesideNothing DEF NoPieces
        <4> QED BY <3>2, <3>5, <4>1, <4>3
      <3> QED BY <1>5, <3>1, <3>3, <3>4, <3>5 DEF DeviceStep
    <2>6. RingPieces' = RingPieces
      BY <2>1 DEF RingPieces
    <2>7. PiecesFrom(v)'
      BY <2>1, <2>3, <2>5, <2>6 DEF PiecesFrom
    <2> QED BY <1>2, <2>1, <2>3, <2>7 DEF PiecesInStep
  <1>6. ASSUME NEW i \in CoreTypes, WorkerDone(i) \/ WorkerReset(i)
        PROVE  PiecesInStep'
    <2>1. UNCHANGED <<rings, trace, devQ, loaded>> /\ running' = [running EXCEPT ![i] = Idle]
      BY <1>6 DEF WorkerDone, WorkerReset, hostVars
    <2>2. \A j \in CoreTypes : running'[j] = Idle \/ running'[j] = running[j]
      BY <2>1 DEF TypeOK
    <2>3. RingPieces' = RingPieces
      BY <2>1 DEF RingPieces
    <2>4. PiecesFrom(s)'
      BY <1>1, <2>1, <2>2, <2>3 DEF PiecesFrom
    <2> QED BY <1>2, <2>1, <2>4 DEF PiecesInStep
  <1>7. ASSUME UNCHANGED vars
        PROVE  PiecesInStep'
    <2>1. UNCHANGED <<rings, trace, devQ, loaded, running>>
      BY <1>7 DEF vars, hostVars, deviceVars
    <2>2. RingPieces' = RingPieces
      BY <2>1 DEF RingPieces
    <2>3. PiecesFrom(s)'
      BY <1>1, <2>1, <2>2 DEF PiecesFrom
    <2> QED BY <1>2, <2>1, <2>3 DEF PiecesInStep
  <1>8. ~(trace_program \/ record_begin \/ record_end \/ enqueue_trace \/ release_trace)
    BY <1>2 DEF trace_program, record_begin, record_end, enqueue_trace, release_trace
  <1> QED
    BY <1>4, <1>5, <1>6, <1>7, <1>8 DEF Next, HostStep

\* ConfigIntact: without traces the configuration of a program that runs is never overwritten, for
\* every size of the rings and of the programs: a program whose configuration is written before the
\* wait lies beside the only program that can still run, and any other is written after the wait.
THEOREM ConfigIntactHolds ==
    ASSUME ~Traces
    PROVE  Spec => []ConfigIntact
  <1>1. TypeOK /\ WaitsForAll /\ RingsInStep /\ PiecesInStep /\ [Next]_vars => PiecesInStep'
    BY PiecesStep
  <1>2. PiecesInStep => ConfigIntact
    BY DEF PiecesInStep, PiecesFrom, ConfigIntact
  <1> QED BY <1>1, <1>2, PiecesInit, TypeCorrect, WaitsForAllHolds, OneProgramHeld, PTL DEF Spec

==============================================================================
