---------------------------- MODULE SystemProofs ----------------------------
(***************************************************************************)
(* Proofs about System, for every address map, limit, skip count and set   *)
(* of accesses.                                                            *)
(***************************************************************************)
EXTENDS System, SequenceTheorems, WellFoundedInduction, TLAPS

Chars == {acc.value : acc \in Guest} \cup {0}
Records == [io : {0, 1}, events : BOOLEAN]

\* What was sent and not printed waits in one of the two transmitters.
OutputInv ==
    /\ console \in Seq(Chars) /\ written \in Seq(Chars) /\ txChars \in Seq(Chars)
    /\ txChar \in Chars
    /\ printCount \in Nat
    /\ printCount <= Len(txChars) /\ Len(txChars) <= printCount + 1
    /\ txChar # 0 => printCount = Len(txChars)
    /\ written = (console \o PrintTx16550) \o PrintTx

\* The three counts of the loop, and the verdict.
CountInv ==
    /\ limit \in Limits /\ hostIo \in BOOLEAN /\ gdb \in BOOLEAN /\ skip \in Skips
    /\ phase \in {"run", "idle", "continue", "over"}
    /\ stopped \in {"not", "limit", "host", "breakpoint", "throw"}
    /\ cycle \in Nat /\ executed \in Nat /\ cycle <= executed
    /\ trace \in Seq(Records)
    /\ ~gdb => phase \in {"run", "over"} /\ (limit # CycleForever => executed <= limit)
    /\ phase = "run" =>
          /\ stopped = "not" /\ cycle = executed
          /\ limit # CycleForever => executed <= limit
          /\ Len(trace) = Dumped
          /\ hostIo => \A i \in 1 .. Len(trace) : trace[i].io = 0 /\ trace[i].events
    /\ phase = "over" /\ ~gdb /\ stopped = "limit" => Len(trace) = Dumped
    /\ phase = "over" /\ ~gdb /\ stopped = "host" =>
          /\ Len(trace) = Dumped + (IF executed >= skip THEN 1 ELSE 0)
          /\ executed >= skip =>
                /\ trace[Len(trace)].io # 0 /\ ~trace[Len(trace)].events
                /\ \A i \in 1 .. Len(trace) - 1 : trace[i].io = 0 /\ trace[i].events

-----------------------------------------------------------------------------
(* Output.                                                                 *)

\* What the newest cycle left in the two buffers is what it sent.
LEMMA Waiting ==
    ASSUME NEW T, NEW buffer \in Seq(T), NEW c \in T
    PROVE  /\ SubSeq(buffer, Len(buffer) + 1, Len(buffer)) = <<>>
           /\ SubSeq(Append(buffer, c), Len(buffer) + 1, Len(Append(buffer, c))) = <<c>>
  <1>1. Len(buffer) \in Nat
    BY LenProperties
  <1>2. SubSeq(buffer, Len(buffer) + 1, Len(buffer)) = <<>>
    BY <1>1, SubSeqEmpty
  <1>3. Append(buffer, c) \in Seq(T) /\ Len(Append(buffer, c)) = Len(buffer) + 1
        /\ Append(buffer, c)[Len(buffer) + 1] = c
    BY AppendProperties
  <1>4. SubSeq(Append(buffer, c), Len(buffer) + 1, Len(buffer) + 1)
            = SubSeq(Append(buffer, c), Len(buffer) + 1, Len(buffer)) \o <<c>>
    BY <1>1, <1>3, SubSeqRecursiveSecond
  <1>5. SubSeq(Append(buffer, c), Len(buffer) + 1, Len(buffer)) = <<>>
    BY <1>1, SubSeqEmpty
  <1>6. <<c>> \in Seq(T) /\ <<>> \o <<c>> = <<c>>
    BY ConcatEmptySeq
  <1>7. SubSeq(Append(buffer, c), Len(buffer) + 1, Len(Append(buffer, c))) = <<c>>
    BY <1>3, <1>4, <1>5, <1>6
  <1> QED
    BY <1>2, <1>7

LEMMA PrefixOfConcat ==
    ASSUME NEW T, NEW s \in Seq(T), NEW t \in Seq(T)
    PROVE  IsPrefix(s, s \o t) /\ Len(s \o t) = Len(s) + Len(t)
  <1>1. /\ Len(s) \in Nat /\ Len(t) \in Nat /\ s \o t \in Seq(T)
        /\ Len(s \o t) = Len(s) + Len(t)
        /\ \A i \in 1 .. Len(s) : (s \o t)[i] = s[i]
    BY LenProperties, ConcatProperties
  <1>2. /\ \A i \in 1 .. Len(s) : s[i] \in T
        /\ \A i \in 1 .. Len(s) : (s \o t)[i] \in T
    BY <1>1, ElementOfSeq
  <1>3. /\ SubSeq(s, 1, Len(s)) \in Seq(T) /\ Len(SubSeq(s, 1, Len(s))) = Len(s)
        /\ \A i \in 1 .. Len(s) : SubSeq(s, 1, Len(s))[i] = s[i]
    BY <1>1, <1>2, SubSeqProperties
  <1>4. /\ SubSeq(s \o t, 1, Len(s)) \in Seq(T) /\ Len(SubSeq(s \o t, 1, Len(s))) = Len(s)
        /\ \A i \in 1 .. Len(s) : SubSeq(s \o t, 1, Len(s))[i] = (s \o t)[i]
    BY <1>1, <1>2, SubSeqProperties
  <1>5. SubSeq(s, 1, Len(s)) = SubSeq(s \o t, 1, Len(s))
    BY <1>1, <1>3, <1>4, SeqEqual
  <1> QED
    BY <1>1, <1>5 DEF IsPrefix

\* A cycle prints what waited, and what it sends waits.
LEMMA CycleOutput ==
    ASSUME OutputInv, NEW acc \in Guest, Cycle(acc)
    PROVE  OutputInv'
  <1> DEFINE loc == Route[acc]
             to16550 == StoreAt(acc, loc, "uart16550", 0) /\ ~dlab /\ acc.value # 0
             toUart == StoreAt(acc, loc, "uart", 0)
  <1>1. acc.value \in Chars /\ 0 \in Chars
    BY DEF Chars
  <1>2. console' = written /\ printCount' = Len(txChars)
    BY DEF Cycle, OutputInv
  <1>3. /\ written \in Seq(Chars) /\ txChars \in Seq(Chars) /\ Len(txChars) \in Nat
    BY LenProperties DEF OutputInv
  <1>4. /\ Append(txChars, acc.value) \in Seq(Chars)
        /\ Len(Append(txChars, acc.value)) = Len(txChars) + 1
        /\ <<acc.value>> \in Seq(Chars) /\ written \o <<acc.value>> \in Seq(Chars)
    BY <1>1, <1>3, AppendProperties, ConcatProperties
  <1>5. written \o <<>> = written
    BY <1>3, ConcatEmptySeq
  <1>6. CASE acc \in Throws \/ (~to16550 /\ ~toUart)
    <2>1. txChar' = 0 /\ txChars' = txChars /\ written' = written
      BY <1>5, <1>6 DEF Cycle, Uart16550Write, UartWrite, Sent
    <2>2. PrintTx16550' = <<>> /\ PrintTx' = <<>>
      BY <1>1, <1>2, <1>3, <2>1, Waiting DEF PrintTx16550, PrintTx
    <2> QED
      BY <1>1, <1>2, <1>3, <1>5, <2>1, <2>2 DEF OutputInv
  <1>7. CASE acc \notin Throws /\ to16550
    <2>1. /\ txChar' = acc.value /\ txChars' = txChars
          /\ written' = written \o <<acc.value>>
      BY <1>7 DEF Cycle, Uart16550Write, UartWrite, Sent, StoreAt
    <2>2. PrintTx16550' = <<acc.value>> /\ PrintTx' = <<>>
      BY <1>1, <1>2, <1>3, <1>7, <2>1, Waiting DEF PrintTx16550, PrintTx
    <2>3. (written \o <<acc.value>>) \o <<>> = written \o <<acc.value>>
      BY <1>4, ConcatEmptySeq
    <2> QED
      BY <1>1, <1>2, <1>3, <1>4, <2>1, <2>2, <2>3 DEF OutputInv
  <1>8. CASE acc \notin Throws /\ toUart
    <2>1. /\ txChar' = 0 /\ txChars' = Append(txChars, acc.value)
          /\ written' = written \o <<acc.value>>
      BY <1>8 DEF Cycle, Uart16550Write, UartWrite, Sent, StoreAt
    <2>2. PrintTx16550' = <<>> /\ PrintTx' = <<acc.value>>
      BY <1>1, <1>2, <1>3, <2>1, Waiting DEF PrintTx16550, PrintTx
    <2> QED
      BY <1>1, <1>2, <1>3, <1>4, <1>5, <2>1, <2>2 DEF OutputInv
  <1> QED
    BY <1>6, <1>7, <1>8

LEMMA OutputQuiet ==
    ASSUME OutputInv, UNCHANGED <<devices, console, written>>
    PROVE  OutputInv'
  BY DEF OutputInv, PrintTx16550, PrintTx, devices

LEMMA OutputInductive == Spec => []OutputInv
  <1>1. Init => OutputInv
    <2> SUFFICES ASSUME Init PROVE OutputInv
      OBVIOUS
    <2>1. <<>> \in Seq(Chars) /\ Len(<<>>) = 0 /\ <<>> \o <<>> = <<>>
      BY EmptySeq, ConcatEmptySeq
    <2>2. SubSeq(<<>>, 1, 0) = <<>>
      BY SubSeqEmpty
    <2> QED BY <2>1, <2>2 DEF Init, OutputInv, PrintTx16550, PrintTx, Chars
  <1>2. OutputInv /\ [Next]_vars => OutputInv'
    <2> SUFFICES ASSUME OutputInv, [Next]_vars PROVE OutputInv'
      OBVIOUS
    <2>1. CASE LoopLimit \/ LoopStop \/ Continue \/ UNCHANGED vars
      BY <2>1, OutputQuiet DEF LoopLimit, LoopStop, Continue, vars, devices, observed
    <2>2. ASSUME NEW acc \in Guest, Cycle(acc) PROVE OutputInv'
      BY <2>2, CycleOutput
    <2>3. CASE \E acc \in Guest, brk \in BOOLEAN : LoopCycle(acc, brk)
      BY <2>2, <2>3 DEF LoopCycle
    <2>4. CASE \E acc \in Guest : Step(acc)
      BY <2>2, <2>4 DEF Step
    <2> QED
      BY <2>1, <2>3, <2>4 DEF Next, Loop
  <1> QED BY <1>1, <1>2, PTL DEF Spec

\* The console shows what the guest sent to the two transmitters, in order; at
\* most the newest character waits.
THEOREM OutputIsInOrder == Spec => []OutputInOrder
  <1>1. ASSUME OutputInv PROVE OutputInOrder
    <2>0. console \in Seq(Chars) /\ written \in Seq(Chars) /\ txChars \in Seq(Chars)
          /\ Len(console) \in Nat /\ Len(txChars) \in Nat /\ txChar \in Chars
          /\ written = (console \o PrintTx16550) \o PrintTx
          /\ printCount \in Nat
          /\ printCount <= Len(txChars) /\ Len(txChars) <= printCount + 1
      BY <1>1, LenProperties DEF OutputInv
    <2>1. CASE txChar # 0
      <3>1. PrintTx16550 = <<txChar>> /\ printCount = Len(txChars)
        BY <1>1, <2>1 DEF PrintTx16550, OutputInv
      <3>2. PrintTx = <<>>
        BY <2>0, <3>1, Waiting DEF PrintTx
      <3>3. written = Append(console, txChar)
        BY <2>0, <3>1, <3>2, AppendIsConcat, AppendProperties, ConcatEmptySeq
      <3>4. <<txChar>> \in Seq(Chars) /\ Len(<<txChar>>) = 1
            /\ written = console \o <<txChar>>
        BY <2>0, <3>3, AppendIsConcat
      <3>5. IsPrefix(console, written) /\ Len(written) = Len(console) + 1
        BY <2>0, <3>4, PrefixOfConcat
      <3> QED
        BY <2>0, <3>3, <3>5 DEF OutputInOrder
    <2>2. CASE txChar = 0 /\ printCount = Len(txChars)
      <3>1. PrintTx16550 = <<>> /\ PrintTx = <<>>
        BY <2>0, <2>2, Waiting DEF PrintTx16550, PrintTx
      <3>2. written = console
        BY <2>0, <3>1, ConcatEmptySeq
      <3> QED
        BY <2>0, <2>2, <3>2 DEF OutputInOrder, IsPrefix
    <2>3. CASE txChar = 0 /\ Len(txChars) = printCount + 1
      <3>1. PrintTx16550 = <<>>
        BY <2>3 DEF PrintTx16550
      <3>2. \A i \in 1 .. Len(txChars) : txChars[i] \in Chars
        BY <2>0, ElementOfSeq
      <3>3. PrintTx \in Seq(Chars) /\ Len(PrintTx) = 1
        BY <2>0, <2>3, <3>2, SubSeqProperties DEF PrintTx
      <3>4. written = console \o PrintTx
        BY <2>0, <3>1, ConcatEmptySeq
      <3>5. IsPrefix(console, written) /\ Len(written) = Len(console) + 1
        BY <2>0, <3>3, <3>4, PrefixOfConcat
      <3> QED
        BY <2>0, <2>3, <3>5 DEF OutputInOrder
    <2> QED BY <2>0, <2>1, <2>2, <2>3
  <1> QED BY <1>1, OutputInductive, PTL

-----------------------------------------------------------------------------
(* The counts of the loop and the verdict.                                 *)

LEMMA CountTypes ==
    ASSUME CountInv
    PROVE  /\ cycle \in Nat /\ executed \in Nat /\ skip \in Int /\ limit \in Int
           /\ trace \in Seq(Records) /\ Len(trace) \in Nat
  <1>1. cycle \in Nat /\ executed \in Nat /\ trace \in Seq(Records)
    BY DEF CountInv
  <1>2. limit \in Int /\ skip \in Int
    BY LimitAssumption, SkipAssumption DEF CountInv, CycleForever
  <1> QED BY <1>1, <1>2, LenProperties

LEMMA AppendRecord ==
    ASSUME trace \in Seq(Records), NEW r \in Records
    PROVE  /\ Append(trace, r) \in Seq(Records)
           /\ Len(Append(trace, r)) = Len(trace) + 1
           /\ \A i \in 1 .. Len(trace) : Append(trace, r)[i] = trace[i]
           /\ Append(trace, r)[Len(trace) + 1] = r
  BY AppendProperties

LEMMA CountInductive == Spec => []CountInv
  <1> USE LimitAssumption, SkipAssumption
  <1>1. Init => CountInv
    BY EmptySeq DEF Init, CountInv, Dumped, CycleForever
  <1>2. CountInv /\ [Next]_vars => CountInv'
    <2> SUFFICES ASSUME CountInv, [Next]_vars PROVE CountInv'
      OBVIOUS
    <2>0. /\ cycle \in Nat /\ executed \in Nat /\ skip \in Int /\ limit \in Int
          /\ trace \in Seq(Records) /\ Len(trace) \in Nat
      BY CountTypes
    <2>1. CASE LoopLimit
      BY <2>0, <2>1 DEF CountInv, LoopLimit, Leave, options, Looping, Goes, Bound, Dumped, CycleForever
    <2>2. CASE LoopStop
      <3>0. GetHostIoValue \in {0, 1} /\ GetHostIoValue # 0 /\ phase = "run" /\ hostIo
        BY <2>2 DEF GetHostIoValue, LoopStop, StopPre
      <3>1. PICK r \in Records :
                /\ ~r.events /\ r.io # 0
                /\ trace' = IF DumpEnabled THEN Append(trace, r) ELSE trace
        BY <2>2, <3>0 DEF Record, Records, LoopStop
      <3>2. /\ Append(trace, r) \in Seq(Records)
            /\ Len(Append(trace, r)) = Len(trace) + 1
            /\ \A i \in 1 .. Len(trace) : Append(trace, r)[i] = trace[i]
            /\ Append(trace, r)[Len(trace) + 1] = r
        BY <2>0, AppendRecord
      <3>3. /\ UNCHANGED <<limit, hostIo, gdb, skip, cycle, executed>> /\ stopped' = "host"
            /\ phase' = IF gdb THEN "idle" ELSE "over"
        BY <2>2, <3>0 DEF LoopStop, Leave, options
      <3>4. Len(trace) = Dumped /\ Dumped' = Dumped /\ cycle = executed
        BY <3>0, <3>3 DEF CountInv, Dumped
      <3>5. trace' \in Seq(Records)
        BY <2>0, <3>1, <3>2
      <3>6. executed >= skip =>
               /\ trace' = Append(trace, r) /\ Len(trace') = Dumped + 1
               /\ trace'[Len(trace')] = r
               /\ \A i \in 1 .. Len(trace') - 1 : trace'[i].io = 0 /\ trace'[i].events
        BY <2>0, <3>0, <3>1, <3>2, <3>4 DEF CountInv, DumpEnabled
      <3>7. executed < skip => trace' = trace
        BY <2>0, <3>1, <3>4 DEF DumpEnabled
      <3>8. Len(trace') = Dumped' + (IF executed' >= skip' THEN 1 ELSE 0)
        BY <2>0, <3>3, <3>4, <3>6, <3>7
      <3> QED
        BY <2>0, <3>0, <3>1, <3>3, <3>5, <3>6, <3>8 DEF CountInv
    <2>3. ASSUME NEW acc \in Guest, NEW brk \in BOOLEAN, LoopCycle(acc, brk)
          PROVE  CountInv'
      <3>0. GetHostIoValue \in {0, 1} /\ (phase = "run" /\ hostIo => GetHostIoValue = 0)
        BY <2>3 DEF GetHostIoValue, LoopCycle, StopPre
      <3>1. PICK r \in Records :
                /\ r.events /\ (phase = "run" /\ hostIo => r.io = 0)
                /\ acc \notin Throws =>
                      trace' = IF DumpEnabled THEN Append(trace, r) ELSE trace
        <4> DEFINE q == [io |-> GetHostIoValue, events |-> TRUE]
        <4>1. q \in Records /\ q.events /\ q.io = GetHostIoValue
          BY <3>0 DEF Records
        <4>2. acc \notin Throws => trace' = IF DumpEnabled THEN Append(trace, q) ELSE trace
          BY <2>3 DEF LoopCycle, Record
        <4> HIDE DEF q
        <4> QED BY <3>0, <4>1, <4>2
      <3>2. /\ Append(trace, r) \in Seq(Records)
            /\ Len(Append(trace, r)) = Len(trace) + 1
            /\ \A i \in 1 .. Len(trace) : Append(trace, r)[i] = trace[i]
            /\ Append(trace, r)[Len(trace) + 1] = r
        BY <2>0, AppendRecord
      <3>3. /\ executed' = executed + 1 /\ UNCHANGED <<limit, hostIo, gdb, skip>>
            /\ phase \in {"run", "continue"}
            /\ phase = "run" => cycle < limit \/ limit = CycleForever
        BY <2>3 DEF LoopCycle, Cycle, options, Goes, Looping, Bound
      <3>4. ~gdb => phase = "run"
        BY <3>3 DEF CountInv
      <3>5. phase = "run" /\ limit # CycleForever => executed' <= limit
        BY <2>0, <3>3 DEF CountInv
      <3>6. CASE acc \in Throws
        <4>1. phase' = "over" /\ stopped' = "throw" /\ UNCHANGED <<cycle, trace>>
          BY <2>3, <3>6 DEF LoopCycle
        <4> QED
          BY <2>0, <3>3, <3>4, <3>5, <4>1 DEF CountInv
      <3>7. CASE acc \notin Throws /\ brk
        <4>1. /\ phase = "continue" /\ gdb /\ phase' = "idle" /\ stopped' = "breakpoint"
              /\ UNCHANGED cycle
          BY <2>3, <3>4, <3>7 DEF LoopCycle, Leave, CountInv
        <4>2. trace' \in Seq(Records)
          BY <2>0, <3>1, <3>2, <3>7
        <4> QED
          BY <2>0, <3>3, <4>1, <4>2 DEF CountInv
      <3>8. CASE acc \notin Throws /\ ~brk
        <4>1. cycle' = cycle + 1 /\ UNCHANGED <<phase, stopped>>
          BY <2>3, <3>8 DEF LoopCycle
        <4>2. trace' \in Seq(Records)
          BY <2>0, <3>1, <3>2, <3>8
        <4>3. phase = "run" => Len(trace') = Dumped'
          <5>1. SUFFICES ASSUME phase = "run" PROVE Len(trace') = Dumped'
            OBVIOUS
          <5>2. Len(trace) = Dumped /\ cycle = executed
            BY <5>1 DEF CountInv
          <5>3. CASE cycle >= skip
            <6>1. Len(trace') = Len(trace) + 1
              BY <3>1, <3>2, <3>8, <5>3 DEF DumpEnabled
            <6> QED BY <2>0, <3>3, <5>2, <5>3, <6>1 DEF Dumped
          <5>4. CASE ~(cycle >= skip)
            <6>1. trace' = trace
              BY <3>1, <3>8, <5>4 DEF DumpEnabled
            <6> QED BY <2>0, <3>3, <5>2, <5>4, <6>1 DEF Dumped
          <5> QED BY <5>3, <5>4
        <4>4. phase = "run" /\ hostIo =>
                 \A i \in 1 .. Len(trace') : trace'[i].io = 0 /\ trace'[i].events
          BY <2>0, <3>1, <3>2, <3>8 DEF CountInv
        <4> QED
          BY <2>0, <3>3, <3>4, <3>5, <4>1, <4>2, <4>3, <4>4 DEF CountInv
      <3> QED BY <3>6, <3>7, <3>8
    <2>4. CASE Continue
      BY <2>0, <2>4 DEF CountInv, Continue, options
    <2>5. ASSUME NEW acc \in Guest, Step(acc) PROVE CountInv'
      BY <2>0, <2>5 DEF CountInv, Step, Cycle, options
    <2>6. CASE UNCHANGED vars
      BY <2>6 DEF CountInv, vars, Dumped
    <2> QED
      BY <2>1, <2>2, <2>3, <2>4, <2>5, <2>6 DEF Next, Loop
  <1> QED BY <1>1, <1>2, PTL DEF Spec

\* The count main prints, the records of the trace and the host I/O value in
\* the last of them agree with the cycles Emulator::Process ran.
THEOREM TraceMatches == Spec => []TraceMatchesRun
  <1>1. ASSUME CountInv PROVE TraceMatchesRun
    <2>1. /\ cycle \in Nat /\ executed \in Nat /\ skip \in Int
          /\ trace \in Seq(Records) /\ Len(trace) \in Nat
      BY <1>1, LenProperties, SkipAssumption DEF CountInv
    <2>2. CycleIsHonest
      BY <1>1, <2>1 DEF CountInv, CycleIsHonest
    <2>3. VerdictIsRecorded
      BY <1>1, <2>1, EmptySeq DEF CountInv, VerdictIsRecorded, Last, Dumped
    <2> QED
      BY <1>1, <2>1, <2>2, <2>3 DEF CountInv, TraceMatchesRun
  <1> QED BY <1>1, CountInductive, PTL

-----------------------------------------------------------------------------
(* Stray accesses.                                                         *)

LEMMA RegionTypes ==
    \A j \in DOMAIN Regions : /\ Regions[j].base \in Nat /\ Regions[j].size \in Nat
                               /\ Regions[j].memory \in BOOLEAN /\ j \in Nat
  <1> DEFINE R == [name : STRING, memory : BOOLEAN, base : Nat, size : Nat]
  <1>1. Regions \in Seq(R)
    BY RegionAssumption
  <1> HIDE DEF R
  <1>2. Regions \in [1 .. Len(Regions) -> R] /\ Len(Regions) \in Nat
    BY <1>1, LenProperties
  <1>3. \A j \in DOMAIN Regions : Regions[j] \in R /\ j \in Nat
    BY <1>2
  <1> QED BY <1>3 DEF R

\* The memory a byte is routed to is the only one that has it.
LEMMA MemoryLocation ==
    ASSUME NEW a \in Nat, NEW k \in DOMAIN Regions,
           Regions[k].memory, Covers(Regions[k], a, 1)
    PROVE  Location(TRUE, a) = [name |-> Regions[k].name, offset |-> a - Regions[k].base,
                                size |-> Regions[k].size]
  <1> DEFINE S == {j \in DOMAIN Regions : /\ Regions[j].memory = TRUE
                                          /\ Covers(Regions[j], a, 1)}
  <1>1. \A j \in DOMAIN Regions : /\ Regions[j].base \in Nat /\ Regions[j].size \in Nat
                                   /\ Regions[j].memory \in BOOLEAN /\ j \in Nat
    BY RegionTypes
  <1>2. ASSUME NEW j \in S, j # k PROVE FALSE
    <2>1. Regions[j].memory /\ Covers(Regions[j], a, 1) /\ j \in DOMAIN Regions
      BY <1>2
    <2>2. \/ Regions[j].base + Regions[j].size <= Regions[k].base
          \/ Regions[k].base + Regions[k].size <= Regions[j].base
      BY <1>2, <2>1, RegionAssumption
    <2> QED BY <1>1, <2>1, <2>2 DEF Covers
  <1>3. k \in S
    OBVIOUS
  <1>4. S = {k} /\ k \in Nat
    BY <1>1, <1>2, <1>3
  <1>5. Min(S) = k
    BY <1>4 DEF Min
  <1> QED BY <1>5 DEF Location

\* An aligned access of n bytes that begins in the RAM ends in it.
LEMMA AlignedFits ==
    ASSUME NEW base \in Nat, NEW size \in Nat, NEW a \in Nat, NEW n \in {1, 2, 4, 8},
           base % 8 = 0, size % n = 0, a % n = 0, base <= a, a < base + size
    PROVE  a - base + n <= size
  <1>1. CASE n = 1
    BY <1>1
  <1>2. CASE n = 2
    BY <1>2
  <1>3. CASE n = 4
    BY <1>3
  <1>4. CASE n = 8
    BY <1>4
  <1> QED BY <1>1, <1>2, <1>3, <1>4

LEMMA RamIs ==
    \E k \in DOMAIN Regions :
        /\ Regions[k].name = "ram" /\ Regions[k].memory /\ Regions[k].base % 8 = 0
        /\ \A j \in DOMAIN Regions : Regions[j].name = "ram" => j = k
        /\ RamSize = Regions[k].size
  <1>1. PICK k \in DOMAIN Regions :
            /\ Regions[k].name = "ram" /\ Regions[k].memory /\ Regions[k].base % 8 = 0
            /\ \A j \in DOMAIN Regions : Regions[j].name = "ram" => j = k
    BY RegionAssumption
  <1>2. {r.size : r \in {x \in Range(Regions) : x.name = "ram"}} = {Regions[k].size}
    BY <1>1 DEF Range
  <1>3. Regions[k].size \in Nat
    BY RegionTypes
  <1>4. RamSize = Regions[k].size
    BY <1>2, <1>3 DEF RamSize, Min
  <1> QED BY <1>1, <1>4

LEMMA LeastOf ==
    ASSUME NEW S, S \subseteq Nat, S # {}
    PROVE  Min(S) \in S
  <1> DEFINE R == {p \in Nat \X Nat : p[1] < p[2]}
  <1>1. OpToRel(<, Nat) = R
    BY DEF OpToRel
  <1>2. IsWellFoundedOn(R, Nat)
    BY <1>1, NatLessThanWellFounded
  <1> HIDE DEF R
  <1>3. PICK x \in S : \A y \in S : <<y, x>> \notin R
    BY <1>2, WFMin
  <1>4. \A y \in S : x <= y
    <2>1. TAKE y \in S
    <2>2. <<y, x>> \in Nat \X Nat /\ ~(y < x)
      BY <1>3 DEF R
    <2> QED BY <2>2
  <1>5. \E z \in S : \A y \in S : z <= y
    BY <1>4
  <1> QED BY <1>5 DEF Min

\* What ConvertToIoLocation yields for a byte of a device is a device.
LEMMA IoLocation ==
    ASSUME NEW a \in Nat, IsIoAddress(a, 1)
    PROVE  Location(FALSE, a).name # "ram"
  <1> DEFINE S == {j \in DOMAIN Regions : /\ Regions[j].memory = FALSE
                                          /\ Covers(Regions[j], a, 1)}
  <1>1. S \subseteq Nat /\ S # {}
    BY RegionTypes DEF IsIoAddress
  <1>2. PICK i : i = Min(S)
    OBVIOUS
  <1>3. i \in S
    BY <1>1, <1>2, LeastOf
  <1>4. Location(FALSE, a).name = Regions[i].name
    BY <1>2 DEF Location
  <1> QED BY <1>3, <1>4, RegionAssumption

\* Where an access that runs past its region comes from.
LEMMA StrayAccess ==
    ASSUME NEW acc \in Guest, Strays(acc, Route[acc]), acc # NoAccess
    PROVE  acc.store /\ (acc.addr % acc.size # 0 \/ RamSize % acc.size # 0)
  <1>1. /\ acc.store \in BOOLEAN /\ acc.addr \in Nat
        /\ acc.size \in {1, 2, 4, 8}
    BY AccessAssumption DEF Guest
  <1>2. PICK k \in DOMAIN Regions :
            /\ Regions[k].name = "ram" /\ Regions[k].memory /\ Regions[k].base % 8 = 0
            /\ \A j \in DOMAIN Regions : Regions[j].name = "ram" => j = k
            /\ RamSize = Regions[k].size
    BY RamIs
  <1>3. Regions[k].base \in Nat /\ Regions[k].size \in Nat
    BY RegionTypes
  <1> DEFINE a == acc.addr
             n == acc.size
             loc == Route[acc]
  <1>4. loc.name = "ram" /\ loc.offset + n > loc.size
    BY DEF Strays
  <1>5. loc = IF acc.store THEN Write(a, n) ELSE Read(a, n)
    BY DEF Route
  <1>6. \A i \in DOMAIN Regions : /\ Regions[i].base \in Nat
                                   /\ Regions[i].size \in Nat
    BY RegionTypes
  <1>7. ASSUME ~acc.store PROVE FALSE
    <2>1. loc = Read(a, n)
      BY <1>5, <1>7
    <2>2. CASE IsMemoryAddress(a, n)
      <3>1. PICK i \in DOMAIN Regions : Regions[i].memory /\ Covers(Regions[i], a, n)
        BY <2>2 DEF IsMemoryAddress
      <3>2. Covers(Regions[i], a, 1)
        BY <1>1, <1>6, <3>1 DEF Covers
      <3>3. loc = Location(TRUE, a)
        BY <2>1, <2>2 DEF Read
      <3>4. loc = [name |-> Regions[i].name, offset |-> a - Regions[i].base,
                   size |-> Regions[i].size]
        BY <1>1, <3>1, <3>2, <3>3, MemoryLocation
      <3> QED BY <1>1, <1>4, <1>6, <3>1, <3>4 DEF Covers
    <2>3. CASE ~IsMemoryAddress(a, n) /\ IsIoAddress(a, 1)
      BY <1>1, <1>4, <2>1, <2>3, IoLocation DEF Read
    <2>4. CASE ~IsMemoryAddress(a, n) /\ ~IsIoAddress(a, 1)
      BY <1>4, <2>1, <2>4 DEF Read, Nowhere
    <2> QED BY <2>2, <2>3, <2>4
  <1>8. ASSUME acc.store, a % n = 0, RamSize % n = 0 PROVE FALSE
    <2>1. loc = Write(a, n)
      BY <1>5, <1>8
    <2>2. CASE IsMemoryAddress(a, 1)
      <3>1. loc = Location(TRUE, a)
        BY <2>1, <2>2 DEF Write
      <3>2. PICK i \in DOMAIN Regions : Regions[i].memory /\ Covers(Regions[i], a, 1)
        BY <2>2 DEF IsMemoryAddress
      <3>3. loc = [name |-> Regions[i].name, offset |-> a - Regions[i].base,
                   size |-> Regions[i].size]
        BY <1>1, <3>1, <3>2, MemoryLocation
      <3>4. i = k
        BY <1>2, <1>4, <3>3
      <3>5. Regions[k].base <= a /\ a < Regions[k].base + Regions[k].size
        BY <1>1, <1>3, <3>2, <3>4 DEF Covers
      <3>6. a - Regions[k].base + n <= Regions[k].size
        BY <1>1, <1>2, <1>3, <1>8, <3>5, AlignedFits
      <3> QED BY <1>1, <1>3, <1>4, <3>3, <3>4, <3>6
    <2>3. CASE ~IsMemoryAddress(a, 1) /\ IsIoAddress(a, 1)
      BY <1>1, <1>4, <2>1, <2>3, IoLocation DEF Write
    <2>4. CASE ~IsMemoryAddress(a, 1) /\ ~IsIoAddress(a, 1)
      BY <1>4, <2>1, <2>4 DEF Write, Nowhere
    <2> QED BY <2>2, <2>3, <2>4
  <1> QED BY <1>1, <1>7, <1>8

\* Only a store can run past the end of the region Bus::Write chose for it,
\* and only if it is not aligned or the RAM ends within a word.
THEOREM StraysMisaligned == Spec => []StraysAreMisaligned
  <1>1. Init => StraysAreMisaligned
    BY DEF Init, StraysAreMisaligned
  <1>2. StraysAreMisaligned /\ [Next]_vars => StraysAreMisaligned'
    <2> SUFFICES ASSUME StraysAreMisaligned, [Next]_vars
                 PROVE  StraysAreMisaligned'
      OBVIOUS
    <2>1. ASSUME NEW acc \in Guest, Cycle(acc) PROVE StraysAreMisaligned'
      <3>1. stray' = IF Strays(acc, Route[acc]) THEN acc ELSE NoAccess
        BY <2>1 DEF Cycle
      <3> QED BY <2>1, <3>1, StrayAccess DEF StraysAreMisaligned
    <2>2. CASE UNCHANGED stray
      BY <2>2 DEF StraysAreMisaligned
    <2>3. ASSUME NEW acc \in Guest, NEW brk \in BOOLEAN, LoopCycle(acc, brk)
          PROVE  StraysAreMisaligned'
      BY <2>1, <2>3 DEF LoopCycle
    <2>4. ASSUME NEW acc \in Guest, Step(acc) PROVE StraysAreMisaligned'
      BY <2>1, <2>4 DEF Step
    <2> QED
      BY <2>2, <2>3, <2>4 DEF Next, Loop, LoopLimit, LoopStop, Continue, vars, observed
  <1> QED BY <1>1, <1>2, PTL DEF Spec

-----------------------------------------------------------------------------
(* The timer.                                                              *)

\* The hart's counter is the one the guest keeps. The property speaks of cycles
\* after a store; what the store leaves behind for them is this equation.
ClockInv ==
    /\ executed \in Nat /\ ahead \in Int
    /\ time = executed + ahead
    /\ TimerKeepsTime

\* The hart samples the counter after it ticks and before the guest's access:
\* the access finds the time sampled, and what it stores counts from the next
\* cycle on.
LEMMA CycleClock ==
    ASSUME ClockInv, NEW acc \in Guest, Cycle(acc)
    PROVE  ClockInv'
  <1> DEFINE loc == Route[acc]
             now == time + 1
             sets(off) == acc \notin Throws /\ StoreAt(acc, loc, "clint", off)
  <1>1. /\ executed \in Nat /\ ahead \in Int /\ time = executed + ahead
        /\ executed' = executed + 1
    BY DEF ClockInv, Cycle
  <1>2. now = executed' + ahead /\ now \in Int
    BY <1>1
  <1>3. /\ request' = (now >= timeCmp)
        /\ time' = IF sets(ADDR_MTIME) THEN acc.value ELSE now
        /\ ~sets(ADDR_MTIMECMP) => timeCmp' = timeCmp
        /\ seen' \in {now, NoTime}
    BY DEF Cycle, Request, ClintWrite, ReadTime
  <1>4. /\ ahead' = IF sets(ADDR_MTIME) THEN acc.value - executed' ELSE ahead
        /\ retimed' = (sets(ADDR_MTIME) \/ sets(ADDR_MTIMECMP))
    BY DEF Cycle, GuestClock
  <1>5. seen' # NoTime => ~sets(ADDR_MTIME)
    BY DEF Cycle, ReadTime, StoreAt
  <1>6. acc.value \in Nat
    BY AccessAssumption DEF Guest, NoAccess
  <1> HIDE DEF sets, now
  <1>7. executed' \in Nat /\ ahead' \in Int /\ time' = executed' + ahead'
    BY <1>1, <1>2, <1>3, <1>4, <1>6
  <1>8. ~retimed' => (request' <=> executed' + ahead' >= timeCmp')
    BY <1>2, <1>3, <1>4
  <1>9. seen' # NoTime => seen' = executed' + ahead'
    BY <1>2, <1>3, <1>4, <1>5
  <1> QED BY <1>7, <1>8, <1>9 DEF ClockInv, TimerKeepsTime

\* The timer request is up from exactly the cycle that a guest computes when it
\* stores mtime and mtimecmp and counts cycles, whoever runs them, and a guest
\* that reads mtime finds the time the request of that cycle was decided by.
THEOREM TimerKeeps == Spec => []TimerKeepsTime
  <1>1. Init => ClockInv
    BY DEF Init, ClockInv, TimerKeepsTime
  <1>2. ClockInv /\ [Next]_vars => ClockInv'
    <2> SUFFICES ASSUME ClockInv, [Next]_vars PROVE ClockInv'
      OBVIOUS
    <2>1. CASE UNCHANGED <<executed, time, timeCmp, request, ahead, retimed, seen>>
      BY <2>1 DEF ClockInv, TimerKeepsTime
    <2>2. CASE LoopLimit \/ LoopStop \/ Continue \/ UNCHANGED vars
      BY <2>1, <2>2 DEF LoopLimit, LoopStop, Continue, vars, devices, observed
    <2>3. ASSUME NEW acc \in Guest, NEW brk \in BOOLEAN, LoopCycle(acc, brk)
          PROVE  ClockInv'
      BY <2>3, CycleClock DEF LoopCycle
    <2>4. ASSUME NEW acc \in Guest, Step(acc) PROVE ClockInv'
      BY <2>4, CycleClock DEF Step
    <2> QED
      BY <2>2, <2>3, <2>4 DEF Next, Loop
  <1>3. ClockInv => TimerKeepsTime
    BY DEF ClockInv
  <1> QED BY <1>1, <1>2, <1>3, PTL DEF Spec
=============================================================================
