----------------------------- MODULE TraceTools -----------------------------
(* The programs that read a trace: rafi-dump, rafi-diff, rafi-conv and     *)
(* rafi-check-io, each a loop over a reader. rafi-diff compares an         *)
(* expected trace, a text or a gdb log, with the binary one.               *)
EXTENDS TraceIndex

CONSTANTS
    DumpOptions,    \* rafi-dump's options: [begin, count, end]
    Filters,        \* the filters rafi-dump may be given
    Expects,        \* the expected traces of rafi-diff: [format, cycles]
    Threshold       \* rafi-diff's option, contiguous mismatches to stop at

ASSUME ThresholdAssumption == Threshold \in Nat \ {0}

(* A file takes a record of rafi-conv, the longest of which has three      *)
(* nodes, and rafi-dump begins at no negative cycle.                       *)
ASSUME SizesAssumption ==
    /\ MaxFileSize >= 3
    /\ \A o \in DumpOptions : /\ o.begin \in Nat
                              /\ o.count \in Int /\ o.end \in Int

VARIABLE tool       \* the tool that runs, its options, its progress

vars == <<config, current, writer, state, reader, logged, tool>>

NoTool == [name |-> "none"]
Log == IndexLog(writer)

(* ---- rafi-dump -------------------------------------------------------- *)

(* A filter is [on, addr, physical, load, store]; on is "all", "pc" or     *)
(* "memory". A memory event is <<type, vaddr, paddr, size>>.               *)
Included(f, event) ==
    LET address == IF f.physical THEN event[3] ELSE event[2]
    IN  address <= f.addr /\ f.addr < address + event[4]

Checked(f, type) ==
    \/ f.load /\ type \in {"Instruction", "Load"}
    \/ f.store /\ type = "Store"

MemoryAccessFilter(f, cycle) ==
    \E i \in DOMAIN cycle.mems :
        Included(f, cycle.mems[i]) /\ Checked(f, cycle.mems[i][1])

Apply(f, cycle) ==
    \/ f.on = "all"
    \/ f.on = "pc" /\ cycle.pc = <<f.addr>>
    \/ f.on = "memory" /\ MemoryAccessFilter(f, cycle)

DumpEnd(o) == Min({o.begin + o.count, o.end})

(* PrintTrace up to its loop. A skip behind the last record throws.        *)
DumpStart(o, f) ==
    /\ state = "closed" /\ ~Reading /\ tool = NoTool
    /\ LET first == [entry |-> 1, offset |-> 0, cycle |-> 0]
           ok == o.begin = 0 \/ CanSkip(first, o.begin)
       IN  /\ reader' = IF o.begin > 0 /\ ok THEN SkipTo(first, o.begin)
                        ELSE first
           /\ tool' = [name |-> "dump", options |-> o, filter |-> f,
                       i |-> o.begin, printed |-> <<>>,
                       running |-> ok, failed |-> ~ok]
    /\ UNCHANGED <<config, current, writer, state, logged>>

DumpStep ==
    /\ tool.name = "dump" /\ tool.running
    /\ IF tool.i < DumpEnd(tool.options) /\ ~IsEnd(reader)
       THEN /\ tool' = [tool EXCEPT !.i = @ + 1,
                        !.printed = IF Apply(tool.filter, GetCycle(reader))
                                    THEN Append(@, GetCycle(reader)) ELSE @]
            /\ reader' = Next1(reader)
       ELSE tool' = [tool EXCEPT !.running = FALSE] /\ UNCHANGED reader
    /\ UNCHANGED <<config, current, writer, state, logged>>

(* ---- rafi-diff -------------------------------------------------------- *)

(* An expected trace is a sequence of cycles, each a sequence of literals  *)
(* [id, v] that ends at BREAK. A literal nobody knows ends the trace.      *)
Known(format) ==
    IF format = "gdb" THEN {"pc", "priv", "x"} ELSE {"BASIC", "INT", "FP"}
Parses(e, p) ==
    /\ p <= Len(e.cycles)
    /\ \A i \in DOMAIN e.cycles[p] : e.cycles[p][i].id \in Known(e.format)
ExpectIsEnd(e, p) == ~Parses(e, p)

(* TextCycle reads the registers of an FP literal into the integer ones;   *)
(* GdbCycle has zeros where the log names no register, and no pc.          *)
TextReg(tokens) ==
    LET regs == SelectSeq(tokens, LAMBDA t : t.id \in {"INT", "FP"})
    IN  IF regs = <<>> THEN <<>> ELSE Last(regs).v
GdbPc(tokens) ==
    LET pc == NewestOf(tokens, "pc") IN IF pc = <<>> THEN <<0>> ELSE pc
GdbReg(tokens) ==
    LET reg == NewestOf(tokens, "x") IN IF reg = <<>> THEN <<0>> ELSE reg

ExpectCycle(e, p) ==
    LET tokens == e.cycles[p]
    IN  IF e.format = "gdb"
        THEN [pc |-> GdbPc(tokens), reg |-> GdbReg(tokens)]
        ELSE [pc |-> NewestOf(tokens, "BASIC"), reg |-> TextReg(tokens)]

(* TextCycle::GetPc throws if the cycle had no BASIC line.                 *)
HasPc(e, p) == ExpectCycle(e, p).pc # <<>>

(* defect: a record without registers matches any other                    *)
IsMatchedLoosely(expect, actual) ==
    /\ expect.pc = actual.pc
    /\ expect.reg = <<>> \/ actual.reg = <<>> \/ expect.reg = actual.reg

IsMatched(expect, actual) ==
    /\ expect.pc = actual.pc
    /\ expect.reg # <<>> /\ actual.reg # <<>>
    /\ expect.reg = actual.reg

DiffStart(e, count) ==
    /\ state = "closed" /\ ~Reading /\ tool = NoTool
    /\ reader' = [entry |-> 1, offset |-> 0, cycle |-> 0]
    /\ tool' = [name |-> "diff", expect |-> e, count |-> count, i |-> 0,
                ep |-> 1, unmatched |-> 0, reported |-> {}, matched |-> <<>>,
                running |-> TRUE]
    /\ UNCHANGED <<config, current, writer, state, logged>>

DiffOver ==
    \/ tool.i >= tool.count
    \/ ExpectIsEnd(tool.expect, tool.ep)
    \/ IsEnd(reader)

DiffFinish ==
    /\ tool.name = "diff" /\ tool.running /\ DiffOver
    /\ tool' = [tool EXCEPT !.running = FALSE]
    /\ UNCHANGED <<config, current, writer, state, reader, logged>>

(* The comparison begins with the pc: main catches what GetPc throws.      *)
DiffThrow ==
    /\ tool.name = "diff" /\ tool.running /\ ~DiffOver
    /\ ~HasPc(tool.expect, tool.ep)
    /\ tool' = [tool EXCEPT !.running = FALSE]
    /\ UNCHANGED <<config, current, writer, state, reader, logged>>

Compared == IsMatched(ExpectCycle(tool.expect, tool.ep), GetCycle(reader))

(* A match moves both traces on, a mismatch the actual one only.           *)
DiffMatch ==
    /\ tool.name = "diff" /\ tool.running /\ ~DiffOver
    /\ HasPc(tool.expect, tool.ep) /\ Compared
    /\ tool' = [tool EXCEPT !.i = @ + 1, !.ep = @ + 1, !.unmatched = 0,
                            !.matched = Append(@, reader.cycle)]
    /\ reader' = Next1(reader)
    /\ UNCHANGED <<config, current, writer, state, logged>>

DiffMismatch ==
    /\ tool.name = "diff" /\ tool.running /\ ~DiffOver
    /\ HasPc(tool.expect, tool.ep) /\ ~Compared
    /\ LET stop == tool.unmatched + 1 = Threshold
       IN  /\ tool' = [tool EXCEPT !.i = @ + 1, !.unmatched = @ + 1,
                                   !.reported = @ \cup {reader.cycle},
                                   !.running = ~stop]
           /\ reader' = IF stop THEN reader ELSE Next1(reader)
    /\ UNCHANGED <<config, current, writer, state, logged>>

(* ---- rafi-conv -------------------------------------------------------- *)

ConvStart ==
    /\ state = "closed" /\ ~Reading /\ tool = NoTool
    /\ reader' = [entry |-> 1, offset |-> 0, cycle |-> 0]
    /\ tool' = [name |-> "conv", out |-> NewWriter, running |-> TRUE]
    /\ UNCHANGED <<config, current, writer, state, logged>>

(* Only the basic node and the integer registers are carried over.         *)
Converted(cycle) ==
    <<Node("BA", cycle.pc)>>
    \o (IF cycle.reg # <<>> THEN <<Node("IN", cycle.reg)>> ELSE <<>>)
    \o <<BR>>

ConvStep ==
    /\ tool.name = "conv" /\ tool.running
    /\ IF IsEnd(reader)
       THEN /\ tool' = [tool EXCEPT !.out = FlushData(@), !.running = FALSE]
            /\ UNCHANGED reader
       ELSE /\ tool' = [tool EXCEPT
                            !.out = Write(@, Converted(GetCycle(reader)))]
            /\ reader' = Next1(reader)
    /\ UNCHANGED <<config, current, writer, state, logged>>

(* ---- rafi-check-io ---------------------------------------------------- *)

ExpectedHostIoValue == <<1>>

CheckStart ==
    /\ state = "closed" /\ ~Reading /\ tool = NoTool
    /\ reader' = [entry |-> 1, offset |-> 0, cycle |-> 0]
    /\ tool' = [name |-> "check", hostIo |-> <<0>>, verdict |-> "none",
                running |-> TRUE]
    /\ UNCHANGED <<config, current, writer, state, logged>>

(* CopyIo of a record that has no I/O node copies from a null pointer.     *)
CheckStepStays ==        \* defect: the reader is not moved
    /\ tool.name = "check" /\ tool.running
    /\ tool' = IF IsEnd(reader) THEN [tool EXCEPT !.running = FALSE]
               ELSE [tool EXCEPT !.hostIo = GetCycle(reader).io]
    /\ UNCHANGED <<config, current, writer, state, logged, reader>>

CheckStep ==
    /\ tool.name = "check" /\ tool.running
    /\ IF IsEnd(reader)
       THEN /\ tool' = [tool EXCEPT !.running = FALSE, !.verdict =
                            IF tool.hostIo = ExpectedHostIoValue THEN "pass"
                            ELSE "failed"]
            /\ UNCHANGED reader
       ELSE IF GetCycle(reader).io = <<>>
       THEN /\ tool' = [tool EXCEPT !.running = FALSE, !.verdict = "crash"]
            /\ UNCHANGED reader
       ELSE /\ tool' = [tool EXCEPT !.hostIo = GetCycle(reader).io]
            /\ reader' = Next1(reader)
    /\ UNCHANGED <<config, current, writer, state, logged>>

(* ---- the specification ------------------------------------------------ *)

ToolStep == DumpStep \/ DiffFinish \/ DiffThrow \/ DiffMatch \/ DiffMismatch
            \/ ConvStep \/ CheckStep

ToolExit ==
    /\ tool # NoTool /\ ~tool.running
    /\ tool' = NoTool
    /\ reader' = NoReader
    /\ UNCHANGED <<config, current, writer, state, logged>>

Init == TraceInit /\ tool = NoTool

Next ==
    \/ tool = NoTool /\ TraceNext /\ UNCHANGED tool
    \/ \E o \in DumpOptions, f \in Filters : DumpStart(o, f)
    \/ \E e \in Expects, count \in 0 .. MaxCycles : DiffStart(e, count)
    \/ ConvStart
    \/ CheckStart
    \/ ToolStep
    \/ ToolExit

(* A tool is one thread that nothing else waits for or holds up.           *)
Spec == Init /\ [][Next]_vars /\ WF_vars(ToolStep)

(* ---- properties ------------------------------------------------------- *)

(* The files and the index are a log: TraceIndexWriterImpl::Write adds one *)
(* record to it across any number of flushes, the ends of the process that *)
(* skip its destructor cut it to a prefix, and TraceIndexReaderImpl walks  *)
(* and skips over it record by record, showing what was written.           *)
IsALog == Abstract!Spec

(* rafi-conv keeps every record, with its pc and its integer registers.    *)
ConvKeepsOrder ==
    (tool.name = "conv" /\ ~tool.running) =>
        LET out == IndexLog(tool.out)
        IN  /\ Len(out) = Len(Log)
            /\ \A i \in 1 .. Len(Log) : /\ out[i].pc = Log[i].pc
                                       /\ out[i].reg = Log[i].reg

(* Every line of the index counts the records of a file that exists and is *)
(* no larger than a file may be: what TraceIndexReaderImpl::Next(cycle)    *)
(* relies on to skip, and what FlushData must keep true at every boundary, *)
(* also in the index that rafi-conv writes, which keeps every record.      *)
CountsAddUp ==
    LET Right(w) ==
            /\ w.count = Len(Records(w.data))
            /\ Len(w.data) <= MaxFileSize
            /\ DOMAIN w.files = 0 .. w.fileCount - 1
            /\ \A i \in DOMAIN w.lines :
                   /\ w.lines[i].path \in DOMAIN w.files
                   /\ w.lines[i].cycle
                          = Len(Records(w.files[w.lines[i].path]))
    IN  /\ Right(writer)
        /\ tool.name = "conv" => Right(tool.out)
        /\ ConvKeepsOrder

(* The records from begin up to n that pass the filter, by their places.   *)
Passing(n) ==
    {j \in tool.options.begin + 1 .. n : Apply(tool.filter, Log[j])}

(* rafi-dump prints the records [begin, end) that pass the filter, each    *)
(* once and in their order, and gives up only if it is asked to begin at   *)
(* or behind the end of the log.                                           *)
DumpIsSlice ==
    (tool.name = "dump" /\ ~tool.running) =>
        LET passing == Passing(Min({DumpEnd(tool.options), Len(Log)}))
        IN  /\ tool.failed <=> tool.options.begin > 0
                               /\ tool.options.begin >= Len(Log)
            /\ Len(tool.printed) = Cardinality(passing)
            /\ \A j \in passing :
                   tool.printed[Cardinality({x \in passing : x <= j})] = Log[j]

(* rafi-diff aligns the expected trace with the earliest records that have *)
(* its pc and registers, reports every record it stepped over, and leaves  *)
(* expected records unmatched only for want of actual ones, because of its *)
(* count, after Threshold mismatches in a row or at one that has no pc.    *)
DiffIsGreedy ==
    (tool.name = "diff" /\ ~tool.running) =>
        LET m == tool.matched
            from(k) == IF k = 1 THEN 0 ELSE m[k - 1] + 1
            Fits(k, j) == LET x == ExpectCycle(tool.expect, k)
                              y == Log[j + 1]
                          IN  x.pc = y.pc /\ x.reg = y.reg /\ y.reg # <<>>
        IN  /\ \A k \in DOMAIN m :
                   /\ m[k] >= from(k) /\ Fits(k, m[k])
                   /\ \A j \in from(k) .. m[k] - 1 :
                          ~Fits(k, j) /\ j \in tool.reported
            /\ tool.reported \cap {m[k] : k \in DOMAIN m} = {}
            /\ \/ ~Parses(tool.expect, Len(m) + 1)
               \/ ~HasPc(tool.expect, Len(m) + 1)
               \/ Len(m) + Cardinality(tool.reported) \in {tool.count, Len(Log)}
               \/ tool.unmatched = Threshold

(* rafi-check-io passes a trace only for the value in its last record: a   *)
(* trace that a crash cut short passes on what its last whole file says.   *)
PassIsLastValue ==
    (tool.name = "check" /\ tool.verdict = "pass") =>
        Log # <<>> /\ Last(Log).io = ExpectedHostIoValue

(* What the two tools that only read report is true of the log, whichever  *)
(* mixture of skips and steps brought their reader there: the records that *)
(* rafi-dump prints and the verdict of rafi-check-io.                      *)
ReportsAreTrue == DumpIsSlice /\ PassIsLastValue

(* Every tool comes to its end, whatever files it was given.               *)
ToolsEnd == (tool # NoTool) ~> (tool = NoTool \/ ~tool.running)
=============================================================================
