----------------------------- MODULE TraceIndex -----------------------------
(* The binary trace: the logger that builds a record for a cycle, the      *)
(* index writer that packs records into data files of bounded size and     *)
(* lists the files with their record counts, and the index reader.         *)
(* A record is a sequence of nodes [id, v], closed by a BR node; a node is *)
(* the unit of size. The values are tuples, <<>> where a node is absent.   *)
EXTENDS Integers, Sequences, SequencesExt, FiniteSetsExt

CONSTANTS
    Configs,        \* what TraceLoggerConfig may ask for: [int, fp, io]
    Snapshots,      \* the states a cycle may start in: [pc, reg, io]
    EventLists,     \* the event nodes a cycle may raise
    MaxFileSize,    \* TraceIndexWriterImpl::MaxFileSize
    BufferSize,     \* BinaryCycleLoggerImpl: DefaultBufferSize
    MaxCycles       \* bound: records written

ASSUME SizeAssumption ==
    /\ MaxFileSize \in Nat /\ BufferSize \in Nat /\ MaxCycles \in Nat
    /\ BufferSize <= MaxFileSize

VARIABLES
    config,         \* TraceLogger::m_Config
    current,        \* TraceLogger::m_pCurrentCycle, <<>> for nullptr
    writer,         \* TraceIndexWriterImpl
    state,          \* "run", then "closed" once the process has ended
    reader,         \* TraceIndexReaderImpl, NoReader while there is none
    logged          \* history: the records ended while the process runs

Node(id, v) == [id |-> id, v |-> v]
BR == Node("BR", <<>>)
EventIds == {"OP", "TR", "MA"}

ASSUME EventsAssumption ==
    \A events \in EventLists :
        /\ events \in Seq({events[i] : i \in DOMAIN events})
        /\ \A i \in DOMAIN events : /\ events[i] = Node(events[i].id, events[i].v)
                                    /\ events[i].id \in EventIds

(* ---- the file format: BinaryCycle::Parse over nodes from an offset ---- *)

(* The offset behind the record at offset; no BR ahead is a broken file.   *)
Breaks(buffer, offset) ==
    {i \in offset + 1 .. Len(buffer) : buffer[i].id = "BR"}
EndOf(buffer, offset) ==
    CHOOSE end \in Breaks(buffer, offset) \cup {Len(buffer)} :
        \A b \in Breaks(buffer, offset) : end <= b

(* ParseNode keeps the newest node of a kind, and every event.             *)
ValuesOf(nodes, id) ==
    LET own == SelectSeq(nodes, LAMBDA n : n.id = id)
    IN  [i \in DOMAIN own |-> own[i].v]
NewestOf(nodes, id) ==
    LET own == {i \in DOMAIN nodes : nodes[i].id = id}
    IN  IF own = {} THEN <<>>
        ELSE nodes[CHOOSE i \in own : \A j \in own : j <= i].v

CycleOf(nodes) ==
    [pc   |-> NewestOf(nodes, "BA"), reg |-> NewestOf(nodes, "IN"),
     fp   |-> NewestOf(nodes, "FP"), io  |-> NewestOf(nodes, "IO"),
     ops  |-> ValuesOf(nodes, "OP"), traps |-> ValuesOf(nodes, "TR"),
     mems |-> ValuesOf(nodes, "MA")]

Parse(buffer, offset) ==
    CycleOf(SubSeq(buffer, offset + 1, EndOf(buffer, offset)))

(* The records of a buffer that holds whole records, in order.             *)
Records(buffer) ==
    LET ends == Breaks(buffer, 0)
        Nth(i) == CHOOSE b \in ends :
                      Cardinality({x \in ends : x <= b}) = i
    IN  [i \in 1 .. Cardinality(ends) |->
            Parse(buffer, IF i = 1 THEN 0 ELSE Nth(i - 1))]

(* ---- the writer ------------------------------------------------------- *)

NewWriter == [data |-> <<>>, count |-> 0, fileCount |-> 0, files |-> <<>>,
              lines |-> <<>>]

WithFile(files, path, data) ==
    [p \in DOMAIN files \cup {path} |-> IF p = path THEN data ELSE files[p]]

(* defect: the count of the file goes on into the next one                 *)
FlushDataKeepsCount(w) ==
    IF w.data = <<>> THEN w
    ELSE [w EXCEPT !.data = <<>>, !.fileCount = @ + 1,
                   !.files = WithFile(@, w.fileCount, w.data),
                   !.lines = Append(@, [path |-> w.fileCount,
                                        cycle |-> w.count])]

FlushData(w) ==
    IF w.data = <<>> THEN w
    ELSE [w EXCEPT !.data = <<>>, !.count = 0, !.fileCount = @ + 1,
                   !.files = WithFile(@, w.fileCount, w.data),
                   !.lines = Append(@, [path |-> w.fileCount,
                                        cycle |-> w.count])]

(* defect: the record that does not fit is dropped with the flush          *)
WriteLoses(w, buffer) ==
    IF Len(w.data) + Len(buffer) > MaxFileSize THEN FlushData(w)
    ELSE [w EXCEPT !.data = @ \o buffer, !.count = @ + 1]

Write(w, buffer) ==
    LET v == IF Len(w.data) + Len(buffer) > MaxFileSize THEN FlushData(w)
             ELSE w
    IN  [v EXCEPT !.data = @ \o buffer, !.count = @ + 1]

(* What the first n files of the index hold, and with them the buffer.     *)
Filed(w, n) ==
    FlattenSeq([i \in 1 .. n |-> Records(w.files[w.lines[i].path])])

IndexLog(w) == Filed(w, Len(w.lines)) \o Records(w.data)

(* ---- the logger ------------------------------------------------------- *)

AddData(nodes) ==
    /\ Len(current) + Len(nodes) < BufferSize
    /\ current' = current \o nodes

(* BeginCycle and RecordState, which the emulator's loop calls in a row.   *)
BeginCycle(s) ==
    /\ state = "run" /\ current = <<>>
    /\ Len(logged) < MaxCycles
    /\ AddData(<<Node("BA", s.pc)>>
               \o (IF config.int THEN <<Node("IN", s.reg)>> ELSE <<>>)
               \o (IF config.fp THEN <<Node("FP", <<0>>)>> ELSE <<>>)
               \o (IF config.io THEN <<Node("IO", s.io)>> ELSE <<>>))
    /\ UNCHANGED <<config, writer, state, reader, logged>>

RecordEvent(events) ==
    /\ state = "run" /\ current # <<>>
    /\ Last(current).id \notin EventIds
    /\ AddData(events)
    /\ UNCHANGED <<config, writer, state, reader, logged>>

EndCycle ==
    /\ state = "run" /\ current # <<>>
    /\ writer' = Write(writer, Append(current, BR))
    /\ current' = <<>>
    /\ logged' = Append(logged, Parse(Append(current, BR), 0))
    /\ UNCHANGED <<config, state, reader>>

(* ---- the end of the process ------------------------------------------- *)

(* The logger is destroyed: the last records reach their file.             *)
Close ==
    /\ state = "run" /\ current = <<>>
    /\ writer' = FlushData(writer)
    /\ state' = "closed"
    /\ logged' = <<>>
    /\ UNCHANGED <<config, current, reader>>

(* std::exit from inside a cycle: no destructor of the logger runs, the    *)
(* records in memory are lost; stdio still writes the index out.           *)
Exit ==
    /\ state = "run"
    /\ writer' = [writer EXCEPT !.data = <<>>, !.count = 0]
    /\ current' = <<>>
    /\ state' = "closed"
    /\ logged' = <<>>
    /\ UNCHANGED <<config, reader>>

(* A signal or an exception nobody catches: index lines that stdio still   *)
(* held are lost as well.                                                  *)
Kill ==
    /\ state = "run"
    /\ \E n \in 0 .. Len(writer.lines) :
           writer' = [writer EXCEPT !.data = <<>>, !.count = 0,
                                    !.lines = SubSeq(@, 1, n)]
    /\ current' = <<>>
    /\ state' = "closed"
    /\ logged' = <<>>
    /\ UNCHANGED <<config, reader>>

(* ---- the reader ------------------------------------------------------- *)

NoReader == [entry |-> 0, offset |-> 0, cycle |-> 0]
Reading == reader # NoReader
Entries == writer.lines
FileOf(r) == writer.files[Entries[r.entry].path]

IsEnd(r) == r.entry = Len(Entries) + 1
GetCycle(r) == Parse(FileOf(r), r.offset)

(* defect: the reader leaves a file one record early                       *)
NextEarly(r) ==
    LET offset == EndOf(FileOf(r), r.offset)
    IN  IF EndOf(FileOf(r), offset) # Len(FileOf(r))
        THEN [r EXCEPT !.offset = offset, !.cycle = @ + 1]
        ELSE [entry |-> r.entry + 1, offset |-> 0, cycle |-> r.cycle + 1]

Next1(r) ==
    LET offset == EndOf(FileOf(r), r.offset)
    IN  IF offset # Len(FileOf(r))
        THEN [r EXCEPT !.offset = offset, !.cycle = @ + 1]
        ELSE [entry |-> r.entry + 1, offset |-> 0, cycle |-> r.cycle + 1]

(* Cycles the index lists before entry i.                                  *)
CyclesBefore(i) ==
    LET skipped[k \in 0 .. Len(Entries)] ==
            IF k = 0 THEN 0 ELSE skipped[k - 1] + Entries[k].cycle
    IN  skipped[i - 1]

(* Next(cycle): the entry is found from the index, the rest is stepped.    *)
EntriesPast(dst) ==
    {i \in DOMAIN Entries : CyclesBefore(i) + Entries[i].cycle > dst}
CanSkip(r, n) == EntriesPast(r.cycle + n) # {}
SkipTo(r, n) ==
    LET dst == r.cycle + n
        entry == Min(EntriesPast(dst))
        skipped == CyclesBefore(entry)
        after[i \in 0 .. dst - skipped] ==
            IF i = 0 THEN [entry |-> entry, offset |-> 0, cycle |-> skipped]
            ELSE IF IsEnd(after[i - 1]) THEN after[i - 1]
            ELSE Next1(after[i - 1])
    IN  after[dst - skipped]

OpenReader ==
    /\ state = "closed" /\ ~Reading
    /\ reader' = [entry |-> 1, offset |-> 0, cycle |-> 0]
    /\ UNCHANGED <<config, current, writer, state, logged>>

ReaderNext ==
    /\ Reading /\ ~IsEnd(reader)
    /\ reader' = Next1(reader)
    /\ UNCHANGED <<config, current, writer, state, logged>>

(* Past the last record the reader throws, and its user gives it up.       *)
ReaderSkip(n) ==
    /\ Reading
    /\ reader' = IF CanSkip(reader, n) THEN SkipTo(reader, n) ELSE NoReader
    /\ UNCHANGED <<config, current, writer, state, logged>>

CloseReader ==
    /\ Reading
    /\ reader' = NoReader
    /\ UNCHANGED <<config, current, writer, state, logged>>

TraceInit ==
    /\ config \in Configs
    /\ current = <<>>
    /\ writer = NewWriter
    /\ state = "run"
    /\ reader = NoReader
    /\ logged = <<>>

TraceNext ==
    \/ \E s \in Snapshots : BeginCycle(s)
    \/ \E events \in EventLists : RecordEvent(events)
    \/ EndCycle
    \/ Close
    \/ Exit
    \/ Kill
    \/ OpenReader
    \/ ReaderNext
    \/ \E n \in 0 .. MaxCycles : ReaderSkip(n)
    \/ CloseReader

(* ---- what the trace is an implementation of --------------------------- *)

(* Records in front of the reader, counted in the files.                   *)
Position ==
    LET Marks(k) == Breaks(writer.files[Entries[k].path], 0)
        before[k \in 0 .. Len(Entries)] ==
            IF k = 0 THEN 0 ELSE before[k - 1] + Cardinality(Marks(k))
    IN  IF ~Reading THEN -1
        ELSE before[reader.entry - 1]
             + IF IsEnd(reader) THEN 0
               ELSE Cardinality({i \in Marks(reader.entry) : i <= reader.offset})

Recorded == IF state = "run" THEN logged ELSE IndexLog(writer)
Shown == IF ~Reading \/ IsEnd(reader) THEN <<>> ELSE <<GetCycle(reader)>>

Abstract == INSTANCE TraceLog WITH log <- Recorded, at <- Position,
                                   shown <- Shown
=============================================================================
