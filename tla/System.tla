------------------------------- MODULE System -------------------------------
(* The machine around the hart: the bus and its address map, the devices,  *)
(* the order in which a cycle serves them, the emulator's loop with its    *)
(* stop conditions, and what the loop hands to the trace. The hart is an   *)
(* input: in each cycle it computes, makes one bus access, or takes a      *)
(* trap. Main runs the loop once and then, if asked to, serves a debugger, *)
(* which runs it again or steps single cycles.                             *)
EXTENDS Integers, Sequences, SequencesExt, FiniteSetsExt

CONSTANTS
    Regions,        \* the bus: a sequence of [name, memory, base, size]
    HostIo,         \* the host I/O address, four bytes of RAM
    Accesses,       \* bus accesses of the guest: [store, addr, size, value]
    Limits,         \* values of --cycle; CycleForever for no limit
    Skips,          \* what m_Option may yield for --dump-skip-cycle
    MaxExecuted,    \* bound: cycles, where no limit ends the loop
    MaxChars        \* bound: characters the guest writes

CycleForever == -1

ASSUME LimitAssumption ==
    /\ Limits \subseteq Nat \cup {CycleForever}
    /\ MaxExecuted \in Nat /\ MaxChars \in Nat
    /\ \A n \in Limits : n <= MaxExecuted
ASSUME SkipAssumption == Skips \subseteq Int

(* System's constructor: memories do not overlap; the RAM begins at a      *)
(* multiple of every access size, its size is an option and may be any.    *)
ASSUME RegionAssumption ==
    /\ Regions \in Seq([name : STRING, memory : BOOLEAN, base : Nat, size : Nat])
    /\ \A i, j \in DOMAIN Regions :
          Regions[i].memory /\ Regions[j].memory /\ i # j =>
              \/ Regions[i].base + Regions[i].size <= Regions[j].base
              \/ Regions[j].base + Regions[j].size <= Regions[i].base
    /\ \E i \in DOMAIN Regions :
          /\ Regions[i].name = "ram" /\ Regions[i].memory
          /\ Regions[i].base % 8 = 0
          /\ \A j \in DOMAIN Regions : Regions[j].name = "ram" => j = i
ASSUME AccessAssumption ==
    Accesses \subseteq [store : BOOLEAN, addr : Nat, size : {1, 2, 4, 8}, value : Nat]

VARIABLES
    phase,          \* "run": main's loop; "idle", "continue": the debugger
                    \* waits, runs the loop; "over": the process has ended
    limit, hostIo, gdb,         \* --cycle, is --host-io-addr given, --gdb
    skip,           \* m_Option.GetDumpSkipCycle()
    cycle,          \* Emulator::m_Cycle
    ram,            \* the bytes of the RAM
    txChar, dlab,   \* Uart16550: m_TxChar, bit 7 of m_LineControl
    txChars, printCount,        \* Uart: m_TxChars, m_PrintCount
    time, timeCmp, msip,        \* the hart's time counter; the CLINT
    request,        \* the timer request the hart saw in the newest cycle
    console,        \* what was printed
    trace,          \* the records ended: [io, events]
    \* History, read by the properties only.
    executed,       \* cycles the system has run
    stopped,        \* why the loop last ended
    written,        \* characters sent to a transmit register
    stray,          \* the newest access, if it ran past its region's end
    ahead,          \* what the guest last stored in mtime, less the number
                    \* of the cycle it did so in
    retimed,        \* the newest access stored to mtime or mtimecmp
    seen            \* the mtime the newest access read, or NoTime

devices == <<txChar, dlab, txChars, printCount, timeCmp, msip>>
options == <<limit, hostIo, gdb, skip>>
observed == <<written, stray, ahead, retimed, seen>>
vars == <<phase, limit, hostIo, gdb, skip, cycle, ram, txChar, dlab, txChars,
          printCount, time, timeCmp, msip, request, console, trace, executed,
          stopped, written, stray, ahead, retimed, seen>>

NoTime == -1
NoAccess == [store |-> FALSE, addr |-> 0, size |-> 0, value |-> 0]

(* ---- the bus ---------------------------------------------------------- *)

CoversTooFar(r, a, n) == r.base <= a /\ a + n - 1 <= r.base + r.size \* defect

Covers(r, a, n) == r.base <= a /\ a + n - 1 < r.base + r.size
IsMemoryAddress(a, n) ==
    \E i \in DOMAIN Regions : Regions[i].memory /\ Covers(Regions[i], a, n)
IsIoAddress(a, n) ==
    \E i \in DOMAIN Regions : ~Regions[i].memory /\ Covers(Regions[i], a, n)

(* ConvertToMemoryLocation and ConvertToIoLocation: the first that fits.   *)
Location(memory, a) ==
    LET i == Min({k \in DOMAIN Regions : /\ Regions[k].memory = memory
                                         /\ Covers(Regions[k], a, 1)})
    IN  [name |-> Regions[i].name, offset |-> a - Regions[i].base,
         size |-> Regions[i].size]
Nowhere == [name |-> "nowhere", offset |-> 0, size |-> 0]

Read(a, n) ==
    CASE IsMemoryAddress(a, n) -> Location(TRUE, a)
      [] ~IsMemoryAddress(a, n) /\ IsIoAddress(a, 1) -> Location(FALSE, a)
      [] OTHER -> Nowhere

(* Only the first byte is looked up.                                       *)
Write(a, n) ==
    CASE IsMemoryAddress(a, 1) -> Location(TRUE, a)
      [] ~IsMemoryAddress(a, 1) /\ IsIoAddress(a, 1) -> Location(FALSE, a)
      [] OTHER -> Nowhere

Guest == Accesses \cup {NoAccess}
Route == [acc \in Guest |-> IF acc.store THEN Write(acc.addr, acc.size)
                            ELSE Read(acc.addr, acc.size)]

(* ---- the devices: which accesses each takes, all others throw --------- *)

ADDR_MSIP == 0
ADDR_MTIMECMP == 16384
ADDR_MTIME == 49144

ClintTakes(acc, off) ==
    \/ off = ADDR_MSIP /\ acc.size = 4
    \/ off = ADDR_MTIMECMP /\ acc.size <= 8
    \/ off = ADDR_MTIME /\ acc.size = 8

(* Priorities, pending bits, enables of both modes, both thresholds; the   *)
(* claim registers are not there, pending bits cannot be written.          *)
PlicWord(store, off) ==
    \/ off < 512
    \/ 4096 <= off /\ off < 4112 /\ ~store
    \/ 8192 <= off /\ off < 8208
    \/ 8320 <= off /\ off < 8336
    \/ off \in {2097152, 2101248}
PlicTakes(acc, off) ==
    /\ acc.size \in {4, 8}
    /\ PlicWord(acc.store, off)
    /\ acc.size = 8 => PlicWord(acc.store, off + 4)

Uart16550Takes(acc, off) == acc.size = 1
UartTakes(acc, off) == acc.size = 4 /\ off \in {0, 4, 16, 24}
TimerTakes(acc, off) == acc.size = 4 /\ off \in {0, 4, 8, 12}
VirtIoTakes(acc, off) == acc.store \/ acc.size = 4

(* RAFI_EMU_CHECK_ACCESS, then the device's own switch.                    *)
Takes(acc, loc) ==
    \/ loc.name = "ram"
    \/ loc.name = "rom" /\ ~acc.store
    \/ /\ loc.offset + acc.size - 1 < loc.size
       /\ \/ loc.name = "clint" /\ ClintTakes(acc, loc.offset)
          \/ loc.name = "plic" /\ PlicTakes(acc, loc.offset)
          \/ loc.name = "uart16550" /\ Uart16550Takes(acc, loc.offset)
          \/ loc.name = "uart" /\ UartTakes(acc, loc.offset)
          \/ loc.name = "timer" /\ TimerTakes(acc, loc.offset)
          \/ loc.name = "virtio" /\ VirtIoTakes(acc, loc.offset)

(* Accesses that throw before they have an effect.                         *)
Throws == {acc \in Accesses : ~Takes(acc, Route[acc])}

(* Ram only asserts its bound: a release build runs past the end.          *)
Strays(acc, loc) == loc.name = "ram" /\ loc.offset + acc.size > loc.size

(* ---- the effect of a store that is taken ------------------------------ *)

StoreAt(acc, loc, name, off) ==
    acc.store /\ loc.name = name /\ loc.offset = off

RamSize == Min({r.size : r \in {x \in Range(Regions) : x.name = "ram"}})
HostIoOffset == Location(TRUE, HostIo).offset

(* The value is in the lowest byte, the others are zero.                   *)
RamWrite(acc, loc) ==
    ram' = IF acc.store /\ loc.name = "ram"
           THEN [i \in DOMAIN ram |->
                    IF i = loc.offset THEN acc.value
                    ELSE IF i \in loc.offset .. loc.offset + acc.size - 1
                    THEN 0 ELSE ram[i]]
           ELSE ram

GetHostIoValue ==
    IF \E i \in HostIoOffset .. HostIoOffset + 3 : ram[i] # 0 THEN 1 ELSE 0

Uart16550WriteKeeps(acc, loc) ==     \* defect: a printed character stays
    /\ txChar' = IF StoreAt(acc, loc, "uart16550", 0) /\ ~dlab
                 THEN acc.value ELSE txChar
    /\ dlab' = IF StoreAt(acc, loc, "uart16550", 3) THEN acc.value = 128
               ELSE dlab

(* Uart16550::Write to the data and line control registers; a data write   *)
(* under DLAB goes to the divisor and is dropped. 128 is DLAB.             *)
Uart16550Write(acc, loc) ==
    /\ txChar' = IF StoreAt(acc, loc, "uart16550", 0) /\ ~dlab
                 THEN acc.value ELSE 0
    /\ dlab' = IF StoreAt(acc, loc, "uart16550", 3) THEN acc.value = 128
               ELSE dlab

UartWrite(acc, loc) ==
    txChars' = IF StoreAt(acc, loc, "uart", 0) THEN Append(txChars, acc.value)
               ELSE txChars

WriteMsip(value) == value % 2

(* memcpy of a store's bytes over the lowest ones of a register of eight;  *)
(* the value of a store has no more bytes than the store.                  *)
Overlay(old, acc) ==
    IF acc.size = 8 THEN acc.value
    ELSE 256 ^ acc.size * (old \div 256 ^ acc.size) + acc.value

ClintWrite(acc, loc, now) ==
    LET to(off) == StoreAt(acc, loc, "clint", off)
    IN  /\ msip' = IF to(ADDR_MSIP) THEN WriteMsip(acc.value) ELSE msip
        /\ timeCmp' = IF to(ADDR_MTIMECMP) THEN Overlay(timeCmp, acc) ELSE timeCmp
        /\ time' = IF to(ADDR_MTIME) THEN acc.value ELSE now

(* Clint::ReadTime: a guest that reads mtime finds the hart's time counter.*)
ReadTime(acc, loc, now) ==
    IF ~acc.store /\ loc.name = "clint" /\ loc.offset = ADDR_MTIME
    THEN now ELSE NoTime

(* Characters a store sends on their way: NUL is nothing to the 16550.     *)
Sent(acc, loc) ==
    IF \/ StoreAt(acc, loc, "uart16550", 0) /\ ~dlab /\ acc.value # 0
       \/ StoreAt(acc, loc, "uart", 0)
    THEN <<acc.value>> ELSE <<>>

(* ---- System::ProcessCycle --------------------------------------------- *)

(* What the two transmitters print when a cycle serves them, in order.     *)
PrintTx16550 == IF txChar # 0 THEN <<txChar>> ELSE <<>>
PrintTx == SubSeq(txChars, printCount + 1, Len(txChars))

(* defect: the interrupt is sampled before the clock advances              *)
RequestEarly(now) == time >= timeCmp

(* Clint::IsInterruptRequested, read by the hart after it advanced time.   *)
Request(now) == now >= timeCmp

(* History: what the guest can tell of mtime by counting cycles.           *)
GuestClock(acc, loc) ==
    LET to(off) == acc \notin Throws /\ StoreAt(acc, loc, "clint", off)
    IN  /\ ahead' = IF to(ADDR_MTIME) THEN acc.value - executed' ELSE ahead
        /\ retimed' = (to(ADDR_MTIME) \/ to(ADDR_MTIMECMP))

(* The devices run first, then the hart: its counters, the interrupt       *)
(* lines, and what it executes.                                            *)
Cycle(acc) ==
    LET now == time + 1
        loc == Route[acc]
    IN  /\ Len(written) + Len(Sent(acc, loc)) <= MaxChars
        /\ console' = console \o PrintTx16550 \o PrintTx
        /\ printCount' = Len(txChars)
        /\ request' = Request(now)
        /\ IF acc \notin Throws
           THEN /\ RamWrite(acc, loc)
                /\ Uart16550Write(acc, loc)
                /\ UartWrite(acc, loc)
                /\ ClintWrite(acc, loc, now)
                /\ written' = written \o Sent(acc, loc)
                /\ seen' = ReadTime(acc, loc, now)
           ELSE /\ txChar' = 0 /\ time' = now /\ seen' = NoTime
                /\ UNCHANGED <<ram, dlab, txChars, timeCmp, msip, written>>
        /\ stray' = IF Strays(acc, loc) THEN acc ELSE NoAccess
        /\ executed' = executed + 1
        /\ GuestClock(acc, loc)

(* ---- Emulator::Process ------------------------------------------------ *)

Looping == phase \in {"run", "continue"}
Bound == IF phase = "run" THEN limit ELSE CycleForever
Goes == Looping /\ (cycle < Bound \/ Bound = CycleForever)
DumpEnabled == cycle >= skip

StopPreLimited ==       \* defect: only a run with a limit looks
    phase = "run" /\ hostIo /\ limit # CycleForever /\ GetHostIoValue # 0

StopPre == phase = "run" /\ hostIo /\ GetHostIoValue # 0

Record(events) == [io |-> GetHostIoValue, events |-> events]

(* The loop is left: main serves the debugger or returns.                  *)
Leave(why) ==
    /\ phase' = IF phase = "continue" \/ gdb THEN "idle" ELSE "over"
    /\ stopped' = why

LoopLimit ==
    /\ Looping /\ ~Goes
    /\ Leave("limit")
    /\ UNCHANGED <<options, cycle, ram, devices, time, request, console, trace,
                   executed, observed>>

LoopStopSilent ==       \* defect: the record begun is not ended
    /\ Goes /\ StopPre
    /\ Leave("host")
    /\ UNCHANGED <<options, cycle, ram, devices, time, request, console, trace,
                   executed, observed>>

(* IsStopConditionFilledPre: the state is recorded, no cycle is run.       *)
LoopStop ==
    /\ Goes /\ StopPre
    /\ trace' = IF DumpEnabled THEN Append(trace, Record(FALSE)) ELSE trace
    /\ Leave("host")
    /\ UNCHANGED <<options, cycle, ram, devices, time, request, console,
                   executed, observed>>

(* One cycle; brk says that its trap was a breakpoint exception, which     *)
(* only the debugger's loop looks for. A throw leaves the record           *)
(* unfinished and the process ends.                                        *)
LoopCycle(acc, brk) ==
    /\ Goes /\ ~StopPre /\ executed < MaxExecuted
    /\ brk => acc = NoAccess /\ phase = "continue"
    /\ Cycle(acc)
    /\ IF acc \in Throws
       THEN phase' = "over" /\ stopped' = "throw" /\ UNCHANGED <<cycle, trace>>
       ELSE /\ trace' = IF DumpEnabled THEN Append(trace, Record(TRUE))
                        ELSE trace
            /\ IF brk
               THEN Leave("breakpoint") /\ UNCHANGED cycle
               ELSE cycle' = cycle + 1 /\ UNCHANGED <<phase, stopped>>
    /\ UNCHANGED options

(* ---- the debugger, as far as it drives the emulator ------------------- *)

Continue ==
    /\ phase = "idle"
    /\ phase' = "continue"
    /\ UNCHANGED <<options, cycle, ram, devices, time, request, console, trace,
                   executed, stopped, observed>>

(* Emulator::ProcessCycle: neither counted nor recorded.                   *)
Step(acc) ==
    /\ phase = "idle" /\ executed < MaxExecuted
    /\ Cycle(acc)
    /\ phase' = IF acc \in Throws THEN "over" ELSE "idle"
    /\ stopped' = IF acc \in Throws THEN "throw" ELSE stopped
    /\ UNCHANGED <<options, cycle, trace>>

Init ==
    /\ phase = "run"
    /\ limit \in Limits /\ hostIo \in BOOLEAN /\ gdb \in BOOLEAN
    /\ skip \in Skips
    /\ cycle = 0
    /\ ram = [i \in 0 .. RamSize - 1 |-> 0]
    /\ txChar = 0 /\ dlab = FALSE
    /\ txChars = <<>> /\ printCount = 0
    /\ time = 0 /\ timeCmp = 0 /\ msip = 0
    /\ request = FALSE
    /\ console = <<>> /\ trace = <<>>
    /\ executed = 0 /\ stopped = "not" /\ written = <<>>
    /\ stray = NoAccess
    /\ ahead = 0 /\ retimed = FALSE /\ seen = NoTime

Loop ==
    \/ LoopLimit
    \/ LoopStop
    \/ \E acc \in Guest, brk \in BOOLEAN :
           LoopCycle(acc, brk)

Next ==
    \/ Loop
    \/ Continue
    \/ \E acc \in Guest : Step(acc)

(* The loop is a thread that waits for nothing; the debugger's client may  *)
(* never send another command.                                             *)
Spec == Init /\ [][Next]_vars /\ WF_vars(Loop)

(* ---- properties ------------------------------------------------------- *)

(* The console shows what the guest sent to the two transmitters, in the   *)
(* order of the stores although each has a buffer of its own: at most the  *)
(* newest character is still waiting, since the devices are served once a  *)
(* cycle and the 16550 has room for one.                                   *)
OutputInOrder ==
    /\ IsPrefix(console, written)
    /\ Len(written) <= Len(console) + 1
    /\ txChar # 0 => written = Append(console, txChar)

(* The number main prints is the number of cycles it ran, never more than  *)
(* --cycle asks for; the debugger's cycles are counted only if they end    *)
(* neither at a breakpoint nor as a single step.                           *)
CycleIsHonest ==
    /\ cycle <= executed
    /\ (phase = "run" /\ stopped = "not") => cycle = executed
    /\ (limit # CycleForever /\ ~gdb /\ phase = "over") => executed <= limit
    /\ (phase = "run" /\ limit # CycleForever) => executed <= limit

(* A run that a host I/O value ended has that value in its last record and *)
(* in no other: the verdict rafi-check-io takes from there is the guest's. *)
VerdictIsRecorded ==
    (stopped = "host" /\ phase # "continue" /\ executed >= skip /\ ~gdb) =>
        /\ trace # <<>> /\ Last(trace).io # 0 /\ ~Last(trace).events
        /\ \A i \in 1 .. Len(trace) - 1 : trace[i].io = 0 /\ trace[i].events

(* The cycles n < executed with n >= skip.                                 *)
Dumped ==
    IF skip <= 0 THEN executed
    ELSE IF executed > skip THEN executed - skip ELSE 0

(* Emulator::Process counts, records and stops at three places of its loop *)
(* and they agree: its count is that of the cycles it ran, the trace has   *)
(* one record for each cycle from the skip on, plus the one that shows why *)
(* a host I/O value ended the run, and that one alone has the verdict.     *)

TraceMatchesRun ==
    /\ CycleIsHonest
    /\ VerdictIsRecorded
    /\ phase = "run" \/ (phase = "over" /\ stopped \in {"limit", "host"} /\ ~gdb)
       => Len(trace) = Dumped
                       + (IF stopped = "host" /\ executed >= skip THEN 1 ELSE 0)

(* Accesses leave the region they were routed to only if they are not      *)
(* aligned, or the RAM ends within a word: Bus::Write looks at the first   *)
(* byte and Ram checks nothing.                                            *)
StraysAreMisaligned ==
    stray # NoAccess =>
        /\ stray.store
        /\ stray.addr % stray.size # 0 \/ RamSize % stray.size # 0

(* The timer keeps the guest's time. Whoever runs the cycles, the loop of  *)
(* main, the debugger's or its single steps, stopped at a breakpoint or at *)
(* the limit and gone on later, each of them is one tick: the request is   *)
(* up from exactly the cycle the guest computes when it stores mtime and   *)
(* mtimecmp, and until it stores again. Clint::IsInterruptRequested is     *)
(* asked in between Csr::ProcessCycle, which ticks, and the guest's access,*)
(* so a guest that reads mtime finds the time by which the request of that *)
(* very cycle was decided, and a store counts from the next cycle on.      *)
TimerKeepsTime ==
    executed > 0 =>
        /\ ~retimed => (request <=> executed + ahead >= timeCmp)
        /\ seen # NoTime => seen = executed + ahead

(* Emulator::Process ends: main's loop comes to its limit, and a host I/O  *)
(* value ends the loop with or without one.                                *)
RunEnds ==
    /\ (phase = "run" /\ limit # CycleForever) ~> (phase # "run")
    /\ (phase = "run" /\ hostIo /\ GetHostIoValue # 0) ~> (phase # "run")
=============================================================================
