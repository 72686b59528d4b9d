# A TLA+ model of rafi-emu

rafi-emu is a RISC-V emulator (RV32GC and RV64GC with the M, S and U levels and
virtual memory) together with a trace library and tools that compare and convert
traces. This directory models its control logic in TLA+, checks it with TLC on
small instances and proves the central results with TLAPS for every value of
the parameters.

Paths below are relative to `src/src/` unless they begin with `include/`.

## 1. Inventory

| Component | State | Operations | Hard part |
|---|---|---|---|
| `rafi-emu/cpu/Csr` | status, ie, ip, delegation, tvec, epc, counters, satp, privilege level, pc | read and write with masks per level, `CheckTrap` | aliased views of one register; a write through a narrow view clears the rest |
| `rafi-emu/cpu/InterruptController` | requested flag and type | `Update` every cycle | pending bits recomputed from delegation while software rewrites both |
| `rafi-emu/cpu/TrapProcessor` | last trap event | trap entry at three levels, return | nesting; the previous level is one bit at S |
| `rafi-emu/cpu/Processor` | - | `ProcessCycle`, `Fetch` | early returns; a fetch in two halves |
| `rafi-emu/cpu/MemoryAccessUnit` | access events of the cycle | `CheckTrap`, `Translate`, loads, stores | the walk exists twice; it writes to the tables it reads; ignored traps |
| `rafi-emu/cpu/AtomicManager` | reservation | reserve, cancel | which instructions cancel it |
| `rafi-emu/cpu/Executor` | - | one function per instruction group | arithmetic edges, order of check and effect |
| `rafi-emu/bus`, `mem`, `System` | address map, memory | dispatch; the order devices, then hart | size checks differ between read and write |
| `rafi-emu/io` | CLINT timer and msip, UART latches, PLIC registers | register reads and writes, `ProcessCycle` | timer against hart; a latch of one character |
| `rafi-emu/Emulator`, `TraceLogger` | cycle number | run until a stop condition; record each cycle | three stop conditions at three places of the loop |
| `rafi-emu/gdb` | breakpoints and the code they replaced | packets, breakpoints, continue, step | breakpoints are patches of memory; sessions end at any time |
| `librafi_trace` | buffers, file positions, index | write cycles in chunks, read and skip | the chunks must add up to the cycles written |
| `rafi-diff`, `rafi-dump`, `rafi-conv`, `rafi-check-io` | positions in traces | compare, filter, convert | realignment after a mismatch |
| `librafi_common` (decoder) | none | decode | scrambled immediates, operand alternatives |
| `librafi_fp` and the F and D handlers | SoftFloat's flags, `fcsr`, FS | compute, compare, convert, classify, box | global flags that survive an instruction; notes of dirty registers |

How they interact. `Emulator::Process` calls `System::ProcessCycle`, which runs
the devices and then `Processor::ProcessCycle`. The processor refreshes the
pending interrupts from the CLINT, enters a trap or fetches through the memory
access unit, decodes, asks the executor whether the instruction traps, executes
it and asks again. The executor reaches memory and devices through the memory
access unit and the bus; the CLINT writes back into the hart's `mip` and time.
After the cycle the trace logger reads events from every part. The GDB server
drives the same loop one command at a time and patches memory. Everything runs
in one thread: the interleavings that matter are those of software at three
levels, traps, timer and debugger, in any order the guest chooses.

What makes each part correct:

- privilege: only a trap raises the level, and only at a vector of the level
  reached; lower levels change no machine state; a return resumes what the trap
  interrupted; loads and stores have no more privilege than their code;
- interrupts: a handler's first cycle is not interrupted; a source is pending
  at one level;
- memory: accesses go where the tables say, with the permission they give;
  faults are precise; used pages are marked;
- LR/SC: a success is paired with a load-reserved, finds what that loaded, and
  is certain for the loops the architecture promises to end;
- debugger: the guest's code can always be recovered, and continue is answered
  at breakpoints and nowhere else;
- devices and emulator loop: the console shows what was sent in its order; the
  timer interrupt comes in the very cycle the guest computes, whoever runs the
  cycles, and never later than the guest can read that its time has come; count,
  record and stop agree although each has its own place in the loop; the loop
  ends when it should;
- traces: files and index are one log of cycles, through flushes, file limits
  and the ends of the process that cut it; the tools report what the log says
  and come to an end;
- decoder and executor: the tables, written independently, agree; every handler
  computes what the laws of its operation say; the checked address is the
  accessed one;
- floating point: what F and D wrote is noted before a switch looks, and flags
  come from the instruction that raised them.

## 2. Modules

| Module | Models |
|---|---|
| `Csr` | registers as sets of bit numbers; masks, views and writes; which CSR a level may access |
| `Hart` | `Processor::ProcessCycle` with the interrupt controller, the trap processor and the privileged instructions |
| `HartFrames` | `Hart` with an auxiliary variable for the contexts traps interrupted |
| `MemoryAccessUnit` | page tables, check, translation, loads, stores, atomics and fetch |
| `Reservation` | `AtomicManager` and which instructions cancel the reservation, under traps and thread switches |
| `Decoder` | every instruction word to its operation and operand |
| `Executor` (extends `Decoder`) | the switches, the trap checks and the integer handlers |
| `FpFormats` | bit patterns; minimum, maximum, classification, boxing |
| `Fp` (extends `FpFormats`) | FS, `fcsr`, SoftFloat's flags and every floating-point handler |
| `System` | bus, address map, devices, `Emulator::Process`, and `main` and debugger as its callers |
| `Debugger` | `GdbServer` sessions, every command, the breakpoints in memory and the loop that continue starts |
| `TraceLog` | abstract: a log of cycles and a reader that moves over it |
| `TraceIndex` | the trace logger, the index writer and reader; an implementation of `TraceLog` |
| `TraceTools` (extends `TraceIndex`) | `rafi-dump`, `rafi-diff`, `rafi-conv`, `rafi-check-io` |
| `MC...` | parameter values for TLC |
| `HartProofs`, `MemoryAccessUnitProofs`, `ReservationProofs`, `DebuggerProofs`, `FpProofs`, `SystemProofs`, `TraceToolsProofs`, `ExecutorProofs` | theorems |

A definition marked "defect" or "mutant" and used nowhere is a plausible slip in
the definition below it; PROJECT.json says which property notices it.

### Hart

One step is one cycle. The timer request is an input (`t`); it enters through
`UpdateCsr`, which is called in every cycle before anything else. Then either an
interrupt is taken (`Interrupt`) or one instruction is executed: a faulting one
(`Fault`), `ecall`, `ebreak`, `mret`, `sret`, `uret`, `wfi`, `sfence.vma`, a
floating-point one, a CSR instruction (`CsrOp`, `CsrIllegal`), a store to the
CLINT's msip register (`StoreMsip`), or anything else (`Ordinary`). Behaviour
of the code that a reader may not expect, all of it in the model:

- `sstatus` and `ustatus` writes, and therefore traps into S and U and `sret`,
  clear every field outside the view (`Csr.cpp:354`);
- CSR instructions always write, also with rs1 = x0;
- the external pending bits follow the timer source
  (`InterruptController.cpp:205`, run `hart_external`);
- delegation registers are shifted and compared with zero, so a delegated code
  above the tested one counts (`InterruptController.cpp:186`);
- the level a trap came from is filled into the event after the level changed;
- `uret`, and any cycle at the reserved level 2, throw out of the emulator.

Left out: cause, trap value and scratch registers, which the emulator writes
and never reads; the counters; what ordinary instructions compute (`Executor`,
`Fp`).

### MemoryAccessUnit

One step is what one instruction does to memory, its check included; before the
next one `ClearEvent` forgets the events, and the CSR state may change. A page
number is a number in base `PartSize` whose digits are the VPN and PPN fields,
so alignment, superpages and the cut of the physical address to the width of
the virtual one are arithmetic on it; `Span(l)` is the number of pages that an
entry of level l maps. Every memory word can be read as a
page-table entry, so software can map, and overwrite, its own tables. `Walk` is
the walk both copies of the code make, level by level as the code has it, without
recursion; `CheckIndex` and `Index` are the fields
by which they index the tables, which differ in Sv48. The properties do not walk:
`Tables` and `LeavesOf` collect, for every level, the tables and leaves that the
levels above lead to, and `Granted` is a table of the permissions. After an ignored trap the
address is uninitialised, which is a choice among all pages. `CsrStates`
are an input; `Hart` shows what the hart can reach.
A walk or an access that leaves memory throws out of the cycle (`Throw`), after
what it has marked so far.

Loads and stores that cross a page boundary are there under `CrossPage`; they
use the physically next page whatever is mapped (`MemoryAccessUnit.cpp:63`), so
with `CrossPage = TRUE` TLC refutes `AccessesMapped`. No document says what they
should do; the runs keep it `FALSE`. A fetch through a misaligned superpage is
not a fault, because `Fetch` calls `Translate` without `CheckTrap`, and S
executes user pages when SUM is set. Both are in the model, without a property.

### Reservation

One step is one instruction, a trap or a return. The hart has one reservation,
an address without a size; threads and the handlers stacked on them share it.
`KeptByRV32I`, `KeptByRV64I` and `KeptByRV64C` are the kinds of instruction
whose code has no `Cancel`; everything else cancels. The code differs from one
instruction set to the next, and the model keeps the differences:

- on RV64, integer loads and stores keep the reservation and CSR instructions
  cancel it; on RV32 it is the other way round;
- all of RV32C cancels, so a constrained loop must not be compressed on RV32;
- branches cancel only when taken backward;
- trap entry keeps the reservation, `mret`, `sret` and `uret` cancel it.

`linked`, `seen`, `pair`, `plain` and `constrained` are history variables.
`ScSound` excepts words written by RV64I stores since the last load-reserved,
because those do not cancel; what the code guarantees about everything else is
what the property says. Addresses are virtual in the code; one mapping is
assumed. `MaxNesting` bounds the stacked handlers.

### Decoder and Executor

One behaviour is one instruction: a word is chosen and decoded (`DecodeInsn`),
checked (`PreCheck`), executed (`Execute`) and checked again (`PostCheck`), with
the ways out of the middle (`Trapped`, `Error`, an uncaught `std::get`, a
division that kills the process) as actions. Words are decoded at their real
size, as pairs of half-words; an immediate is put together from up to eight
pieces of the word (`Layout`), an operand is an alternative of the variant. The
two switches of each width, the table of trap checks and the alternatives the
handlers ask for are written down separately, as the code has them separately.

Handlers compute on scaled registers: a word of `WordBits` bits stands for one of
32, a double word of twice as many for 64, a byte and a half-word for a quarter
and a half of a word. Wrapping, sign extension, partial writes of a 64-bit
register and division are what the code does at those widths. A shift by more
than the width is undefined in C++ and taken as the host's shift instruction
does, modulo the width. What the code does that one may not expect, all kept:

- `divw` tests the whole register for zero and divides by its low word
  (`Executor.cpp:1350`): a zero word under a nonzero upper half kills the process;
- `c.addiw` sign-extends a 64-bit sum;
- `c.ebreak`, and on RV32 `c.addw` and `c.subw`, are decoded and not handled;
- on RV32, `jalr` leaves bits above 31 in the program counter.

CSR and privileged handlers are `Hart`'s, reservations `Reservation`'s, results
of floating-point handlers `Fp`'s; here they have their operands and checks.

### FpFormats and Fp

A step is one floating-point instruction, a CSR write, or a context switch of an
operating system that saves the registers only if FS is dirty. `soft` is
SoftFloat's global, which each function of `FpApi.cpp` clears before it computes
and `UpdateFpCsr` copies. SoftFloat's arithmetic is external: it may raise any
flags. What is computed by the library itself is computed in the model. Kept:

- flags in `fcsr` are replaced, not accrued; sign injections store the flags of
  the last computation once more;
- the rounding mode is set for the host (`ConvertToHostRoundingMode`) and never
  for SoftFloat; a reserved one ends the process;
- the compressed loads neither look at FS nor note the register
  (`Executor.cpp:3847` notes the others), and a `ustatus` write clears FS, so
  what they lose is `unsaved` but not "marked";
- comparisons, conversions to integers and CSR writes change `fcsr` without
  making FS dirty;
- the test for two zeros in `fmin` reads one operand twice (`FpApi.cpp:190`); two
  NaNs of which one is signaling give a signaling NaN.

`NothingLost`, `FlagsHaveACause` and `MatchesReference` name these exceptions and
say that there are no others.

### System

One step is one turn of `Emulator::Process`: the limit, the stop before the
cycle, the cycle and the stop after it, with the places where a record begins
and ends. A cycle serves both UARTs, advances the time, samples the timer and
makes one bus access of the guest (or none). The access is routed as the bus
routes it (stores by the first byte, loads by the whole range), then the device
takes it or throws; a throw loses the record in progress and the process.
`main`'s loop runs first, the debugger after it may start the loop again or
step, which neither counts nor records. `skip` may be anything in `Skips`, any
integers, in every run, since `m_Option` refers to a constructor argument that is gone
(`Emulator.h:56`). The last character given to the 16550 is not printed if no
cycle follows; `OutputInOrder` allows exactly that. The size of the RAM is an
option and need not be a multiple of anything: an aligned access runs over the
end of a RAM that ends within it, and `StraysAreMisaligned` excepts just these.
The guest keeps a clock of its own: the history `ahead` is what it last stored in
`mtime` less the number of that cycle, `retimed` says that the newest access moved
the timer, `seen` is the `mtime` it read. `TimerKeepsTime` compares this clock, which
counts cycles and does not see `time`, with the request the hart samples between
its counters and the guest's access. A store to `mtimecmp` may be of any size and
replaces the lowest bytes only (`Overlay`). Every record carries the limit of the
loop as its cycle number (`Emulator.cpp:63` passes `cycle`, not `m_Cycle`); no
property depends on the number, and records have none here.
`RegionAssumption` is the address map of `System`'s constructor (aligned regions
that do not overlap), `AccessAssumption` the sizes the executor asks for.

### Debugger

Memory is a row of half-words, an instruction has one or two. The guest is
what its code makes of it: it executes an instruction and goes anywhere, traps,
or takes an interrupt. Assumed of the guest: physical addresses, direct trap
vectors, no `ebreak` of its own, and no store to an instruction that carries a
breakpoint (it would be undone by the removal). Assumed of a client: it sets
breakpoints on instructions with their length and removes only what it has
inserted; removing an absent one writes zero (`GdbData.cpp:33`). A client may
leave at any moment, also while the guest runs; the next one starts knowing
nothing while the server still holds the old breakpoints. A packet that does
not parse ends the program (`Unsupported`), a malformed one the session
(`EndSession`). After a stop the pc is at the trap vector, since the exception
has been taken. An answer to a client that has left may raise a signal that
nothing handles (`GdbServer.cpp:187`): `SendResponse` ends the program or goes on.

### TraceLog, TraceIndex and TraceTools

A record is a sequence of nodes closed by a break; a node is the unit of size,
its value a model value. `BeginCycle`, `RecordEvent` and `EndCycle` are the calls of
the emulator's loop; `Write` buffers records, flushes them into a file and starts
the next file at `MaxFileSize`; `FlushData` lists the file with its count in the
index. The process ends in order (`Close`), by `std::exit` in a cycle (`Exit`: the
buffer is lost, stdio writes the index) or by a signal (`Kill`: the index may lose
its last lines too). A line cut in the middle is not modelled. The reader steps
or skips by the counts of the index.

`TraceLog` is what a user relies on. `Abstract` in `TraceIndex` is its instance:
while the process runs the log is what was recorded, afterwards what the index
lists (`Recorded`); the reader's position is counted in the files, not in its own counter.
The property `IsALog` is `Abstract!Spec`: a flush is a stutter, an exit cuts the
log to a prefix, a skip moves the reader forward, and what a reader shows is what
was written there.

The tools are loops over readers. `rafi-diff` reads an expected trace as text or
as a gdb log (sequences of literals; the parser stops at one it does not know)
and realigns after a mismatch by moving the actual trace only. A text cycle without
a `BASIC` line has no pc: the comparison throws and the tool ends (`DiffThrow`,
with such a cycle among the traces of the run); a gdb cycle without a pc has pc 0. `rafi-conv` writes a
second index. What `rafi-dump` printed is compared with the places of the records
that pass its filter (`Passing`), which fixes their order and their number.
`rafi-check-io` dereferences a null pointer at a record without an
I/O node; the model ends it with the verdict "crash".

## 3. Runs

| Run | Shows |
|---|---|
| `hart_traps` | all exceptions, nested, returns and CSR writes: `FrameKept`, `ReturnResumes`, `PrivilegeRisesThroughVector`, `MachineStateProtected`, `MachineFieldsNeverSetBelow`, `DataLevelBounded` |
| `hart_interrupts` | all interrupts: `OneTimerPending`, `HandlerStartsMasked` |
| `hart_external` | violation: a timer request is taken as an external interrupt |
| `mmu` | one memory read as Sv32 and Sv39 tables by software of every level, with MPRV, superpages, pointers out of memory and unimplemented modes: `AccessesMapped`, `AddressSpaceStable`, `UseIsMarked`, `FaultIsPrecise` |
| `mmu_sv48` | violation: the check and the translation of Sv48 index different entries |
| `reservation` | two threads, handlers nested twice, both widths: `ScPaired`, `ScSound`, `ScProgress` |
| `debugger` | code of both lengths: `CodeRecoverable`, `StopIsBreakpoint`, `LongBreakpointStops` |
| `debugger_short` | violation: a two-byte breakpoint does not stop the guest |
| `trace` | records over files, every end of the process, every tool: `CountsAddUp`, `IsALog` (refinement), `ReportsAreTrue`, `DiffIsGreedy`, `ToolsEnd` (liveness) |
| `system` | the loop with and without limit, host I/O, skip and debugger: `OutputInOrder`, `TraceMatchesRun`, `StraysAreMisaligned`, `TimerKeepsTime`, `RunEnds` (liveness) |
| `instructions` | both widths, all compressed words: `EveryOpIsHandled`, `FormatsPartition`, `AccessIsChecked`, `MulDivLaw`, `WordLaw`, `CompressedAgrees` |
| `fp` | any sequence of instructions, writes and switches: `NothingLost`, `FlagsHaveACause`, `MatchesReference` |

### Bounds

- Hart: no unbounded state. The address space (`AddressSpace`) is 1 or 4 because
  the properties only tell a vector, an epc and the next instruction apart.
- Memory: two pages, a root table and one that is table or data, of
  `PartSize` = 2 entries, so every digit of an address can differ from every
  other. `VpnCount` = 8 is the whole three-level space; the two-level one is
  its first half. Sv32 and Sv39
  differ from this instance in the number of entries per table.
- Reservation: two threads, two words and two values are what an interference
  needs; with two nested handlers one of them is interrupted and resumed.
- Debugger: the trap handler, another instruction of four bytes, a compressed one.
- Trace: three records of three to six nodes over files of nine and a buffer
  of eight: files with one record and with two, a record that opens a file, an
  index of up to three lines.
- System: `MaxExecuted` = 5 cycles and `MaxChars` = 2, with limits of 3 and none.
  Two characters can overtake each other in the two transmitters; the limit, the
  host value and a breakpoint can each come first. Stores of a byte and of eight
  move `mtimecmp`, another sets `mtime` back, so that the request goes and comes
  again within the run. `RamSize` is 8: the host I/O
  word is at its end, with a store that straddles it.
- Instructions: all 16-bit words; of the 32-bit ones all opcodes, `funct3` and
  the `funct7` values the decoder tells apart, with some it does not. Registers
  hold the boundaries of a 4-bit word under three upper halves.
- Floating point: all singles of 5 bits, the boundary doubles of 10 bits.
  The real formats have the same classes and the same order.

The proofs remove the bounds of the hart, the memory, the reservation, the
debugger, the instructions, the floating-point unit, the system and the traces.

### Fairness

`System` assumes `WF_vars(Loop)`: the emulator is one thread that waits for nothing
while `Emulator::Process` runs. Commands of a debugger's client are not fair; it may
never send another. `RunEnds` is about the loop that `main` calls; that the guest
would write a host I/O value, or hit a breakpoint, nobody guarantees. Its bound
`MaxExecuted` stops a run without a limit only; `LimitAssumption` keeps it out of
the way of every other. `TraceTools` assumes `WF_vars(ToolStep)`: a tool is one thread
that reads files. The other modules assume no fairness; progress of LR/SC and of
breakpoints is stated as what a single step must do (`ScProgress`,
`LongBreakpointStops`).

Deadlock is checked in `reservation` only. Everywhere else the system really
stops: a process that has exited or thrown, an instruction that is done, a trace
that is closed.

## 4. Proofs

`HartProofs` proves, for every address space and all values software may write:

- `TypeCorrect`: `TypeOK`, inductive as it stands;
- `PrivilegeRises`, `MachineProtected`, `MachineFieldsNotSet`: the action
  properties. The lemma `StepShape` reduces the sixteen actions to four shapes
  (trap entry, return, CSR instruction, quiet step), and each property is shown
  for the four;
- `DataLevelNeverAbove`: `DataLevelBounded` from the inductive invariant
  `MppClear` (below M the field MPP is zero). The property alone is not
  inductive: it says nothing about MPP while MPRV is clear;
- `HandlerMasked`: `HandlerStartsMasked` from the invariant `EntryMasked`, that
  a trap entry left the enable bit of its level clear;
- `TimerPendingOnce`: `OneTimerPending`; every way a cycle writes `ip` leaves
  the timer bits `UpdateCsr` computed, of which there is at most one.

It also proves `FramesKept` (`FrameKept` is inductive together with
`TypeOK`) and from it `ReturnsResume`.

`MemoryAccessUnitProofs` proves, for every size of page table, any RAM and any
contents of it:

- `TypeCorrect`: `TypeOK`, inductive as it stands;
- `FaultsPrecise`: `FaultIsPrecise`, from the shapes in which an access ends;
- `UsesMarked`: `UseIsMarked`, in every mode. A walk over tables whose A and D
  bits were set in between ends where it ended before (`MarkedEntry`,
  `MarkedLeaves`), and every later access of the same cycle keeps the marks;
- `AccessesAreMapped` and `AddressSpaceIsStable`: `AccessesMapped` and
  `AddressSpaceStable`, under two hypotheses. `NoSv48` is there because finding 2
  refutes the first in Sv48, `~CrossPage` because an access across a page
  boundary refutes it. Where the tables lead to a leaf, the walk of the code ends
  there, and it ends in no other leaf (`WalkFinds`, `WalkIsLed`); the
  page it then computes from the leaf and the address is the one the tables map
  (`LeafPageIs`); accesses that only mark leave the tables' paths and their
  meaning as they are (`SamePaths`, `SameMeaning`).

`ReservationProofs` proves `Paired`, `Sound` and `Progress` for any number of
threads, words and nested handlers, on both widths. The inductive invariant
(`ReservationInvariant`) says what a live reservation means: it is at the
address of the newest load-reserved; if the running activation has a
load-reserved of its own pending, that is the newest one, and the words it saw
are unchanged but for RV64I stores; a constrained sequence has a live
reservation. The properties speak about the moment of a success, which says
nothing about the steps before, so they are not inductive.

`DebuggerProofs` proves `CodeAlwaysRecoverable` (`CodeRecoverable` is inductive
with `TypeOK`: an insertion at a patched instruction finds the saved value
already there, and layouts do not overlap), `StopsAreBreakpoints` from it, and
`LongBreakpointsStop`, which is `LongBreakpointStops`; for breakpoints of two
bytes the same is false (section 5).

`FpProofs` proves, for all formats, register contents and rounding modes,
`FpTypeCorrect`, `FpNothingLost` (`NothingLost` is inductive with `TypeOK`: an action
leaves FS and the registers alone, marks and makes dirty in one step, writes
without a mark, or empties `unsaved`) and `FpFlagsHaveACause`, from the fact that
`Raise` replaces SoftFloat's flags before `UpdateFpCsr` copies them.
`FpMatchesReference` proves `MatchesReference` for any number of exponents and
fractions: the fields of a pattern are put together again to a magnitude
(`MagnitudeOfFields`), every test of the library is a range of magnitudes
(`RangesHold`), patterns of the same order and sign are equal (`Orders`), so that
a number no other precedes is the one `CHOOSE` gives (`ReferenceIs`), and a class
is an interval of the order (`ClassOfHolds`).

`SystemProofs` proves, for every address map of `RegionAssumption`, any limit, any
accesses and runs of any length:

- `OutputIsInOrder`: `OutputInOrder` from `OutputInv`: a character that was sent
  and not printed waits in one of the two transmitters, the first of them behind
  nothing. `OutputInOrder` alone forgets which one waits where;
- `TraceMatches`: `TraceMatchesRun` from `CountInv`, which ties the three counts
  (of `Emulator`, of records, of the cycles since the start) to each other and to
  the place in the loop;
- `StraysMisaligned`: `StraysAreMisaligned`, from `StrayAccess`: the region that
  takes the first byte of an aligned access takes the last one too, or
  it is a RAM that ends within a word;
- `TimerKeeps`: `TimerKeepsTime` from `ClockInv`: after every step, of the loop, the
  debugger or a stop between them, `time` is the number of cycles plus `ahead`.
  `TimerKeepsTime` alone says nothing of `time` in the cycle of a store.

`TraceToolsProofs` proves, for any records, events, file sizes and options, a run
of any length and any end of the process:

- `RefinesLog`: `IsALog`, the refinement of `TraceLog`. The invariant `Core` says
  what the code keeps of its files: the buffer and every listed file are whole
  records, cut at their break nodes (`Cut`), as many as the count says; the
  reader stands between two records, in the file and at the offset that its
  count of cycles determines (`Standing`). The abstract position is counted in
  the files (`PositionIsCycle`), a skip by the index arrives where as many steps
  would (`Skips`), and `Write` adds its record behind the ones of the files,
  with a flush in between or without (`Flushed`, `Written`, `Dropped`);
- `CountsRight`: `CountsAddUp`, the same invariant for the writer of
  `rafi-conv`, which has written one record for each in front of its reader;
- `ReportsRight`: `ReportsAreTrue`. `rafi-dump` has printed the passing records in
  front of its reader (`Lists`), `rafi-check-io` holds the value of the last one;
- `DiffGreedy`: `DiffIsGreedy` from `Aligned`: between two matches all
  records are reported and fit nothing, matches and reports add up to the steps.

`ExecutorProofs` proves every property of the run `instructions` for any set of
instruction words, and for any registers, immediates and program counters of
every width that `WordBitsAssumption` names, the real 32 and 64 bits among them.
The inductive invariant `IInv` says that a decoded operation is in the list of
its class, width and format (`Listed`), and that an executed one ran in the
handler its switch has for it. The lists are what the three parts of the code
that list operations have in common; each part is compared with them:

- the decoder, function by function (`FoundI_Flow` to `FoundC_2`, `DecodeListed`),
  the switches (`SwitchI32` to `SwitchC64`) and the trap checks (`ChecksWide`,
  `ChecksC`). From these follow `Handled` (`EveryOpIsHandled`) and
  `AccessesChecked` (`AccessIsChecked`);
- `FormatsPartitioned`: `FormatsPartition`. Every layout is a partition of its
  immediate (`FormatsGood`), and an immediate is a multiple of what its lowest
  piece stands for (`ImmediateMultiple`);
- `MulDivs`: `MulDivLaw`, from the uniqueness of quotient and remainder
  (`DivUnique`, `SignedDivisionFits`) and the ranges in which a result survives
  the cut to its width (`WrapFacts`, `Extended`);
- `WordOperations`: `WordLaw`. The result of each handler is the sign extension of
  a word (`WordValues`), computed from remainders modulo a word only
  (`LowWordsOnly`);
- `CompressedAbbreviates`: `CompressedAgrees`, handler by handler
  (`ArithmeticAgrees`, `AccessAgrees`, `BranchAgrees`, `JumpAgrees`) for the pairs
  that the switches make (`CompressedPair`).

The functions that count and add up (`CyclesBefore`, `Position`, `SkipTo`) and the
powers of two (`Power`) are recursive functions, and the induction over them is
over sets of numbers: if the claim fails somewhere, it fails at a least number
(`LeastElement`), which the step from the one before contradicts.

The assumptions are the assumptions on the constants in each module. The ones
of the traces: a record fits in the logger's buffer, and with its break in a
file (`SizeAssumption`, `SizesAssumption`; in the code 4096 bytes and 256 MB),
the events are nodes with the identifiers of events (`EventsAssumption`), and
`rafi-diff` stops after at least one mismatch (`ThresholdAssumption`). The one of
floating point: registers can hold both infinities (`RegistersAssumption`), as
`fmv` can put any pattern there; the classes of the infinities are stated as the
ends of the order of what registers hold.

The ones of the executor: words have 4, 8, 16 or 32 bits, values and program
counters fit in two of them, and an immediate fits in one, as those of the
instruction set do (`ImmediatesAssumption`); without the last, `c.addiw` could
leave the word at its upper end as well.

Only model-checked are the two liveness properties, `RunEnds` and `ToolsEnd`, as
the prover does not do liveness under fairness.

## 5. Findings

With a run that shows them:

1. `InterruptController.cpp:205`: external interrupts are driven by the timer
   source (`hart_external`).
2. `MemoryAccessUnit.cpp:375`: the check of Sv48 uses VPN1 at the last level
   (`mmu_sv48`).
3. `Executor.cpp:1164`: a two-byte breakpoint is `c.ebreak`, which the decoder
   knows and the executor does not: the emulator exits (`debugger_short`).

Seen while modelling and kept in the models, in the sections above or here;
no document of the repository says what should happen:

- loads and stores across a page boundary use the physically next page;
- `IsValidAddress` (`Bus.cpp:126`) holds for no address, so the debugger's memory
  reads are answered with filler; sessions end without closing their socket
  (`GdbServer.cpp:95`), and an answer to a client that has left can end the program;
- the `divw`, `c.addiw`, `c.addw`, `c.subw` and `jalr` behaviour listed under
  Executor, and the floating-point behaviour listed under Fp;
- `Bus::Write` checks the first byte of a store only and `Ram` asserts the rest
  (`StraysAreMisaligned` says that an aligned access runs over only where a RAM
  ends within a word, as `--ram-size` may ask for);
- every record has the loop's limit as its cycle number (`Emulator.cpp:63`);
- the record of a cycle that throws, and everything since the last flush, is lost;
- `mret` to the reserved level, and `uret`, end the emulator.

## 6. Not modelled

- Cycle and instruction counters with their enables, and the registers the
  emulator keeps for software and never reads (scratch, cause, trap value,
  identification): single assignments that nothing else depends on.
- Registers of PLIC, Timer and VirtIO beyond which accesses they take: they feed
  nothing. The PLIC requests no interrupt and the timer's request is not wired.
  The receivers of the UARTs are not implemented in the code.
- SoftFloat's arithmetic: an external library.
- Trace printers, `OpApi` and the other formatting of text; option parsing;
  loading of files at start-up; unit tests.
- An index line cut in the middle by a kill.

## 7. Plan

1. State the debugger's abstract specification, memory without the breakpoints,
   and prove the step simulation with `CodeRecoverable`.
2. The counters of `Csr` with their enables, in `System`, where time already is.
