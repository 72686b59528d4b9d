--------------------------------- MODULE Fp ---------------------------------
(***************************************************************************)
(* The floating-point unit as guest software sees it: the field FS of the  *)
(* status register, fcsr, the exception flags that SoftFloat keeps in a    *)
(* global of the emulator, and the handlers of the extensions F and D and  *)
(* of the compressed loads and stores (Executor.cpp).                      *)
(*                                                                         *)
(* A step is one instruction; instr then tells what it was, until the      *)
(* cycle ends.  A register can hold anything (fmv puts it there), so the   *)
(* sources of an instruction are any register contents.  Results are kept  *)
(* for the library's own operations; SoftFloat's arithmetic matters here   *)
(* by the flags it raises, any that the operation can raise.               *)
(*                                                                         *)
(* FS is for an operating system that saves the registers of a thread only *)
(* when they are dirty; Switch is that system.  unsaved tells which        *)
(* instructions have written registers since they were saved.              *)
(***************************************************************************)
EXTENDS FpFormats

CONSTANTS
    Single, Double,    \* the formats of float and of double
    Boxes,             \* register contents for single precision
    Doubles,           \* register contents for double precision
    RoundModes         \* values of rounding fields, 7 for the one in fcsr

ASSUME FormatsAssumption == IsFormat(Single) /\ IsFormat(Double) /\ Single # Double
ASSUME RoundModesAssumption == RoundModes \subseteq 0..7

\* A register can hold anything, the infinities among them.
Unboxed == {UnboxFloat(Single, reg) : reg \in Boxes}
ASSUME RegistersAssumption ==
    /\ Boxes \subseteq Nat /\ Doubles \subseteq 0..(Patterns(Double) - 1)
    /\ \A sign \in {0, 1} :
           /\ \E v \in Unboxed : IsInf(Single, v) /\ GetSign(Single, v) = sign
           /\ \E v \in Doubles : IsInf(Double, v) /\ GetSign(Double, v) = sign

Flags == {"NV", "NX"}    \* invalid, and one for the others
Off == 0
Dirty == 3

VARIABLES
    fs,        \* FS: 0 off, 1 initial, 2 clean, 3 dirty
    frm,       \* the rounding mode in fcsr
    fflags,    \* the accrued exceptions in fcsr
    soft,      \* softfloat_exceptionFlags
    unsaved,   \* which writes of registers have not been saved
    instr,     \* the instruction of this cycle
    running    \* the process runs

vars == <<fs, frm, fflags, soft, unsaved, instr, running>>

NoInstr == [op |-> "none", raised |-> {}]

----------------------------------------------------------------------------
(* Parts of the handlers.                                                  *)

IsFpEnabled == fs # Off

Begin == running /\ instr = NoInstr

\* Mutant of Raise: the flags of earlier operations stay.
RaiseUncleared(raised) == soft' = soft \cup raised

\* The functions of FpApi.cpp clear SoftFloat's flags first.
Raise(raised) == soft' = raised

\* The flags are stored, not added to those of fcsr (defect).
UpdateFpCsr == fflags' = soft'

NotifyFpDirty == fs' = Dirty

WriteRegister(kind) == unsaved' = unsaved \cup {kind}

Finish(op, raised) == instr' = [op |-> op, raised |-> raised]

RoundMode(field) == IF field = 7 THEN frm ELSE field

\* ConvertToHostRoundingMode knows five modes and ends the process otherwise.
IsHostRound(mode) == mode \in 0..4

----------------------------------------------------------------------------
(* Instructions of F and D.                                                *)

Illegal ==
    /\ Begin /\ ~IsFpEnabled
    /\ Finish("illegal", {})
    /\ UNCHANGED <<fs, frm, fflags, soft, unsaved, running>>

Fd == Begin /\ IsFpEnabled /\ UNCHANGED <<frm, running>>

\* The rounding mode that is set is the host's; SoftFloat computes with its own, which
\* nothing sets.
Computes(op) ==
    \E field \in RoundModes, raised \in SUBSET Flags :
        /\ IsHostRound(RoundMode(field))
        /\ Fd
        /\ Raise(raised) /\ UpdateFpCsr /\ NotifyFpDirty /\ WriteRegister("marked")
        /\ Finish(op, raised)

MulAdd == Computes("muladd")      \* fmadd ... fnmsub
Compute == Computes("compute")    \* fadd ... fsqrt, fcvt from integers

BadRound ==
    \E field \in RoundModes :
        /\ Begin /\ IsFpEnabled
        /\ ~IsHostRound(RoundMode(field))
        /\ running' = FALSE
        /\ UNCHANGED <<fs, frm, fflags, soft, unsaved, instr>>

MinMax(fmt, x, y) ==
    /\ Fd
    /\ Raise(LeQuietRaises(fmt, x, y)) /\ UpdateFpCsr /\ NotifyFpDirty /\ WriteRegister("marked")
    /\ \/ instr' = [op |-> "min", raised |-> soft', fmt |-> fmt, x |-> x, y |-> y,
                    value |-> MinImpl(fmt, x, y)]
       \/ instr' = [op |-> "max", raised |-> soft', fmt |-> fmt, x |-> x, y |-> y,
                    value |-> MaxImpl(fmt, x, y)]

MinMaxSingle == \E x, y \in Boxes : MinMax(Single, UnboxFloat(Single, x), UnboxFloat(Single, y))
MinMaxDouble == \E x, y \in Doubles : MinMax(Double, x, y)

\* feq, flt, fle: the flags change, FS does not.
Compare ==
    \E raised \in SUBSET {"NV"} :
        /\ Fd
        /\ Raise(raised) /\ UpdateFpCsr
        /\ Finish("compare", raised)
        /\ UNCHANGED <<fs, unsaved>>

\* fcvt to integers: the rounding field goes to SoftFloat unchecked.
ConvertToInt ==
    \E raised \in SUBSET Flags :
        /\ Fd
        /\ Raise(raised) /\ UpdateFpCsr
        /\ Finish("toInt", raised)
        /\ UNCHANGED <<fs, unsaved>>

\* fcvt.d.s and fcvt.s.d
ConvertFp ==
    \E raised \in SUBSET Flags :
        /\ Fd
        /\ Raise(raised) /\ UpdateFpCsr /\ NotifyFpDirty /\ WriteRegister("marked")
        /\ Finish("convert", raised)

\* fsgnj, fsgnjn, fsgnjx store flags although they compute nothing (defect).
ConvertSign ==
    /\ Fd
    /\ UNCHANGED soft
    /\ UpdateFpCsr /\ NotifyFpDirty /\ WriteRegister("marked")
    /\ Finish("sign", {})

\* fclass.s reads the low half of the register, boxed or not (defect).
Class ==
    /\ Fd
    /\ \/ \E reg \in Boxes :
            instr' = [op |-> "class", raised |-> {}, fmt |-> Single, reg |-> reg,
                      value |-> ConvertToRvFpClass(Single, reg % Patterns(Single))]
       \/ \E reg \in Doubles :
            instr' = [op |-> "class", raised |-> {}, fmt |-> Double, reg |-> reg,
                      value |-> ConvertToRvFpClass(Double, reg)]
    /\ UNCHANGED <<fs, fflags, soft, unsaved>>

\* fmv to an integer register, fsw, fsd.
MoveToInt ==
    /\ Fd
    /\ Finish("read", {})
    /\ UNCHANGED <<fs, fflags, soft, unsaved>>

\* Mutant of Load: the register file is written without a note.
LoadUnmarked ==
    /\ Fd
    /\ WriteRegister("marked")
    /\ Finish("load", {})
    /\ UNCHANGED <<fs, fflags, soft>>

\* fmv from an integer register, flw, fld.
Load ==
    /\ Fd
    /\ NotifyFpDirty /\ WriteRegister("marked")
    /\ Finish("load", {})
    /\ UNCHANGED <<fflags, soft>>

----------------------------------------------------------------------------
(* Other instructions that reach the unit.                                 *)

\* c.fld, c.flw, c.fldsp, c.flwsp: neither FS nor the note (defect).
C_Load ==
    /\ Begin
    /\ WriteRegister("C_Load")
    /\ Finish("C_Load", {})
    /\ UNCHANGED <<fs, frm, fflags, soft, running>>

\* Mutant of WriteFpCsr: a write of fflags is not masked.
WriteFpCsrUnmasked ==
    /\ Begin
    /\ fflags' \in SUBSET (Flags \cup {"RM"})
    /\ Finish("csr", {})
    /\ UNCHANGED <<fs, frm, soft, unsaved, running>>

\* Writes of fflags, frm and fcsr, whatever FS is.
WriteFpCsr ==
    /\ Begin
    /\ \/ fflags' \in SUBSET Flags /\ UNCHANGED frm
       \/ frm' \in RoundModes /\ UNCHANGED fflags
       \/ fflags' \in SUBSET Flags /\ frm' \in RoundModes
    /\ Finish("csr", {})
    /\ UNCHANGED <<fs, soft, unsaved, running>>

\* A write of ustatus has no FS and clears it.
WriteUstatus ==
    /\ Begin
    /\ fs' = Off
    /\ unsaved' = IF "marked" \in unsaved THEN (unsaved \ {"marked"}) \cup {"ustatus"} ELSE unsaved
    /\ Finish("ustatus", {})
    /\ UNCHANGED <<frm, fflags, soft, running>>

\* The operating system gives the unit to another thread and writes FS; it has saved
\* the registers if FS was dirty.
Switch ==
    /\ Begin
    /\ fs' \in 0..3
    /\ unsaved' = {}
    /\ Finish("switch", {})
    /\ UNCHANGED <<frm, fflags, soft, running>>

EndOfCycle ==
    /\ running /\ instr # NoInstr
    /\ instr' = NoInstr
    /\ UNCHANGED <<fs, frm, fflags, soft, unsaved, running>>

Init ==
    /\ fs = Off /\ frm = 0
    /\ fflags = {} /\ soft = {}
    /\ unsaved = {}
    /\ instr = NoInstr
    /\ running = TRUE

Next ==
    \/ Illegal \/ MulAdd \/ Compute \/ BadRound \/ MinMaxSingle \/ MinMaxDouble \/ Compare \/ ConvertToInt
    \/ ConvertFp \/ ConvertSign \/ Class \/ MoveToInt \/ Load \/ C_Load
    \/ WriteFpCsr \/ WriteUstatus \/ Switch \/ EndOfCycle

Spec == Init /\ [][Next]_vars

----------------------------------------------------------------------------
(* Properties.                                                             *)

TypeOK ==
    /\ fs \in 0..3
    /\ frm \in 0..7
    /\ fflags \in SUBSET Flags
    /\ soft \in SUBSET Flags
    /\ unsaved \in SUBSET {"marked", "C_Load", "ustatus"}
    /\ running \in BOOLEAN

\* An operating system that goes by FS loses no register that an instruction of F or
\* D has written: every such handler calls NotifyFpDirty before the next switch can
\* look.  The compressed loads do not, and a write of ustatus takes the note away;
\* what they lose is not "marked".
NothingLost == fs # Dirty => "marked" \notin unsaved

\* A flag that appears in fcsr has been raised by the instruction that stored it, or
\* was written by software: flags of an earlier computation, still in SoftFloat's
\* global after software has cleared fcsr, do not come back, except by a sign
\* injection.
FlagsHaveACause ==
    [][\A flag \in fflags' \ fflags : flag \in instr'.raised \/ instr'.op \in {"csr", "sign"}]_vars

Number(fmt, v) == ~IsNan(fmt, v)

\* Minimum and maximum of two numbers, -0 below +0; a NaN gives way to a number.
Below(fmt, x, y) ==
    Order(fmt, x) < Order(fmt, y)
        \/ (Order(fmt, x) = Order(fmt, y) /\ GetSign(fmt, x) >= GetSign(fmt, y))

Reference(op, fmt, x, y) ==
    LET numbers == {v \in {x, y} : Number(fmt, v)}
    IN  IF numbers = {} THEN GetCanonicalQuietNan(fmt)
        ELSE CHOOSE v \in numbers :
                \A w \in numbers : IF op = "min" THEN Below(fmt, v, w) ELSE Below(fmt, w, v)

\* fmin and fmax give the lesser and the greater number.  Not so fmin when its first
\* source is a zero and the second a NaN, or the first is +0 and the second positive:
\* it gives the second, because the test for two zeros looks at one.  Two NaNs, one
\* of them signaling, give a signaling NaN instead of the canonical one.
MinMaxReference ==
    instr.op \in {"min", "max"} =>
        LET fmt == instr.fmt  x == instr.x  y == instr.y
        IN  \/ instr.value = Reference(instr.op, fmt, x, y)
            \/ /\ instr.op = "min" /\ IsZero(fmt, x) /\ instr.value = y
               /\ \/ IsNan(fmt, y)
                  \/ GetSign(fmt, x) = 0 /\ Order(fmt, y) > 0
            \/ /\ IsNan(fmt, x) /\ IsNan(fmt, y)
               /\ IsSignalingNan(fmt, x) \/ IsSignalingNan(fmt, y)
               /\ instr.value = GetCanonicalSignalingNan(fmt)

\* fclass orders the numbers as they are ordered, has its two ends for the infinities
\* and its middle for the zeros, and tells NaNs from numbers.  For singles it
\* classifies what the other instructions read only if the register is boxed.
ClassLaw ==
    instr.op = "class" =>
        LET fmt == instr.fmt
            v   == IF fmt = Single THEN UnboxFloat(Single, instr.reg) ELSE instr.reg
            others == IF fmt = Single THEN Unboxed ELSE Doubles
            numbers == {w \in others : Number(fmt, w)}
            class == instr.value
        IN  \/ fmt = Single /\ ~IsBoxed(Single, instr.reg)
            \/ /\ IsNan(fmt, v) <=> class \in {8, 9}
               /\ IsSignalingNan(fmt, v) <=> class = 8
               /\ Order(fmt, v) = 0 <=> class \in {3, 4}
               /\ class = 0 <=> Number(fmt, v) /\ \A w \in numbers : Order(fmt, v) <= Order(fmt, w)
               /\ class = 7 <=> Number(fmt, v) /\ \A w \in numbers : Order(fmt, w) <= Order(fmt, v)
               /\ Number(fmt, v) => \A w \in numbers :
                     Order(fmt, w) < Order(fmt, v) => ConvertToRvFpClass(fmt, w) <= class

\* The results of librafi_fp itself, as against SoftFloat's, are those of reference
\* definitions: minimum, maximum and class.
MatchesReference == MinMaxReference /\ ClassLaw
=============================================================================
