------------------------------ MODULE Executor ------------------------------
(***************************************************************************)
(* One cycle of the processor from the fetched word on                     *)
(* (Processor::ProcessCycle): decode, check for traps, execute, check      *)
(* again.  The executor (Executor.cpp) finds a handler for the decoded     *)
(* operation in one switch and the trap check in another; both, and the    *)
(* decoder, must agree on which operand the operation carries, because     *)
(* each asks the variant for one alternative.                              *)
(*                                                                         *)
(* Words are decoded at their real size.  Handlers compute on scaled       *)
(* registers: a word of WordBits bits stands for 32, a double word of      *)
(* twice as many for 64, a byte and a half word for a quarter and a half   *)
(* of a word.  One memory cell, as wide as a double word, stands for the   *)
(* bytes at the accessed address.  The destination of an operation is the  *)
(* register of its first source, the case where reading late would show.   *)
(*                                                                         *)
(* The handlers of CSRs and of privileged instructions are in Hart and     *)
(* Csr, reservations in Reservation, floating-point arithmetic in Fp.      *)
(***************************************************************************)
EXTENDS Decoder

CONSTANTS
    WordBits,      \* the width that stands for 32 bits, a power of two
    Halfwords,     \* 16-bit instruction words
    Wide,          \* 32-bit instruction words, as <<low, high>>
    Values,        \* double words the registers and the cell may hold
    Immediates,    \* immediates of the scaled handlers: those of an instruction fit a word
    Pcs            \* program counters

ASSUME WordBitsAssumption == WordBits \in {4, 8, 16, 32}
ASSUME ValuesAssumption == Values \subseteq 0..(Power[2 * WordBits] - 1)
ASSUME PcsAssumption == Pcs # {} /\ Pcs \subseteq 0..(Power[2 * WordBits] - 1)
ASSUME ImmediatesAssumption == Immediates \subseteq -(Power[WordBits - 1])..(Power[WordBits - 1] - 1)
ASSUME WordsAssumption ==
    LET words == 0..(Power[16] - 1)
    IN  Halfwords \subseteq words /\ Wide \subseteq words \X words

VARIABLES
    xlen,      \* the width of the hart
    stage,     \* how far the cycle is
    op,        \* the decoded operation
    in,        \* what the handler reads
    out        \* what the handler leaves

vars == <<xlen, stage, op, in, out>>

NoOp  == [class |-> "none"]
NoIn  == [a |-> 0]
NoOut == [end |-> "none"]

----------------------------------------------------------------------------
(* The switches.  A table maps a handler to the codes that reach it.       *)

ProcessRV32I ==
    [Lui |-> {"lui"}, Auipc |-> {"auipc"}, Jal |-> {"jal"}, Jalr |-> {"jalr"},
     Branch |-> {"beq", "bne", "blt", "bge", "bltu", "bgeu"},
     Load |-> {"lb", "lh", "lw", "lbu", "lhu"},
     Store |-> {"sb", "sh", "sw"},
     AluImm |-> {"addi", "slti", "sltiu", "xori", "ori", "andi"},
     Shift |-> {"sll", "srl", "sra"},
     ShiftImm |-> {"slli", "srli", "srai"},
     Alu |-> {"add", "sub", "slt", "sltu", "xor_", "or_", "and_"},
     Priv |-> {"ecall", "ebreak", "mret", "sret", "uret", "wfi"},
     Fence |-> {"fence", "fence_i", "sfence_vma"},
     Csr |-> {"csrrw", "csrrs", "csrrc"},
     CsrImm |-> {"csrrwi", "csrrsi", "csrrci"}]

ProcessRV64I ==
    [ProcessRV32I EXCEPT
        !.Load = @ \cup {"ld", "lwu"},
        !.Store = @ \cup {"sd"},
        !.AluImm = @ \cup {"addiw"},
        !.Shift = @ \cup {"sllw", "srlw", "sraw"},
        !.ShiftImm = @ \cup {"slliw", "srliw", "sraiw"},
        !.Alu = @ \cup {"addw", "subw"}]

ProcessRV32M == [MulDiv |-> {"mul", "mulh", "mulhsu", "mulhu", "div", "divu", "rem", "remu"}]
ProcessRV64M == [ProcessRV32M EXCEPT !.MulDiv = @ \cup {"mulw", "divw", "divuw", "remw", "remuw"}]

ProcessRV32A ==
    [LoadReserved |-> {"lr_w"}, StoreConditional |-> {"sc_w"}, Atomic |-> {WordCode[amo] : amo \in Amos}]
ProcessRV64A ==
    [LoadReserved |-> {"lr_w", "lr_d"}, StoreConditional |-> {"sc_w", "sc_d"},
     Atomic |-> {code[amo] : amo \in Amos, code \in {WordCode, DoubleCode}}]

ProcessRVF ==
    [F_Load |-> {"flw"}, F_Store |-> {"fsw"},
     MulAdd |-> {"fmadd_s", "fmsub_s", "fnmadd_s", "fnmsub_s"},
     F_Compute |-> {"fadd_s", "fsub_s", "fmul_s", "fdiv_s", "fsqrt_s", "fmin_s", "fmax_s",
                    "fcvt_s_w", "fcvt_s_wu", "fcvt_s_l", "fcvt_s_lu",
                    "feq_s", "flt_s", "fle_s", "fclass_s", "fmv_x_w", "fmv_w_x",
                    "fcvt_w_s", "fcvt_wu_s", "fcvt_l_s", "fcvt_lu_s",
                    "fsgnj_s", "fsgnjn_s", "fsgnjx_s"}]

ProcessRVD ==
    [F_Load |-> {"fld"}, F_Store |-> {"fsd"},
     MulAdd |-> {"fmadd_d", "fmsub_d", "fnmadd_d", "fnmsub_d"},
     F_Compute |-> {"fadd_d", "fsub_d", "fmul_d", "fdiv_d", "fsqrt_d", "fmin_d", "fmax_d",
                    "fcvt_d_w", "fcvt_d_wu", "fcvt_d_l", "fcvt_d_lu",
                    "feq_d", "flt_d", "fle_d", "fclass_d", "fmv_x_d", "fmv_d_x",
                    "fcvt_w_d", "fcvt_wu_d", "fcvt_l_d", "fcvt_lu_d", "fcvt_s_d", "fcvt_d_s",
                    "fsgnj_d", "fsgnjn_d", "fsgnjx_d"}]

ProcessRV32C ==
    [C_Nop |-> {"c_nop"},
     C_Alu |-> {"c_mv", "c_add", "c_sub", "c_and", "c_or", "c_xor"},
     C_AluImm |-> {"c_li", "c_lui", "c_addi", "c_andi", "c_srli", "c_srai", "c_slli"},
     C_Branch |-> {"c_beqz", "c_bnez"},
     C_ADDI4SPN |-> {"c_addi4spn"}, C_ADDI16SP |-> {"c_addi16sp"},
     C_Load |-> {"c_fld", "c_flw", "c_lw"}, C_LoadSP |-> {"c_fldsp", "c_flwsp", "c_lwsp"},
     C_Store |-> {"c_fsd", "c_fsw", "c_sw"}, C_StoreSP |-> {"c_fsdsp", "c_fswsp", "c_swsp"},
     C_J |-> {"c_j", "c_jal"}, C_JR |-> {"c_jr", "c_jalr"}]

\* Mutant of ProcessRV64C: its switch has no case for c.addw.
ProcessRV64CShort ==
    [ProcessRV32C EXCEPT
        !.C_Alu = @ \cup {"c_subw"},
        !.C_AluImm = @ \cup {"c_addiw"},
        !.C_Load = {"c_fld", "c_ld", "c_lw"}, !.C_LoadSP = {"c_fldsp", "c_ldsp", "c_lwsp"},
        !.C_Store = {"c_fsd", "c_sd", "c_sw"}, !.C_StoreSP = {"c_fsdsp", "c_sdsp", "c_swsp"},
        !.C_J = {"c_j"}]

ProcessRV64C ==
    [ProcessRV32C EXCEPT
        !.C_Alu = @ \cup {"c_addw", "c_subw"},
        !.C_AluImm = @ \cup {"c_addiw"},
        !.C_Load = {"c_fld", "c_ld", "c_lw"}, !.C_LoadSP = {"c_fldsp", "c_ldsp", "c_lwsp"},
        !.C_Store = {"c_fsd", "c_sd", "c_sw"}, !.C_StoreSP = {"c_fsdsp", "c_sdsp", "c_swsp"},
        !.C_J = {"c_j"}]

ProcessOp(class) ==
    CASE class = "I" -> IF xlen = 32 THEN ProcessRV32I ELSE ProcessRV64I
      [] class = "M" -> IF xlen = 32 THEN ProcessRV32M ELSE ProcessRV64M
      [] class = "A" -> IF xlen = 32 THEN ProcessRV32A ELSE ProcessRV64A
      [] class = "F" -> ProcessRVF
      [] class = "D" -> ProcessRVD
      [] class = "C" -> IF xlen = 32 THEN ProcessRV32C ELSE ProcessRV64C

\* The handler a switch sends a code to; "Error" is its default.
Handler(table, code) ==
    IF \E h \in DOMAIN table : code \in table[h]
    THEN CHOOSE h \in DOMAIN table : code \in table[h] ELSE "Error"

\* The alternative a handler takes from the operand.
Takes ==
    [Lui |-> "U", Auipc |-> "U", Jal |-> "J", Jalr |-> "I", Branch |-> "B", Load |-> "I",
     Store |-> "S", AluImm |-> "I", Shift |-> "R", ShiftImm |-> "ShiftImm", Alu |-> "R",
     Csr |-> "Csr", CsrImm |-> "CsrImm", MulDiv |-> "R",
     LoadReserved |-> "R", StoreConditional |-> "R", Atomic |-> "R",
     F_Load |-> "I", F_Store |-> "S", MulAdd |-> "R4", F_Compute |-> "R",
     C_Alu |-> "CR", C_AluImm |-> "CI", C_Branch |-> "CB", C_ADDI4SPN |-> "CIW", C_ADDI16SP |-> "CI",
     C_Load |-> "CL", C_LoadSP |-> "CI", C_Store |-> "CS", C_StoreSP |-> "CSS",
     C_J |-> "CJ", C_JR |-> "CR"]

----------------------------------------------------------------------------
(* The trap checks before execution: the accesses whose address is tried.  *)

\* Mutant of PreCheckTrapRV32C: c.fswsp is not checked.
PreCheckTrapRV32CShort ==
    [C_Load |-> {"c_fld", "c_flw", "c_lw"}, C_LoadSP |-> {"c_fldsp", "c_flwsp", "c_lwsp"},
     C_Store |-> {"c_fsd", "c_fsw", "c_sw"}, C_StoreSP |-> {"c_fsdsp", "c_swsp"}]

PreCheckTrapRV32C ==
    [C_Load |-> {"c_fld", "c_flw", "c_lw"}, C_LoadSP |-> {"c_fldsp", "c_flwsp", "c_lwsp"},
     C_Store |-> {"c_fsd", "c_fsw", "c_sw"}, C_StoreSP |-> {"c_fsdsp", "c_fswsp", "c_swsp"}]

PreCheckTrapRV64C ==
    [C_Load |-> {"c_fld", "c_ld", "c_lw"}, C_LoadSP |-> {"c_fldsp", "c_ldsp", "c_lwsp"},
     C_Store |-> {"c_fsd", "c_sd", "c_sw"}, C_StoreSP |-> {"c_fsdsp", "c_sdsp", "c_swsp"}]

PreCheckTrapWide ==
    [Load |-> {"lb", "lh", "lw", "lbu", "lhu", "lwu", "ld", "flw", "fld"},
     Store |-> {"sb", "sh", "sw", "sd", "fsw", "fsd"},
     LoadReserved |-> {"lr_d", "lr_w"}, StoreConditional |-> {"sc_d", "sc_w"},
     Atomic |-> {code[amo] : amo \in Amos, code \in {WordCode, DoubleCode}}]

PreCheckTable(class) ==
    IF class # "C" THEN PreCheckTrapWide ELSE IF xlen = 32 THEN PreCheckTrapRV32C ELSE PreCheckTrapRV64C

CheckedTypes(check) ==
    CASE check \in {"Load", "C_Load", "C_LoadSP", "LoadReserved"} -> {"Load"}
      [] check \in {"Store", "C_Store", "C_StoreSP", "StoreConditional"} -> {"Store"}
      [] check = "Atomic" -> {"Load", "Store"}
      [] check = "Error" -> {}

----------------------------------------------------------------------------
(* Scaled integers.                                                        *)

DoubleBits == 2 * WordBits
ByteBits   == WordBits \div 4
HalfBits   == WordBits \div 2

Bits    == IF xlen = 32 THEN WordBits ELSE DoubleBits
Wrap(v) == v % Power[DoubleBits]

Signed(bits, v) == LET u == v % Power[bits] IN IF u >= Power[bits - 1] THEN u - Power[bits] ELSE u

\* ReadUInt32, ReadInt32, ReadUInt64, ReadInt64, as the width of the hart has it.
Unsigned(v) == v % Power[Bits]
Integer(v)  == Signed(Bits, v)

\* WriteInt32 and WriteUInt32 leave the upper half of the entry, the others do not.
Write(bits, old, v) == (old \div Power[bits]) * Power[bits] + (v % Power[bits])

\* Words bit by bit.
Common[x \in Nat, y \in Nat] ==
    IF x = 0 \/ y = 0 THEN 0 ELSE (x % 2) * (y % 2) + 2 * Common[x \div 2, y \div 2]

BitAnd(x, y) == Common[x, y]
BitOr(x, y)  == x + y - Common[x, y]
BitXor(x, y) == x + y - 2 * Common[x, y]

\* SignExtend of Util.h on a 64-bit argument.
SignExtend(width, v) ==
    LET u == Wrap(v)
    IN  IF (u \div Power[width - 1]) % 2 = 1 THEN Power[DoubleBits] - Power[width - 1] + (u % Power[width - 1]) ELSE u

\* A 32-bit int converted to 64 bits.
Int32(v) == Wrap(Signed(WordBits, v))

\* The machine takes a shift count modulo the width of the shifted operand; the
\* language leaves a larger one undefined.
Shl(bits, v, n) == (v * Power[n % bits]) % Power[bits]
Shr(bits, v, n) == (v % Power[bits]) \div Power[n % bits]
Sar(bits, v, n) == (Signed(bits, v) \div Power[n % bits]) % Power[bits]

\* Division as the machine does it: towards zero.
Quotient(a, b) ==
    LET size(n) == IF n < 0 THEN -n ELSE n
        q == size(a) \div size(b)
    IN  IF (a < 0) = (b < 0) THEN q ELSE -q
Remainder(a, b) == a - b * Quotient(a, b)

----------------------------------------------------------------------------
(* The handlers: the value for the destination, as a double word.          *)

Alu(code, a, b) ==
    CASE code = "add"  -> Integer(a) + Integer(b)
      [] code = "sub"  -> Integer(a) - Integer(b)
      [] code = "slt"  -> IF Integer(a) < Integer(b) THEN 1 ELSE 0
      [] code = "sltu" -> IF Unsigned(a) < Unsigned(b) THEN 1 ELSE 0
      [] code = "xor_" -> BitXor(Unsigned(a), Unsigned(b))
      [] code = "or_"  -> BitOr(Unsigned(a), Unsigned(b))
      [] code = "and_" -> BitAnd(Unsigned(a), Unsigned(b))
      [] code = "addw" -> SignExtend(WordBits, Int32(Signed(WordBits, a) + Signed(WordBits, b)))
      [] code = "subw" -> SignExtend(WordBits, Int32(Signed(WordBits, a) - Signed(WordBits, b)))

AluImm(code, a, imm) ==
    CASE code = "addi"  -> Integer(a) + imm
      [] code = "slti"  -> IF Integer(a) < imm THEN 1 ELSE 0
      [] code = "sltiu" -> IF Unsigned(a) < Unsigned(imm) THEN 1 ELSE 0
      [] code = "xori"  -> BitXor(Unsigned(a), Unsigned(imm))
      [] code = "ori"   -> BitOr(Unsigned(a), Unsigned(imm))
      [] code = "andi"  -> BitAnd(Unsigned(a), Unsigned(imm))
      [] code = "addiw" -> SignExtend(WordBits, Int32(Signed(WordBits, a) + imm))

Shift(code, a, n) ==
    CASE code = "sll"  -> Shl(Bits, a, n)
      [] code = "srl"  -> Shr(Bits, a, n)
      [] code = "sra"  -> Sar(Bits, a, n)
      [] code = "sllw" -> SignExtend(WordBits, Int32(Shl(WordBits, a, n % DoubleBits)))
      [] code = "srlw" -> SignExtend(WordBits, Shr(WordBits, a, n % DoubleBits))
      [] code = "sraw" -> SignExtend(WordBits, Int32(Sar(WordBits, a, n % DoubleBits)))

ShiftImm(code, a, shamt) ==
    CASE code = "slli"  -> Shl(Bits, a, shamt)
      [] code = "srli"  -> Shr(Bits, a, shamt)
      [] code = "srai"  -> Sar(Bits, a, shamt)
      [] code = "slliw" -> SignExtend(WordBits, Int32(Shl(WordBits, a, shamt)))
      [] code = "srliw" -> SignExtend(WordBits, Shr(WordBits, a, shamt))
      [] code = "sraiw" -> SignExtend(WordBits, Int32(Sar(WordBits, a, shamt)))

Smallest(bits) == -(Power[bits - 1])

Mul(code, a, b) ==
    CASE code = "mul"    -> Integer(a) * Integer(b)
      [] code = "mulh"   -> (Integer(a) * Integer(b)) \div Power[Bits]
      [] code = "mulhsu" -> (Integer(a) * Unsigned(b)) \div Power[Bits]
      [] code = "mulhu"  -> (Unsigned(a) * Unsigned(b)) \div Power[Bits]

Div(code, a, b) ==
    CASE code = "div" ->
           IF Integer(a) = Smallest(Bits) /\ Integer(b) = -1 THEN Integer(a)
           ELSE IF Integer(b) = 0 THEN -1 ELSE Quotient(Integer(a), Integer(b))
      [] code = "divu" -> IF Integer(b) = 0 THEN -1 ELSE Unsigned(a) \div Unsigned(b)
      [] code = "rem" ->
           IF Integer(a) = Smallest(Bits) /\ Integer(b) = -1 THEN 0
           ELSE IF Integer(b) = 0 THEN Integer(a) ELSE Remainder(Integer(a), Integer(b))
      [] code = "remu" -> IF Integer(b) = 0 THEN Integer(a) ELSE Unsigned(a) % Unsigned(b)

\* Division instructions of RV64 on the low words.  The test for zero of divw reads
\* the whole register (defect): a zero word below a nonzero upper half is divided by.
MulDivWord(code, a, b) ==
    LET sa == Signed(WordBits, a)    sb == Signed(WordBits, b)
        ua == a % Power[WordBits]    ub == b % Power[WordBits]
        overflow == sa = Smallest(WordBits) /\ sb = -1
    IN  CASE code = "mulw"  -> SignExtend(WordBits, Int32(sa * sb))
          [] code = "divw"  -> IF overflow THEN SignExtend(WordBits, Power[WordBits - 1])
                               ELSE IF Signed(DoubleBits, b) = 0 THEN -1
                               ELSE SignExtend(WordBits, Int32(Quotient(sa, sb)))
          [] code = "divuw" -> IF ub = 0 THEN -1 ELSE SignExtend(WordBits, ua \div ub)
          [] code = "remw"  -> IF overflow THEN 0
                               ELSE IF sb = 0 THEN SignExtend(WordBits, Int32(sa))
                               ELSE SignExtend(WordBits, Int32(Remainder(sa, sb)))
          [] code = "remuw" -> IF ub = 0 THEN SignExtend(WordBits, Int32(sa)) ELSE SignExtend(WordBits, ua % ub)

WordDivisions == {"mulw", "divw", "divuw", "remw", "remuw"}

\* Mutant of Kills: divuw, too, tests the whole register.
KillsUnsigned(code, b) == code \in {"divw", "divuw"} /\ b # 0 /\ b % Power[WordBits] = 0

\* The division instruction of the machine raises SIGFPE.
Kills(code, b) == code = "divw" /\ b # 0 /\ b % Power[WordBits] = 0

C_Alu(code, a, b) ==
    CASE code = "c_mv"   -> Integer(b)
      [] code = "c_add"  -> Integer(a) + Integer(b)
      [] code = "c_sub"  -> Integer(a) - Integer(b)
      [] code = "c_and"  -> BitAnd(Unsigned(a), Unsigned(b))
      [] code = "c_or"   -> BitOr(Unsigned(a), Unsigned(b))
      [] code = "c_xor"  -> BitXor(Unsigned(a), Unsigned(b))
      [] code = "c_addw" -> SignExtend(WordBits, Int32(Signed(WordBits, a) + Signed(WordBits, b)))
      [] code = "c_subw" -> SignExtend(WordBits, Int32(Signed(WordBits, a) - Signed(WordBits, b)))

\* The sum of c_addiw has 64 bits when it is sign-extended (defect): below the
\* smallest word its upper half stays.
C_AluImm(code, a, imm) ==
    CASE code \in {"c_li", "c_lui"} -> imm
      [] code = "c_addi"  -> Integer(a) + imm
      [] code = "c_addiw" -> SignExtend(WordBits, Signed(WordBits, a) + imm)
      [] code = "c_andi"  -> BitAnd(Unsigned(a), Unsigned(imm))
      [] code = "c_srli"  -> Shr(Bits, a, imm)
      [] code = "c_srai"  -> Sar(Bits, a, imm)
      [] code = "c_slli"  -> Shl(Bits, a, imm)

----------------------------------------------------------------------------
(* Execution.  The input i holds the sources a and b, the immediate, the   *)
(* program counter, the memory cell and whether the address is reserved.   *)

Address(i) == Wrap(Unsigned(i.a) + i.imm)

\* What the trap check of an operation has tried.
Checked(o, i) ==
    LET check == Handler(PreCheckTable(o.class), o.code)
        addr  == IF check \in {"LoadReserved", "StoreConditional", "Atomic"} THEN Unsigned(i.a) ELSE Address(i)
    IN  {<<type, addr>> : type \in CheckedTypes(check)}

\* ProcessCycle has moved the program counter before the handler runs.
Stepped(o, i) ==
    [value |-> i.a, link |-> -1, pc |-> Wrap(i.pc + (IF o.class = "C" THEN 2 ELSE 4)),
     mem |-> i.mem, accesses |-> {}, end |-> "done"]

Result(r, i, v)  == [r EXCEPT !.value = Write(Bits, i.a, v)]
JumpTo(r, target) == [r EXCEPT !.pc = Wrap(target)]

Jump(o, i, r) ==
    CASE o.code = "jal"  -> JumpTo([r EXCEPT !.link = Write(Bits, 0, i.pc + 4)], i.pc + i.imm)
      [] o.code = "jalr" -> LET target == Integer(i.a) + i.imm
                            IN  JumpTo([r EXCEPT !.link = Write(Bits, 0, i.pc + 4)], target - (target % 2))

Taken(code, a, b) ==
    CASE code = "beq"  -> Integer(a) = Integer(b)
      [] code = "bne"  -> Integer(a) # Integer(b)
      [] code = "blt"  -> Integer(a) < Integer(b)
      [] code = "bge"  -> Integer(a) >= Integer(b)
      [] code = "bltu" -> Unsigned(a) < Unsigned(b)
      [] code = "bgeu" -> Unsigned(a) >= Unsigned(b)

Branch(o, i, r) == IF Taken(o.code, i.a, i.b) THEN JumpTo(r, i.pc + i.imm) ELSE r

SizeOf(code) ==
    CASE code \in {"lb", "lbu", "sb"} -> ByteBits
      [] code \in {"lh", "lhu", "sh"} -> HalfBits
      [] code \in {"ld", "sd", "c_ld", "c_ldsp", "c_sd", "c_sdsp", "c_fsd", "c_fsdsp", "fsd"} -> DoubleBits
      [] OTHER -> WordBits

LoadValue(code, mem) ==
    LET v == mem % Power[SizeOf(code)]
    IN  IF code \in {"lbu", "lhu", "lwu"} THEN v
        ELSE IF xlen = 32 THEN Signed(SizeOf(code), v) ELSE SignExtend(SizeOf(code), v)

Load(o, i, r) ==
    [Result(r, i, LoadValue(o.code, i.mem)) EXCEPT !.accesses = {<<"Load", Address(i)>>}]

Store(o, i, r) ==
    [r EXCEPT !.mem = Write(SizeOf(o.code), i.mem, i.b), !.accesses = {<<"Store", Address(i)>>}]

\* Mutant of LoadReserved: lr.w leaves its word without a sign.
LoadReservedPlain(o, i, r) ==
    LET bits == IF o.code = "lr_d" THEN DoubleBits ELSE WordBits
    IN  [Result(r, i, i.mem % Power[bits]) EXCEPT !.accesses = {<<"Load", Unsigned(i.a)>>}]

LoadReserved(o, i, r) ==
    LET bits == IF o.code = "lr_d" THEN DoubleBits ELSE WordBits
    IN  [Result(r, i, SignExtend(bits, i.mem % Power[bits])) EXCEPT !.accesses = {<<"Load", Unsigned(i.a)>>}]

StoreConditional(o, i, r) ==
    IF i.reserved
    THEN [Result(r, i, 0) EXCEPT
             !.mem = Write(IF o.code = "sc_d" THEN DoubleBits ELSE WordBits, i.mem, i.b),
             !.accesses = {<<"Store", Unsigned(i.a)>>}]
    ELSE Result(r, i, 1)

Atomic(o, i, r) ==
    LET bits == IF o.code \in {DoubleCode[n] : n \in Amos} THEN DoubleBits ELSE WordBits
        amo  == CHOOSE n \in Amos : o.code \in {WordCode[n], DoubleCode[n]}
        old  == i.mem % Power[bits]
        new  == i.b % Power[bits]
        pick(cond) == IF cond THEN old ELSE new
        stored == CASE amo = "amoswap" -> new
                    [] amo = "amoadd" -> old + new
                    [] amo = "amoxor" -> BitXor(old, new)
                    [] amo = "amoand" -> BitAnd(old, new)
                    [] amo = "amoor"  -> BitOr(old, new)
                    [] amo = "amomax" -> pick(Signed(bits, old) >= Signed(bits, new))
                    [] amo = "amomin" -> pick(Signed(bits, old) <= Signed(bits, new))
                    [] amo = "amomaxu" -> pick(old >= new)
                    [] amo = "amominu" -> pick(old <= new)
    IN  [Result(r, i, IF bits = WordBits THEN SignExtend(bits, old) ELSE old) EXCEPT
            !.mem = Write(bits, i.mem, stored),
            !.accesses = {<<"Load", Unsigned(i.a)>>, <<"Store", Unsigned(i.a)>>}]

\* The loads and stores of F, D and C that move floating-point registers.
FpMoves == {"flw", "fld", "c_fld", "c_flw", "c_fldsp", "c_flwsp",
            "fsw", "fsd", "c_fsd", "c_fsw", "c_fsdsp", "c_fswsp"}

FpLoad(o, i, r)  == [r EXCEPT !.accesses = {<<"Load", Address(i)>>}]

\* Mutant of C_Branch: the word is compared with zero, not the register.
C_BranchWord(o, i, r) ==
    IF (o.code = "c_beqz") = (Signed(WordBits, i.a) = 0) THEN JumpTo(r, i.pc + i.imm) ELSE r

C_Branch(o, i, r) ==
    IF (o.code = "c_beqz") = (Integer(i.a) = 0) THEN JumpTo(r, i.pc + i.imm) ELSE r

C_J(o, i, r) ==
    JumpTo([r EXCEPT !.link = IF o.code = "c_jal" THEN Write(Bits, 0, i.pc + 2) ELSE @], i.pc + i.imm)

C_JR(o, i, r) ==
    JumpTo([r EXCEPT !.link = IF o.code = "c_jalr" THEN Write(Bits, 0, i.pc + 2) ELSE @],
           Unsigned(i.a) - (Unsigned(i.a) % 2))

Run(o, h, i) ==
    LET r == Stepped(o, i)
    IN  CASE h = "Lui"      -> Result(r, i, i.imm)
          [] h = "Auipc"    -> Result(r, i, i.pc + i.imm)
          [] h \in {"Jal", "Jalr"} -> Jump(o, i, r)
          [] h = "Branch"   -> Branch(o, i, r)
          [] h = "AluImm"   -> Result(r, i, AluImm(o.code, i.a, i.imm))
          [] h = "Shift"    -> Result(r, i, Shift(o.code, i.a, i.b))
          [] h = "ShiftImm" -> Result(r, i, ShiftImm(o.code, i.a, i.imm))
          [] h = "Alu"      -> Result(r, i, Alu(o.code, i.a, i.b))
          [] h = "MulDiv"   -> IF Kills(o.code, i.b) THEN [r EXCEPT !.end = "SIGFPE"]
                               ELSE IF o.code \in WordDivisions THEN Result(r, i, MulDivWord(o.code, i.a, i.b))
                               ELSE IF o.code \in {"mul", "mulh", "mulhsu", "mulhu"}
                               THEN Result(r, i, Mul(o.code, i.a, i.b))
                               ELSE Result(r, i, Div(o.code, i.a, i.b))
          [] h \in {"Load", "C_Load", "C_LoadSP", "F_Load"} ->
               IF o.code \in FpMoves THEN FpLoad(o, i, r) ELSE Load(o, i, r)
          [] h \in {"Store", "C_Store", "C_StoreSP", "F_Store"} -> Store(o, i, r)
          [] h = "LoadReserved"     -> LoadReserved(o, i, r)
          [] h = "StoreConditional" -> StoreConditional(o, i, r)
          [] h = "Atomic"   -> Atomic(o, i, r)
          [] h = "C_Alu"    -> Result(r, i, C_Alu(o.code, i.a, i.b))
          [] h = "C_AluImm" -> Result(r, i, C_AluImm(o.code, i.a, i.imm))
          [] h \in {"C_ADDI4SPN", "C_ADDI16SP"} -> Result(r, i, Unsigned(i.a) + i.imm)
          [] h = "C_Branch" -> C_Branch(o, i, r)
          [] h = "C_J"      -> C_J(o, i, r)
          [] h = "C_JR"     -> C_JR(o, i, r)
          [] OTHER          -> r      \* in another module, or nothing to do

----------------------------------------------------------------------------
(* The inputs of a handler: what it does not read is left at one value.    *)

TwoSources == {"Branch", "Store", "Alu", "Shift", "MulDiv", "StoreConditional", "Atomic",
               "C_Alu", "C_Store", "C_StoreSP", "F_Store"}
Elsewhere  == {"Priv", "Fence", "Csr", "CsrImm", "MulAdd", "F_Compute", "C_Nop"}
NoImmediate == {"Alu", "Shift", "MulDiv", "LoadReserved", "StoreConditional", "Atomic", "C_Alu", "C_JR"}
Relative   == {"Auipc", "Jal", "Jalr", "Branch", "C_Branch", "C_J", "C_JR"}
ReadsCell  == {"Load", "C_Load", "C_LoadSP", "LoadReserved", "Atomic", "StoreConditional"}

ImmediatesOf(h, code) ==
    CASE h \in NoImmediate \cup Elsewhere -> {0}
      [] h = "ShiftImm" \/ code \in {"c_srli", "c_srai"} -> {n \in 0..(DoubleBits - 1) : n < Bits}
      [] h \in {"Jal", "Branch", "C_Branch", "C_J"} -> {n \in Immediates : n % 2 = 0}
      [] OTHER -> Immediates

Some(set) == {CHOOSE v \in set : TRUE}

Inputs(h, code) ==
    [a : IF h \in Elsewhere \cup {"Lui", "Auipc", "Jal", "C_J"} THEN {0} ELSE Values,
     b : IF h \in TwoSources THEN Values ELSE {0},
     imm : ImmediatesOf(h, code),
     pc : IF h \in Relative THEN Pcs ELSE Some(Pcs),
     mem : IF h \in ReadsCell THEN Values ELSE {0},
     reserved : IF h = "StoreConditional" THEN BOOLEAN ELSE {FALSE}]

----------------------------------------------------------------------------

Init == /\ xlen \in {32, 64}
        /\ stage = "fetch"
        /\ op = NoOp /\ in = NoIn /\ out = NoOut

DecodeInsn ==
    /\ stage = "fetch"
    /\ \/ \E insn \in Halfwords : op' = Decode(xlen, <<insn, 0>>)
       \/ \E insn \in Wide : op' = Decode(xlen, insn)
    /\ stage' = IF op'.code = "unknown" THEN "trapped" ELSE "decoded"
    /\ UNCHANGED <<xlen, in, out>>

\* Codes whose check depends on CSRs and the level (Hart).
CheckedInHart == {"wfi", "sfence_vma", "mret", "sret", "uret", "csrrw", "csrrs", "csrrc", "csrrwi", "csrrsi", "csrrci"}

PreCheck ==
    /\ stage = "decoded"
    /\ \/ /\ \/ op.class \in {"F", "D"}      \* floating point is off
             \/ Handler(PreCheckTable(op.class), op.code) # "Error"
             \/ op.code \in CheckedInHart
          /\ stage' = "trapped"
          /\ UNCHANGED op
       \/ /\ stage' = "checked"
          /\ op' = [class |-> op.class, code |-> op.code]
    /\ UNCHANGED <<xlen, in, out>>

\* Executor::Error ends the process.
Error ==
    /\ stage = "checked"
    /\ Handler(ProcessOp(op.class), op.code) = "Error"
    /\ stage' = "exit"
    /\ UNCHANGED <<xlen, op, in, out>>

Execute ==
    /\ stage = "checked"
    /\ LET h == Handler(ProcessOp(op.class), op.code)
       IN  /\ h # "Error"
           /\ \E i \in Inputs(h, op.code) : in' = i /\ out' = Run(op, h, i)
    /\ stage' = IF out'.end = "SIGFPE" THEN "exit" ELSE "executed"
    /\ UNCHANGED <<xlen, op>>

PostCheck ==
    /\ stage = "executed"
    /\ stage' = IF op.class = "I" /\ op.code \in {"ecall", "ebreak"} THEN "trapped" ELSE "fetch"
    /\ op' = NoOp /\ in' = NoIn /\ out' = NoOut
    /\ UNCHANGED xlen

\* The trap handler is modelled in Hart; the next cycle starts after it.
Trapped ==
    /\ stage = "trapped"
    /\ stage' = "fetch"
    /\ op' = NoOp /\ in' = NoIn /\ out' = NoOut
    /\ UNCHANGED xlen

Next == DecodeInsn \/ PreCheck \/ Error \/ Execute \/ PostCheck \/ Trapped

Spec == Init /\ [][Next]_vars

----------------------------------------------------------------------------
(* Properties.                                                             *)

\* The decoder builds the operand alternative that the trap check and the handler
\* of the operation take out of the variant: std::get never throws.
OperandsMatch ==
    stage = "decoded" =>
        \A h \in {Handler(ProcessOp(op.class), op.code), Handler(PreCheckTable(op.class), op.code)} :
            h \in DOMAIN Takes => Takes[h] = Alternative(op.format)

\* The decoder and the switches of the executor list the same operations, with the
\* same operands: no word the decoder accepts ends the emulator in std::get or in
\* Executor::Error, but for c.ebreak and, on RV32, c.addw and c.subw, which the
\* decoder accepts and no switch handles.
EveryOpIsHandled ==
    /\ OperandsMatch
    /\ stage = "exit" /\ out = NoOut =>
          \/ op.code = "c_ebreak"
          \/ xlen = 32 /\ op.code \in {"c_addw", "c_subw"}

BitsOf(field) == field[1]..(field[1] + field[2] - 1)
Targets(piece) == piece[3]..(piece[3] + piece[2] - 1)

WellFormed ==
    [f \in DOMAIN Layout |->
        LET pieces == Layout[f]
            fields == ToSet(Registers[f])
            top    == IF f \in DOMAIN SignWidth THEN SignWidth[f] ELSE ZeroWidth[f]
            used   == UNION {Targets(pieces[k]) : k \in DOMAIN pieces}
        IN  /\ \A j, k \in DOMAIN pieces : j # k =>
                  /\ BitsOf(pieces[j]) \cap BitsOf(pieces[k]) = {}
                  /\ Targets(pieces[j]) \cap Targets(pieces[k]) = {}
            /\ \A k \in DOMAIN pieces : \A g \in fields : BitsOf(pieces[k]) \cap BitsOf(g) = {}
            /\ \A g1, g2 \in fields : g1 = g2 \/ BitsOf(g1) \cap BitsOf(g2) = {}
            /\ pieces # <<>> => \E low \in used : used = low..(top - 1)
            /\ f \in DOMAIN SignWidth => \E k \in DOMAIN pieces :
                  top - 1 \in Targets(pieces[k]) /\ pieces[k][1] + pieces[k][2] - 1 \in {12, 31}]

Scale == [c_lw |-> 4, c_lwsp |-> 4, c_flw |-> 4, c_flwsp |-> 4, c_sw |-> 4, c_swsp |-> 4, c_fsw |-> 4,
          c_fswsp |-> 4, c_ld |-> 8, c_ldsp |-> 8, c_fld |-> 8, c_fldsp |-> 8, c_sd |-> 8, c_sdsp |-> 8,
          c_fsd |-> 8, c_fsdsp |-> 8, c_addi4spn |-> 4, c_addi16sp |-> 16, c_j |-> 2, c_jal |-> 2,
          c_beqz |-> 2, c_bnez |-> 2, c_lui |-> 4096, jal |-> 2, beq |-> 2, bne |-> 2, blt |-> 2,
          bge |-> 2, bltu |-> 2, bgeu |-> 2]

\* Every operand format of DecoderImpl.cpp puts its immediate together without losing
\* or using a bit of the word twice, fills it up to the width it is extended from,
\* takes the sign from the sign bit of the word and shares no bit with a register;
\* offsets are multiples of what they address.
FormatsPartition ==
    stage = "decoded" =>
        /\ WellFormed[op.format]
        /\ op.code \in DOMAIN Scale => op.imm % Scale[op.code] = 0

\* A handler accesses memory only at the address, and in the way, that the trap
\* check of its operation has tried before (two functions compute each address).
AccessIsChecked == stage = "executed" => out.accesses \subseteq Checked(op, in)

\* A division and the remainder for the same operands fit together, also for zero and
\* for the one quotient that overflows; the emulator dies in no division but the one
\* of divw by a zero word under a nonzero upper half.
Fits(signed, bits, a, b, q, r) ==
    LET read(v) == IF signed THEN Signed(bits, v) ELSE v % Power[bits]
        size(n) == IF n < 0 THEN -n ELSE n
    IN  IF read(b) = 0 THEN q % Power[bits] = Power[bits] - 1 /\ read(r) = read(a)
        ELSE IF signed /\ read(a) = Smallest(bits) /\ read(b) = -1 THEN read(q) = read(a) /\ read(r) = 0
        ELSE /\ read(a) = read(q) * read(b) + read(r)
             /\ size(read(r)) < size(read(b))
             /\ read(r) = 0 \/ (read(r) < 0) = (read(a) < 0)

DivisionLaw ==
    /\ stage = "executed" /\ op.code \in {"div", "divu"} =>
         Fits(op.code = "div", Bits, in.a, in.b, out.value,
              Div(IF op.code = "div" THEN "rem" ELSE "remu", in.a, in.b))
    /\ stage = "executed" /\ op.code \in {"divw", "divuw"} =>
         Fits(op.code = "divw", WordBits, in.a, in.b, out.value,
              MulDivWord(IF op.code = "divw" THEN "remw" ELSE "remuw", in.a, in.b))
    /\ stage = "exit" /\ out # NoOut =>
         op.code = "divw" /\ in.b # 0 /\ in.b % Power[WordBits] = 0

\* The two halves of a product: the high part that mulh, mulhsu or mulhu leaves and the
\* low part of mul are the whole product of the sources read as the name says.
MulLaw ==
    stage = "executed" /\ op.code \in {"mulh", "mulhsu", "mulhu"} =>
        LET left  == IF op.code = "mulhu" THEN Unsigned(in.a) ELSE Integer(in.a)
            right == IF op.code = "mulh" THEN Integer(in.b) ELSE Unsigned(in.b)
            high  == IF op.code = "mulhu" THEN Unsigned(out.value) ELSE Integer(out.value)
        IN  high * Power[Bits] + Unsigned(Mul("mul", in.a, in.b)) = left * right

\* The multiplications and divisions of ProcessRV32M and ProcessRV64M fit together for
\* all operands.
MulDivLaw == DivisionLaw /\ MulLaw

WordOps == {"addw", "subw", "addiw", "sllw", "srlw", "sraw", "slliw", "srliw", "sraiw", "lw", "lr_w",
            "c_addw", "c_subw", "c_addiw", "c_lw", "c_lwsp"} \cup WordDivisions \cup {WordCode[amo] : amo \in Amos}

\* On RV64 a word operation depends on the low words only and leaves a sign-extended
\* word, in each of the separately written handlers.  Not so c.addiw below the
\* smallest word, whose result keeps a wrong upper half.
WordLaw ==
    stage = "executed" /\ xlen = 64 /\ op.code \in WordOps =>
        LET h   == Handler(ProcessOp(op.class), op.code)
            memory == h \in {"Load", "C_Load", "C_LoadSP", "LoadReserved", "Atomic"}
            low == [in EXCEPT !.a = IF memory THEN @ ELSE @ % Power[WordBits],
                              !.b = @ % Power[WordBits], !.mem = @ % Power[WordBits]]
        IN  \/ /\ out.value = Int32(out.value)
               /\ out.value = Run(op, h, low).value
            \/ op.code = "c_addiw" /\ Signed(WordBits, in.a) + in.imm < Smallest(WordBits)

Expansion ==
    [c_addi |-> "addi", c_addiw |-> "addiw", c_li |-> "addi", c_lui |-> "lui", c_addi16sp |-> "addi",
     c_addi4spn |-> "addi", c_slli |-> "slli", c_srli |-> "srli", c_srai |-> "srai", c_andi |-> "andi",
     c_mv |-> "add", c_add |-> "add", c_sub |-> "sub", c_xor |-> "xor_", c_or |-> "or_", c_and |-> "and_",
     c_addw |-> "addw", c_subw |-> "subw", c_lw |-> "lw", c_lwsp |-> "lw", c_ld |-> "ld", c_ldsp |-> "ld",
     c_sw |-> "sw", c_swsp |-> "sw", c_sd |-> "sd", c_sdsp |-> "sd",
     c_beqz |-> "beq", c_bnez |-> "bne", c_j |-> "jal", c_jal |-> "jal", c_jr |-> "jalr", c_jalr |-> "jalr"]

\* A compressed instruction does what the instruction it abbreviates does, although it
\* has a handler of its own: the same value, memory, address and target, and a link
\* two bytes on.  The exception is the one of WordLaw.
CompressedAgrees ==
    stage = "executed" /\ op.code \in DOMAIN Expansion =>
        LET full == [class |-> "I", code |-> Expansion[op.code]]
            a    == IF op.code \in {"c_li", "c_mv"} THEN 0 ELSE in.a
            imm  == IF op.code \in {"c_slli", "c_srli", "c_srai"} THEN in.imm % Bits ELSE in.imm
            want == Run(full, Handler(ProcessOp("I"), full.code), [in EXCEPT !.a = a, !.imm = imm])
            jump == op.code \in {"c_beqz", "c_bnez", "c_j", "c_jal", "c_jr", "c_jalr"}
            next == IF ~jump \/ (op.code \in {"c_beqz", "c_bnez"} /\ ~Taken(full.code, in.a, 0))
                    THEN in.pc + 2 ELSE want.pc
        IN  \/ /\ Unsigned(out.value) = Unsigned(want.value) \/ jump
               /\ out.mem = want.mem
               /\ out.accesses = want.accesses
               /\ Unsigned(out.pc) = Unsigned(next)
               /\ out.link # -1 => Unsigned(out.link + 2) = Unsigned(want.link)
            \/ op.code = "c_addiw" /\ Signed(WordBits, in.a) + in.imm < Smallest(WordBits)
=============================================================================
