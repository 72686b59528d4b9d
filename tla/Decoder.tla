------------------------------ MODULE Decoder ------------------------------
(***************************************************************************)
(* The instruction decoder (librafi_common/DecoderImpl.cpp): from a 16-bit *)
(* or 32-bit instruction word to an operation code and an operand.  An     *)
(* operand has one of the alternatives of the variant Operand; the model   *)
(* calls it the format and keeps the immediate; of the register numbers it *)
(* has the fields of the word they are picked from.  Handlers of the       *)
(* executor later ask the variant for the alternative they expect.         *)
(*                                                                         *)
(* A word is a pair <<low, high>> of 16-bit halves.                        *)
(***************************************************************************)
EXTENDS Integers, Sequences, FiniteSets, SequencesExt

\* The powers of two up to the width of a register.
Power[n \in 0..64] == IF n = 0 THEN 1 ELSE 2 * Power[n - 1]

Pick(insn, lsb, width) ==
    LET low  == IF lsb < 16 THEN insn[1] \div Power[lsb] ELSE 0
        high == IF lsb < 16 THEN insn[2] * Power[16 - lsb] ELSE insn[2] \div Power[lsb - 16]
    IN  (low + high) % Power[width]

Opcode(insn) == insn[1] % 128

IsCompressedInstruction(insn) == insn[1] % 4 # \b11

----------------------------------------------------------------------------
(* Operands.  A layout lists the pieces <<lsb, width, shift>> an immediate *)
(* is put together from.  The immediate of U is in units of 2^12.          *)
(* The formats whose name ends in a digit are calls with that access size. *)
(* Nothing asks for 16, nor for CI without a sign.                         *)

Layout32 ==
    [I |-> << <<20, 12, 0>> >>,
     S |-> << <<25, 7, 5>>, <<7, 5, 0>> >>,
     B |-> << <<31, 1, 12>>, <<25, 6, 5>>, <<8, 4, 1>>, <<7, 1, 11>> >>,
     U |-> << <<12, 20, 0>> >>,
     J |-> << <<31, 1, 20>>, <<21, 10, 1>>, <<20, 1, 11>>, <<12, 8, 12>> >>,
     ShiftImm_32 |-> << <<20, 5, 0>> >>,
     ShiftImm_64 |-> << <<20, 6, 0>> >>,
     Csr |-> << <<20, 12, 0>> >>,
     CsrImm |-> << <<20, 12, 0>> >>]

LayoutCI ==
    [CI |-> << <<12, 1, 5>>, <<2, 5, 0>> >>,
     CI_AluImm |-> << <<12, 1, 5>>, <<2, 5, 0>> >>,
     CI_Shift |-> << <<12, 1, 5>>, <<2, 5, 0>> >>,
     CI_ADDI16SP |-> << <<12, 1, 9>>, <<6, 1, 4>>, <<5, 1, 6>>, <<3, 2, 7>>, <<2, 1, 5>> >>]

LayoutStack ==
    [CI_LoadSP4 |-> << <<12, 1, 5>>, <<4, 3, 2>>, <<2, 2, 6>> >>,
     CI_LoadSP8 |-> << <<12, 1, 5>>, <<5, 2, 3>>, <<2, 3, 6>> >>,
     CI_LUI |-> << <<12, 1, 17>>, <<2, 5, 12>> >>,
     CSS4 |-> << <<9, 4, 2>>, <<7, 2, 6>> >>,
     CSS8 |-> << <<10, 3, 3>>, <<7, 3, 6>> >>,
     CIW |-> << <<11, 2, 4>>, <<7, 4, 6>>, <<6, 1, 2>>, <<5, 1, 3>> >>]

LayoutMemory ==
    [CL4 |-> << <<10, 3, 3>>, <<6, 1, 2>>, <<5, 1, 6>> >>,
     CL8 |-> << <<10, 3, 3>>, <<5, 2, 6>> >>,
     CS4 |-> << <<10, 3, 3>>, <<6, 1, 2>>, <<5, 1, 6>> >>,
     CS8 |-> << <<10, 3, 3>>, <<5, 2, 6>> >>]

\* Mutant of LayoutJump: CB puts two bits in the place of another.
LayoutJumpOff ==
    [CB |-> << <<12, 1, 8>>, <<10, 2, 3>>, <<5, 2, 5>>, <<3, 2, 1>>, <<2, 1, 5>> >>,
     CJ |-> << <<12, 1, 11>>, <<11, 1, 4>>, <<9, 2, 8>>, <<8, 1, 10>>, <<7, 1, 6>>,
               <<6, 1, 7>>, <<3, 3, 1>>, <<2, 1, 5>> >>]

LayoutJump ==
    [CB |-> << <<12, 1, 8>>, <<10, 2, 3>>, <<5, 2, 6>>, <<3, 2, 1>>, <<2, 1, 5>> >>,
     CJ |-> << <<12, 1, 11>>, <<11, 1, 4>>, <<9, 2, 8>>, <<8, 1, 10>>, <<7, 1, 6>>,
               <<6, 1, 7>>, <<3, 3, 1>>, <<2, 1, 5>> >>]

\* The formats without an immediate.
NoLayout == [f \in {"R", "R4", "Fence", "CR", "CR_Alu", "None"} |-> <<>>]

Layout ==
    [f \in UNION {DOMAIN Layout32, DOMAIN LayoutCI, DOMAIN LayoutStack, DOMAIN LayoutMemory,
                  DOMAIN LayoutJump, DOMAIN NoLayout} |->
        CASE f \in DOMAIN Layout32 -> Layout32[f]
          [] f \in DOMAIN LayoutCI -> LayoutCI[f]
          [] f \in DOMAIN LayoutStack -> LayoutStack[f]
          [] f \in DOMAIN LayoutMemory -> LayoutMemory[f]
          [] f \in DOMAIN LayoutJump -> LayoutJump[f]
          [] f \in DOMAIN NoLayout -> NoLayout[f]]

(* The widths given to SignExtend and ZeroExtend.                          *)
SignWidth == [I |-> 12, S |-> 12, B |-> 13, U |-> 20, J |-> 21, CI |-> 6, CI_AluImm |-> 6,
              CI_ADDI16SP |-> 10, CI_LUI |-> 18, CB |-> 9, CJ |-> 12]
ZeroWidth == [CI_Shift |-> 6, CI_LoadSP4 |-> 8, CI_LoadSP8 |-> 9, CSS4 |-> 8, CSS8 |-> 9,
              CIW |-> 10, CL4 |-> 7, CL8 |-> 8, CS4 |-> 7, CS8 |-> 8,
              ShiftImm_32 |-> 5, ShiftImm_64 |-> 6, Csr |-> 12, CsrImm |-> 12]

SignExtended(width, value) == IF value >= Power[width - 1] THEN value - Power[width] ELSE value

Piece(pieces, k, insn) ==
    IF k \in DOMAIN pieces THEN Pick(insn, pieces[k][1], pieces[k][2]) * Power[pieces[k][3]] ELSE 0

\* No immediate has more than eight pieces.
Immediate(format, insn) ==
    LET part(k) == Piece(Layout[format], k, insn)
        value   == part(1) + part(2) + part(3) + part(4) + part(5) + part(6) + part(7) + part(8)
    IN  CASE format \in DOMAIN SignWidth -> SignExtended(SignWidth[format], value)
          [] format \in DOMAIN ZeroWidth -> value % Power[ZeroWidth[format]]
          [] OTHER -> 0

(* Where a format finds its register numbers (and the mask of csrr*i, the  *)
(* sets of fence): <<lsb, width>>, three bits standing for x8 to x15.      *)
Registers ==
    LET rd == <<7, 5>>  rs1 == <<15, 5>>  rs2 == <<20, 5>>
        crd == <<7, 5>>  crs2 == <<2, 5>>  low == <<2, 3>>  high == <<7, 3>>
    IN  [R |-> <<rd, rs1, rs2>>, R4 |-> <<rd, rs1, rs2, <<27, 5>> >>,
         I |-> <<rd, rs1>>, S |-> <<rs1, rs2>>, B |-> <<rs1, rs2>>, U |-> <<rd>>, J |-> <<rd>>,
         ShiftImm_32 |-> <<rd, rs1>>, ShiftImm_64 |-> <<rd, rs1>>,
         Csr |-> <<rd, rs1>>, CsrImm |-> <<rs1, rd>>, Fence |-> << <<24, 4>>, <<20, 4>> >>,
         CR |-> <<crd, crd, crs2>>, CR_Alu |-> <<high, high, low>>,
         CI |-> <<crd, crd>>, CI_ADDI16SP |-> <<crd, crd>>, CI_LUI |-> <<crd, crd>>,
         CI_LoadSP4 |-> <<crd, crd>>, CI_LoadSP8 |-> <<crd, crd>>,
         CI_AluImm |-> <<high, high>>, CI_Shift |-> <<high, high>>,
         CSS4 |-> <<crs2>>, CSS8 |-> <<crs2>>, CIW |-> <<low>>,
         CL4 |-> <<low, high>>, CL8 |-> <<low, high>>, CS4 |-> <<high, low>>, CS8 |-> <<high, low>>,
         CB |-> <<high>>, CJ |-> <<>>, None |-> <<>>]

(* The alternative of the variant Operand that a format fills.             *)
Alternative(format) ==
    CASE format \in {"ShiftImm_32", "ShiftImm_64"} -> "ShiftImm"
      [] format \in {"CR", "CR_Alu"} -> "CR"
      [] format \in DOMAIN LayoutCI \cup {"CI_LoadSP4", "CI_LoadSP8", "CI_LUI"} -> "CI"
      [] format \in {"CSS4", "CSS8"} -> "CSS"
      [] format \in {"CL4", "CL8"} -> "CL"
      [] format \in {"CS4", "CS8"} -> "CS"
      [] OTHER -> format

----------------------------------------------------------------------------
(* Codes.  Each function returns <<code, format>>.                         *)

Unknown == <<"unknown", "None">>

\* The code in position n of a table, in the given format.
Nth(table, n, format) == IF table[n + 1] = "unknown" THEN Unknown ELSE <<table[n + 1], format>>

DecodeI_Flow(xlen, insn) ==
    LET funct3 == Pick(insn, 12, 3)
        wide(code) == IF xlen = 64 THEN code ELSE "unknown"
    IN  CASE Opcode(insn) = \b0110111 -> <<"lui", "U">>
          [] Opcode(insn) = \b0010111 -> <<"auipc", "U">>
          [] Opcode(insn) = \b1101111 -> <<"jal", "J">>
          [] Opcode(insn) = \b1100111 -> IF funct3 = 0 THEN <<"jalr", "I">> ELSE Unknown
          [] Opcode(insn) = \b1100011 ->
               Nth(<<"beq", "bne", "unknown", "unknown", "blt", "bge", "bltu", "bgeu">>, funct3, "B")
          [] Opcode(insn) = \b0000011 ->
               Nth(<<"lb", "lh", "lw", wide("ld"), "lbu", "lhu", wide("lwu"), "unknown">>, funct3, "I")
          [] Opcode(insn) = \b0100011 ->
               Nth(<<"sb", "sh", "sw", wide("sd"), "unknown", "unknown", "unknown", "unknown">>, funct3, "S")

DecodeI_Compute(xlen, insn) ==
    LET funct3 == Pick(insn, 12, 3)
        funct6 == Pick(insn, 26, 6)
        funct7 == Pick(insn, 25, 7)
        shift  == IF xlen = 32 THEN "ShiftImm_32" ELSE "ShiftImm_64"
        logical    == IF xlen = 32 THEN funct7 = 0 ELSE funct6 = 0
        arithmetic == IF xlen = 32 THEN funct7 = \b0100000 ELSE funct6 = \b010000
    IN  CASE Opcode(insn) = \b0010011 /\ funct3 = 1 ->
               IF logical THEN <<"slli", shift>> ELSE Unknown
          [] Opcode(insn) = \b0010011 /\ funct3 = 5 ->
               IF logical THEN <<"srli", shift>> ELSE IF arithmetic THEN <<"srai", shift>> ELSE Unknown
          [] Opcode(insn) = \b0010011 /\ funct3 \notin {1, 5} ->
               Nth(<<"addi", "unknown", "slti", "sltiu", "xori", "unknown", "ori", "andi">>, funct3, "I")
          [] Opcode(insn) = \b0110011 /\ funct7 = 0 ->
               Nth(<<"add", "sll", "slt", "sltu", "xor_", "srl", "or_", "and_">>, funct3, "R")
          [] Opcode(insn) = \b0110011 /\ funct7 = \b0100000 /\ funct3 = 0 -> <<"sub", "R">>
          [] Opcode(insn) = \b0110011 /\ funct7 = \b0100000 /\ funct3 = 5 -> <<"sra", "R">>
          [] Opcode(insn) = \b0011011 /\ xlen = 64 /\ funct3 = 0 -> <<"addiw", "I">>
          [] Opcode(insn) = \b0011011 /\ xlen = 64 /\ funct3 = 1 /\ funct7 = 0 -> <<"slliw", "ShiftImm_32">>
          [] Opcode(insn) = \b0011011 /\ xlen = 64 /\ funct3 = 5 /\ funct7 = 0 -> <<"srliw", "ShiftImm_32">>
          [] Opcode(insn) = \b0011011 /\ xlen = 64 /\ funct3 = 5 /\ funct7 = \b0100000 -> <<"sraiw", "ShiftImm_32">>
          [] Opcode(insn) = \b0111011 /\ xlen = 64 /\ funct7 = 0 /\ funct3 \in {0, 1, 5} ->
               <<CASE funct3 = 0 -> "addw" [] funct3 = 1 -> "sllw" [] funct3 = 5 -> "srlw", "R">>
          [] Opcode(insn) = \b0111011 /\ xlen = 64 /\ funct7 = \b0100000 /\ funct3 \in {0, 5} ->
               <<IF funct3 = 0 THEN "subw" ELSE "sraw", "R">>
          [] OTHER -> Unknown

DecodeI_System(insn) ==
    LET funct3  == Pick(insn, 12, 3)
        funct12 == Pick(insn, 20, 12)
        rd      == Pick(insn, 7, 5)
        rs1     == Pick(insn, 15, 5)
        Privileged == [ecall |-> 0, ebreak |-> 1, uret |-> 2,
                       sret |-> \b000100000010, wfi |-> \b000100000101, mret |-> \b001100000010]
    IN  CASE Opcode(insn) = \b0001111 ->
               CASE funct3 = 0 /\ rd = 0 /\ rs1 = 0 /\ Pick(insn, 28, 4) = 0 -> <<"fence", "Fence">>
                 [] funct3 = 1 /\ rd = 0 /\ rs1 = 0 /\ funct12 = 0 -> <<"fence_i", "Fence">>
                 [] OTHER -> Unknown
          [] Opcode(insn) = \b1110011 /\ funct3 = 0 /\ rd = 0 ->
               CASE Pick(insn, 25, 7) = \b0001001 -> <<"sfence_vma", "R">>
                 [] Pick(insn, 25, 7) # \b0001001 /\ rs1 = 0 /\ \E c \in DOMAIN Privileged : Privileged[c] = funct12 ->
                      <<CHOOSE c \in DOMAIN Privileged : Privileged[c] = funct12, "None">>
                 [] OTHER -> Unknown
          [] Opcode(insn) = \b1110011 /\ funct3 \in 1..3 -> Nth(<<"csrrw", "csrrs", "csrrc">>, funct3 - 1, "Csr")
          [] Opcode(insn) = \b1110011 /\ funct3 \in 5..7 -> Nth(<<"csrrwi", "csrrsi", "csrrci">>, funct3 - 5, "CsrImm")
          [] OTHER -> Unknown

DecodeI(xlen, insn) ==
    CASE Opcode(insn) \in {\b0110111, \b0010111, \b1101111, \b1100111, \b1100011, \b0000011, \b0100011} ->
           DecodeI_Flow(xlen, insn)
      [] Opcode(insn) \in {\b0001111, \b1110011} -> DecodeI_System(insn)
      [] OTHER -> DecodeI_Compute(xlen, insn)

DecodeM(xlen, insn) ==
    IF Opcode(insn) = \b0110011
    THEN Nth(<<"mul", "mulh", "mulhsu", "mulhu", "div", "divu", "rem", "remu">>, Pick(insn, 12, 3), "R")
    ELSE Nth(IF xlen = 64
             THEN <<"mulw", "unknown", "unknown", "unknown", "divw", "divuw", "remw", "remuw">>
             ELSE [i \in 1..8 |-> "unknown"], Pick(insn, 12, 3), "R")

Amos == {"amoswap", "amoadd", "amoxor", "amoand", "amoor", "amomax", "amomin", "amomaxu", "amominu"}

\* The codes of an atomic operation on a word and on a double word.
WordCode ==
    [lr |-> "lr_w", sc |-> "sc_w", amoswap |-> "amoswap_w", amoadd |-> "amoadd_w", amoxor |-> "amoxor_w",
     amoand |-> "amoand_w", amoor |-> "amoor_w", amomax |-> "amomax_w", amomin |-> "amomin_w",
     amomaxu |-> "amomaxu_w", amominu |-> "amominu_w"]
DoubleCode ==
    [lr |-> "lr_d", sc |-> "sc_d", amoswap |-> "amoswap_d", amoadd |-> "amoadd_d", amoxor |-> "amoxor_d",
     amoand |-> "amoand_d", amoor |-> "amoor_d", amomax |-> "amomax_d", amomin |-> "amomin_d",
     amomaxu |-> "amomaxu_d", amominu |-> "amominu_d"]

DecodeA(xlen, insn) ==
    LET funct5 == Pick(insn, 27, 5)
        Amo == [amoswap |-> \b00001, amoadd |-> \b00000, amoxor |-> \b00100, amoand |-> \b01100,
                amoor |-> \b01000, amomin |-> \b10000, amomax |-> \b10100, amominu |-> \b11000,
                amomaxu |-> \b11100]
        double == Pick(insn, 12, 3) = \b011
        sized(name) == <<IF double THEN DoubleCode[name] ELSE WordCode[name], "R">>
    IN  CASE double /\ xlen = 32 -> Unknown
          [] ~(double /\ xlen = 32) /\ funct5 = \b00010 /\ Pick(insn, 20, 5) = 0 -> sized("lr")
          [] ~(double /\ xlen = 32) /\ funct5 = \b00011 -> sized("sc")
          [] ~(double /\ xlen = 32) /\ \E c \in DOMAIN Amo : Amo[c] = funct5 ->
               sized(CHOOSE c \in DOMAIN Amo : Amo[c] = funct5)
          [] OTHER -> Unknown

Fused(insn, codes) ==
    CASE Opcode(insn) = \b1000011 -> <<codes.fmadd, "R4">>
      [] Opcode(insn) = \b1000111 -> <<codes.fmsub, "R4">>
      [] Opcode(insn) = \b1001011 -> <<codes.fnmsub, "R4">>
      [] Opcode(insn) = \b1001111 -> <<codes.fnmadd, "R4">>

\* A code chosen by the rs2 field, or by funct3.
ByRs2(table, insn) ==
    IF Pick(insn, 20, 5) < Len(table) THEN <<table[Pick(insn, 20, 5) + 1], "R">> ELSE Unknown

ByFunct3(table, insn) ==
    IF Pick(insn, 12, 3) < Len(table) THEN <<table[Pick(insn, 12, 3) + 1], "R">> ELSE Unknown

DecodeF_Op(xlen, insn) ==
    LET funct7 == Pick(insn, 25, 7)
        rs2    == Pick(insn, 20, 5)
    IN  CASE funct7 = \b0000000 -> <<"fadd_s", "R">>
          [] funct7 = \b0000100 -> <<"fsub_s", "R">>
          [] funct7 = \b0001000 -> <<"fmul_s", "R">>
          [] funct7 = \b0001100 -> <<"fdiv_s", "R">>
          [] funct7 = \b0101100 -> ByRs2(<<"fsqrt_s">>, insn)
          [] funct7 = \b0010000 -> ByFunct3(<<"fsgnj_s", "fsgnjn_s", "fsgnjx_s">>, insn)
          [] funct7 = \b0010100 -> ByFunct3(<<"fmin_s", "fmax_s">>, insn)
          [] funct7 = \b1100000 ->
               ByRs2(IF xlen = 64 THEN <<"fcvt_w_s", "fcvt_wu_s", "fcvt_l_s", "fcvt_lu_s">>
                                  ELSE <<"fcvt_w_s", "fcvt_wu_s">>, insn)
          [] funct7 = \b1110000 /\ rs2 = 0 -> ByFunct3(<<"fmv_x_w", "fclass_s">>, insn)
          [] funct7 = \b1010000 -> ByFunct3(<<"fle_s", "flt_s", "feq_s">>, insn)
          [] funct7 = \b1101000 ->
               ByRs2(IF xlen = 64 THEN <<"fcvt_s_w", "fcvt_s_wu", "fcvt_s_l", "fcvt_s_lu">>
                                  ELSE <<"fcvt_s_w", "fcvt_s_wu">>, insn)
          [] funct7 = \b1111000 /\ rs2 = 0 -> ByFunct3(<<"fmv_w_x">>, insn)
          [] OTHER -> Unknown

DecodeF(xlen, insn) ==
    CASE Opcode(insn) = \b0000111 -> <<"flw", "I">>
      [] Opcode(insn) = \b0100111 -> <<"fsw", "S">>
      [] Opcode(insn) = \b1010011 -> DecodeF_Op(xlen, insn)
      [] OTHER -> Fused(insn, [fmadd |-> "fmadd_s", fmsub |-> "fmsub_s", fnmsub |-> "fnmsub_s", fnmadd |-> "fnmadd_s"])

DecodeD_Op(insn) ==
    LET funct7 == Pick(insn, 25, 7)
        rs2    == Pick(insn, 20, 5)
    IN  CASE funct7 = \b0000001 -> <<"fadd_d", "R">>
          [] funct7 = \b0000101 -> <<"fsub_d", "R">>
          [] funct7 = \b0001001 -> <<"fmul_d", "R">>
          [] funct7 = \b0001101 -> <<"fdiv_d", "R">>
          [] funct7 = \b0101101 -> ByRs2(<<"fsqrt_d">>, insn)
          [] funct7 = \b0010001 -> ByFunct3(<<"fsgnj_d", "fsgnjn_d", "fsgnjx_d">>, insn)
          [] funct7 = \b0010101 -> ByFunct3(<<"fmin_d", "fmax_d">>, insn)
          [] funct7 = \b0100000 /\ rs2 = 1 -> <<"fcvt_s_d", "R">>
          [] funct7 = \b0100001 -> ByRs2(<<"fcvt_d_s">>, insn)
          [] funct7 = \b1010001 -> ByFunct3(<<"fle_d", "flt_d", "feq_d">>, insn)
          [] funct7 = \b1110001 /\ rs2 = 0 -> ByFunct3(<<"fmv_x_d", "fclass_d">>, insn)
          [] funct7 = \b1100001 -> ByRs2(<<"fcvt_w_d", "fcvt_wu_d", "fcvt_l_d", "fcvt_lu_d">>, insn)
          [] funct7 = \b1101001 -> ByRs2(<<"fcvt_d_w", "fcvt_d_wu", "fcvt_d_l", "fcvt_d_lu">>, insn)
          [] funct7 = \b1111001 /\ rs2 = 0 -> ByFunct3(<<"fmv_d_x">>, insn)
          [] OTHER -> Unknown

DecodeD(insn) ==
    CASE Opcode(insn) = \b0000111 -> <<"fld", "I">>
      [] Opcode(insn) = \b0100111 -> <<"fsd", "S">>
      [] Opcode(insn) = \b1010011 -> DecodeD_Op(insn)
      [] OTHER -> Fused(insn, [fmadd |-> "fmadd_d", fmsub |-> "fmsub_d", fnmsub |-> "fnmsub_d", fnmadd |-> "fnmadd_d"])

DecodeC_0(xlen, insn) ==
    CASE Pick(insn, 13, 3) = 0 /\ Pick(insn, 5, 8) # 0 -> <<"c_addi4spn", "CIW">>
      [] Pick(insn, 13, 3) = 1 -> <<"c_fld", "CL8">>
      [] Pick(insn, 13, 3) = 2 -> <<"c_lw", "CL4">>
      [] Pick(insn, 13, 3) = 3 -> IF xlen = 32 THEN <<"c_flw", "CL4">> ELSE <<"c_ld", "CL8">>
      [] Pick(insn, 13, 3) = 5 -> <<"c_fsd", "CS8">>
      [] Pick(insn, 13, 3) = 6 -> <<"c_sw", "CS4">>
      [] Pick(insn, 13, 3) = 7 -> IF xlen = 32 THEN <<"c_fsw", "CS4">> ELSE <<"c_sd", "CS8">>
      [] OTHER -> Unknown

DecodeC_1(xlen, insn) ==
    LET funct3 == Pick(insn, 13, 3)
        rd     == Pick(insn, 7, 5)
        alu    == Pick(insn, 10, 2)
        two    == Pick(insn, 5, 2)
    IN  CASE funct3 = 0 -> IF Pick(insn, 12, 1) = 0 /\ rd = 0 /\ Pick(insn, 2, 5) = 0
                           THEN <<"c_nop", "None">> ELSE <<"c_addi", "CI">>
          [] funct3 = 1 /\ xlen = 32 -> <<"c_jal", "CJ">>
          [] funct3 = 1 /\ xlen = 64 /\ rd # 0 -> <<"c_addiw", "CI">>
          [] funct3 = 2 /\ rd # 0 -> <<"c_li", "CI">>
          [] funct3 = 3 /\ rd = 2 -> <<"c_addi16sp", "CI_ADDI16SP">>
          [] funct3 = 3 /\ rd \notin {0, 2} -> <<"c_lui", "CI_LUI">>
          [] funct3 = 4 /\ alu = 0 -> <<"c_srli", "CI_Shift">>
          [] funct3 = 4 /\ alu = 1 -> <<"c_srai", "CI_Shift">>
          [] funct3 = 4 /\ alu = 2 -> <<"c_andi", "CI_AluImm">>
          [] funct3 = 4 /\ alu = 3 /\ Pick(insn, 12, 1) = 0 ->
               Nth(<<"c_sub", "c_xor", "c_or", "c_and">>, two, "CR_Alu")
          [] funct3 = 4 /\ alu = 3 /\ Pick(insn, 12, 1) = 1 ->
               Nth(<<"c_subw", "c_addw", "unknown", "unknown">>, two, "CR_Alu")
          [] funct3 = 5 -> <<"c_j", "CJ">>
          [] funct3 = 6 -> <<"c_beqz", "CB">>
          [] funct3 = 7 -> <<"c_bnez", "CB">>
          [] OTHER -> Unknown

DecodeC_2(xlen, insn) ==
    LET funct3 == Pick(insn, 13, 3)
        link   == Pick(insn, 12, 1) = 1
        rd     == Pick(insn, 7, 5)
        rs2    == Pick(insn, 2, 5)
    IN  CASE funct3 = 0 -> <<"c_slli", "CI">>
          [] funct3 = 1 -> <<"c_fldsp", "CI_LoadSP8">>
          [] funct3 = 2 /\ rd # 0 -> <<"c_lwsp", "CI_LoadSP4">>
          [] funct3 = 3 /\ xlen = 32 -> <<"c_flwsp", "CI_LoadSP4">>
          [] funct3 = 3 /\ xlen = 64 /\ rd # 0 -> <<"c_ldsp", "CI_LoadSP8">>
          [] funct3 = 4 /\ ~link /\ rd # 0 -> <<IF rs2 = 0 THEN "c_jr" ELSE "c_mv", "CR">>
          [] funct3 = 4 /\ link /\ rd = 0 /\ rs2 = 0 -> <<"c_ebreak", "CR">>
          [] funct3 = 4 /\ link /\ rd # 0 -> <<IF rs2 = 0 THEN "c_jalr" ELSE "c_add", "CR">>
          [] funct3 = 5 -> <<"c_fsdsp", "CSS8">>
          [] funct3 = 6 -> <<"c_swsp", "CSS4">>
          [] funct3 = 7 -> IF xlen = 32 THEN <<"c_fswsp", "CSS4">> ELSE <<"c_sdsp", "CSS8">>
          [] OTHER -> Unknown

DecodeC(xlen, insn) ==
    CASE insn[1] % 4 = 0 -> DecodeC_0(xlen, insn)
      [] insn[1] % 4 = 1 -> DecodeC_1(xlen, insn)
      [] insn[1] % 4 = 2 -> DecodeC_2(xlen, insn)

(* The extension a word belongs to, then its code, format and operand.     *)
Extension(insn) ==
    LET opcode == Opcode(insn)
        funct3 == Pick(insn, 12, 3)
        funct7 == Pick(insn, 25, 7)
        funct2 == Pick(insn, 25, 2)
        memory == {\b0000111, \b0100111}
        fused  == {\b1000011, \b1000111, \b1001011, \b1001111}
    IN  CASE IsCompressedInstruction(insn) -> "C"
          [] opcode \in {\b0110011, \b0111011} /\ funct7 = 1 -> "M"
          [] opcode = \b0101111 /\ funct3 \in {2, 3} -> "A"
          [] opcode \in memory /\ funct3 = 2 -> "F"
          [] opcode \in memory /\ funct3 = 3 -> "D"
          [] opcode \in fused /\ funct2 = 0 -> "F"
          [] opcode \in fused /\ funct2 = 1 -> "D"
          [] opcode = \b1010011 /\ funct2 = 0 -> IF funct7 = \b0100000 THEN "D" ELSE "F"
          [] opcode = \b1010011 /\ funct2 = 1 -> "D"
          [] OTHER -> "I"

Decode(xlen, insn) ==
    LET class == Extension(insn)
        found == CASE class = "C" -> DecodeC(xlen, insn)
                   [] class = "M" -> DecodeM(xlen, insn)
                   [] class = "A" -> DecodeA(xlen, insn)
                   [] class = "F" -> DecodeF(xlen, insn)
                   [] class = "D" -> DecodeD(insn)
                   [] class = "I" -> DecodeI(xlen, insn)
    IN  [class |-> class, code |-> found[1], format |-> found[2],
         imm |-> Immediate(found[2], insn)]
=============================================================================
