----------------------------- MODULE MCExecutor -----------------------------
(***************************************************************************)
(* All compressed words, and 32-bit words from the field values that the   *)
(* decoder tells apart and a few that it does not know.                    *)
(***************************************************************************)
EXTENDS Executor

MCHalfwords == {w \in 0..65535 : w % 4 # 3}

Opcodes == {4 * n + 3 : n \in 0..31}

\* funct7: base, shifts and multiply; privileged; the atomics in steps of 4; the
\* floating-point codes for both widths.
Funct7 == {0, 1, 2, 4, 5, 8, 9, 12, 13, 16, 17, 20, 21, 24, 32, 33, 44, 45, 48, 64,
           80, 81, 96, 97, 104, 105, 112, 113, 120, 121}

Insn(opcode, rd, funct3, rs1, rs2, funct7) ==
    <<opcode + 128 * rd + 4096 * funct3 + 32768 * (rs1 % 2), (rs1 \div 2) + 16 * rs2 + 512 * funct7>>

MCWide ==
    {Insn(o, r, f3, r, rs2, f7) :
        o \in Opcodes, r \in {0, 9}, f3 \in 0..7, rs2 \in {0, 1, 2, 3, 5}, f7 \in Funct7}

\* Boundaries of a word (4 bits) under upper halves of zeros, ones and neither.
MCValues == {16 * high + low : high \in {0, 1, 15}, low \in {0, 1, 7, 8, 15}}

MCImmediates == {-8, -3, -1, 0, 2, 6}

MCPcs == {0, 16, 252}
=============================================================================
