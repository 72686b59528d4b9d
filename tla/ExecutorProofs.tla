---------------------------- MODULE ExecutorProofs ----------------------------
(***************************************************************************)
(* Proofs about Decoder and Executor for every instruction word, and for   *)
(* registers of any width the assumption on WordBits names, the real one   *)
(* included.                                                               *)
(***************************************************************************)
EXTENDS Executor, WellFoundedInduction, TLAPS

-----------------------------------------------------------------------------
(* Induction over numbers, stated for a set instead of an operator.        *)

LEMMA LeastElement ==
    ASSUME NEW S, S \subseteq Nat, S # {}
    PROVE  \E x \in S : \A y \in S : x <= y
  <1> DEFINE R == {p \in Nat \X Nat : p[1] < p[2]}
  <1>1. OpToRel(<, Nat) = R
    BY DEF OpToRel
  <1>2. IsWellFoundedOn(R, Nat)
    BY <1>1, NatLessThanWellFounded
  <1> HIDE DEF R
  <1>3. PICK x \in S : \A y \in S : <<y, x>> \notin R
    BY <1>2, WFMin
  <1>4. \A y \in S : x <= y
    <2>1. TAKE y \in S
    <2>2. <<y, x>> \in Nat \X Nat /\ ~(y < x)
      BY <1>3 DEF R
    <2> QED BY <2>2
  <1> QED BY <1>4

\* What holds at 0 and goes on from each number below n to the next.
LEMMA UpTo ==
    ASSUME NEW n \in Nat, NEW S, 0 \in S,
           \A k \in 0 .. n - 1 : k \in S => k + 1 \in S
    PROVE  0 .. n \subseteq S
  <1> DEFINE Out == {k \in 0 .. n : k \notin S}
  <1>1. SUFFICES ASSUME Out # {} PROVE FALSE
    OBVIOUS
  <1>2. PICK x \in Out : \A y \in Out : x <= y
    <2>1. Out \subseteq Nat
      OBVIOUS
    <2> HIDE DEF Out
    <2> QED BY <1>1, <2>1, LeastElement
  <1>3. x # 0 /\ x \in 1 .. n
    BY <1>2
  <1>4. x - 1 \in 0 .. n - 1 /\ x - 1 \notin Out
    BY <1>2, <1>3
  <1> QED BY <1>2, <1>4

\* The values that step makes from base, one after the other.
Follows(f, base, step, n) ==
    f[0] = base /\ \A k \in 0 .. n - 1 : f[k + 1] = step[k][f[k]]

\* A function may be defined by recursion over the numbers up to n.
LEMMA Recursion ==
    ASSUME NEW V, NEW base \in V, NEW step \in [Nat -> [V -> V]], NEW n \in Nat
    PROVE  \E f \in [0 .. n -> V] : Follows(f, base, step, n)
  <1> DEFINE S == {m \in Nat : \E f \in [0 .. m -> V] : Follows(f, base, step, m)}
  <1>1. 0 \in S
    <2> DEFINE g == [i \in 0 .. 0 |-> base]
    <2>1. g \in [0 .. 0 -> V] /\ Follows(g, base, step, 0)
      BY DEF Follows
    <2> QED BY <2>1
  <1>2. ASSUME NEW m \in S PROVE m + 1 \in S
    <2>1. PICK f \in [0 .. m -> V] : Follows(f, base, step, m)
      BY <1>2
    <2> DEFINE g == [i \in 0 .. m + 1 |->
                        IF i = m + 1 THEN step[m][f[m]] ELSE f[i]]
    <2>2. m \in Nat /\ f[m] \in V /\ m + 1 \in Nat
      BY <1>2
    <2>3. g \in [0 .. m + 1 -> V]
      BY <2>2
    <2>4. \A i \in 0 .. m : g[i] = f[i]
      BY <2>2
    <2>5. g[m + 1] = step[m][f[m]]
      BY <2>2
    <2> HIDE DEF g
    <2>6. ASSUME NEW k \in 0 .. m PROVE g[k + 1] = step[k][g[k]]
      <3>1. CASE k = m
        BY <2>2, <2>4, <2>5, <3>1
      <3>2. CASE k # m
        <4>1. k \in 0 .. m - 1 /\ k + 1 \in 0 .. m
          BY <2>2, <3>2
        <4> QED BY <2>1, <2>4, <4>1 DEF Follows
      <3> QED BY <3>1, <3>2
    <2>7. g[0] = base /\ m + 1 - 1 = m
      BY <2>1, <2>2, <2>4 DEF Follows
    <2>8. Follows(g, base, step, m + 1)
      BY <2>6, <2>7 DEF Follows
    <2> QED BY <2>2, <2>3, <2>8
  <1> HIDE DEF S
  <1>3. 0 .. n \subseteq S
    BY <1>1, <1>2, UpTo
  <1> QED BY <1>3 DEF S

-----------------------------------------------------------------------------
(* Powers of two.                                                          *)

LEMMA PowerDef ==
    /\ Power \in [0 .. 64 -> Nat \ {0}]
    /\ Power[0] = 1
    /\ \A n \in 0 .. 63 : Power[n + 1] = 2 * Power[n]
  <1> DEFINE V == Nat \ {0}
             step == [k \in Nat |-> [v \in V |-> 2 * v]]
             IsPower(f) == f = [n \in 0 .. 64 |-> IF n = 0 THEN 1 ELSE 2 * f[n - 1]]
  <1>1. step \in [Nat -> [V -> V]] /\ 1 \in V
    OBVIOUS
  <1>2. PICK f \in [0 .. 64 -> V] : Follows(f, 1, step, 64)
    <2> HIDE DEF V, step
    <2> QED BY <1>1, Recursion
  <1>3. f[0] = 1 /\ \A n \in 1 .. 64 : f[n] = 2 * f[n - 1]
    <2>1. f[0] = 1
      BY <1>2 DEF Follows
    <2>2. ASSUME NEW n \in 1 .. 64 PROVE f[n] = 2 * f[n - 1]
      <3>1. PICK k \in 0 .. 64 - 1 : k + 1 = n /\ n - 1 = k
        OBVIOUS
      <3>2. f[k + 1] = step[k][f[k]]
        BY <1>2, <3>1 DEF Follows
      <3>3. k \in Nat /\ f[k] \in V
        <4> HIDE DEF V
        <4> QED BY <1>2
      <3> QED BY <3>1, <3>2, <3>3
    <2> QED BY <2>1, <2>2
  <1>4. IsPower(f)
    <2>1. f = [n \in 0 .. 64 |-> f[n]]
      BY <1>2
    <2>2. \A n \in 0 .. 64 : f[n] = IF n = 0 THEN 1 ELSE 2 * f[n - 1]
      BY <1>3
    <2> QED BY <2>1, <2>2, Zenon
  <1>5. Power = CHOOSE g : IsPower(g)
    BY DEF Power
  <1>6. IsPower(Power)
    BY <1>4, <1>5
  <1>7. \A n \in 0 .. 64 : Power[n] = IF n = 0 THEN 1 ELSE 2 * Power[n - 1]
    BY <1>6, Zenon
  <1>8. Power[0] = 1 /\ \A n \in 0 .. 63 : Power[n + 1] = 2 * Power[n]
    BY <1>7
  <1>9. DOMAIN Power = 0 .. 64 /\ Power = [n \in 0 .. 64 |-> Power[n]]
    BY <1>6
  <1>10. \A n \in 0 .. 64 : Power[n] \in Nat \ {0}
    <2> DEFINE S == {n \in 0 .. 64 : Power[n] \in Nat \ {0}}
    <2>1. 0 \in S
      BY <1>8
    <2>2. \A n \in 0 .. 64 - 1 : n \in S => n + 1 \in S
      BY <1>8
    <2> HIDE DEF S
    <2>3. 0 .. 64 \subseteq S
      BY <2>1, <2>2, UpTo
    <2> QED BY <2>3 DEF S
  <1> QED BY <1>8, <1>9, <1>10

-----------------------------------------------------------------------------
(* Fields of a word.                                                       *)

LEMMA SmallPowers == Power[1] = 2 /\ Power[2] = 4 /\ Power[3] = 8
  <1>1. Power[0 + 1] = 2 * Power[0] /\ Power[1 + 1] = 2 * Power[1] /\ Power[2 + 1] = 2 * Power[2]
    BY PowerDef
  <1> QED BY <1>1, PowerDef

LEMMA Division ==
    ASSUME NEW n \in Nat, NEW p \in Nat \ {0}
    PROVE  n \div p \in Nat /\ n % p \in 0..(p - 1) /\ n * p \in Nat
  OBVIOUS

\* A field is a number of its width.
LEMMA PickField ==
    ASSUME NEW insn \in Nat \X Nat, NEW lsb \in 0..31, NEW width \in 0..32
    PROVE  /\ Pick(insn, lsb, width) \in Nat
           /\ Pick(insn, lsb, width) \in 0..(Power[width] - 1)
  <1> DEFINE low  == IF lsb < 16 THEN insn[1] \div Power[lsb] ELSE 0
             high == IF lsb < 16 THEN insn[2] * Power[16 - lsb] ELSE insn[2] \div Power[lsb - 16]
  <1>1. insn[1] \in Nat /\ insn[2] \in Nat
    OBVIOUS
  <1>2. \A n \in 0..64 : Power[n] \in Nat \ {0}
    BY PowerDef
  <1>3. low \in Nat /\ high \in Nat
    <2>1. CASE lsb < 16
      <3>1. Power[lsb] \in Nat \ {0} /\ Power[16 - lsb] \in Nat \ {0}
        BY <1>2, <2>1
      <3> QED BY <2>1, <3>1, <1>1, Division
    <2>2. CASE ~(lsb < 16)
      <3>1. Power[lsb - 16] \in Nat \ {0}
        BY <1>2, <2>2
      <3> QED BY <2>2, <3>1, <1>1, Division
    <2> QED BY <2>1, <2>2
  <1>4. Pick(insn, lsb, width) = (low + high) % Power[width]
    BY DEF Pick
  <1> HIDE DEF low, high
  <1>5. PICK n \in Nat : n = low + high
    BY <1>3
  <1>6. PICK p \in Nat \ {0} : p = Power[width]
    BY <1>2
  <1>7. n % p \in 0..(p - 1)
    BY <1>5, <1>6, Division
  <1>8. n % p \in Nat
    BY <1>6, <1>7
  <1> QED BY <1>4, <1>5, <1>6, <1>7, <1>8

\* A field of up to three bits is a position in a table.
LEMMA PickSmall ==
    ASSUME NEW insn \in Nat \X Nat, NEW lsb \in 0..31, NEW width \in 1..3
    PROVE  /\ Pick(insn, lsb, width) \in Nat
           /\ width = 1 => Pick(insn, lsb, width) \in 0..1
           /\ width = 2 => Pick(insn, lsb, width) \in 0..3
           /\ width = 3 => Pick(insn, lsb, width) \in 0..7
  <1>1. width \in 0..32 /\ width \in {1, 2, 3}
    OBVIOUS
  <1>2. Pick(insn, lsb, width) \in Nat /\ Pick(insn, lsb, width) \in 0..(Power[width] - 1)
    BY <1>1, PickField
  <1> QED BY <1>1, <1>2, SmallPowers

-----------------------------------------------------------------------------
(* What the decoder finds: the codes of each extension, by the format of   *)
(* their operand.                                                          *)

ListedI(xl, code, format) ==
    \/ format = "U" /\ code \in {"lui", "auipc"}
    \/ format = "J" /\ code = "jal"
    \/ format = "I" /\ code \in {"jalr", "lb", "lh", "lw", "lbu", "lhu",
                                 "addi", "slti", "sltiu", "xori", "ori", "andi"}
    \/ format = "I" /\ xl = 64 /\ code \in {"ld", "lwu", "addiw"}
    \/ format = "B" /\ code \in {"beq", "bne", "blt", "bge", "bltu", "bgeu"}
    \/ format = "S" /\ (code \in {"sb", "sh", "sw"} \/ (xl = 64 /\ code = "sd"))
    \/ format = "R" /\ code \in {"add", "sll", "slt", "sltu", "xor_", "srl", "or_", "and_", "sub", "sra"}
    \/ format = "R" /\ code = "sfence_vma"
    \/ format = "R" /\ xl = 64 /\ code \in {"addw", "subw", "sllw", "srlw", "sraw"}
    \/ format \in {"ShiftImm_32", "ShiftImm_64"} /\ code \in {"slli", "srli", "srai"}
    \/ format = "ShiftImm_32" /\ xl = 64 /\ code \in {"slliw", "srliw", "sraiw"}
    \/ format = "Fence" /\ code \in {"fence", "fence_i"}
    \/ format = "None" /\ code \in {"ecall", "ebreak", "uret", "sret", "wfi", "mret"}
    \/ format = "Csr" /\ code \in {"csrrw", "csrrs", "csrrc"}
    \/ format = "CsrImm" /\ code \in {"csrrwi", "csrrsi", "csrrci"}

ListedM(xl, code, format) ==
    format = "R" /\ \/ code \in {"mul", "mulh", "mulhsu", "mulhu", "div", "divu", "rem", "remu"}
                    \/ xl = 64 /\ code \in {"mulw", "divw", "divuw", "remw", "remuw"}

AtomicWords == {"amoswap_w", "amoadd_w", "amoxor_w", "amoand_w", "amoor_w",
                "amomax_w", "amomin_w", "amomaxu_w", "amominu_w"}
AtomicDoubles == {"amoswap_d", "amoadd_d", "amoxor_d", "amoand_d", "amoor_d",
                  "amomax_d", "amomin_d", "amomaxu_d", "amominu_d"}

ListedA(xl, code, format) ==
    format = "R" /\ \/ code \in {"lr_w", "sc_w"} \cup AtomicWords
                    \/ xl = 64 /\ code \in {"lr_d", "sc_d"} \cup AtomicDoubles

ListedF(xl, code, format) ==
    \/ format = "I" /\ code = "flw"
    \/ format = "S" /\ code = "fsw"
    \/ format = "R4" /\ code \in ProcessRVF.MulAdd
    \/ format = "R" /\ code \in ProcessRVF.F_Compute

ListedD(xl, code, format) ==
    \/ format = "I" /\ code = "fld"
    \/ format = "S" /\ code = "fsd"
    \/ format = "R4" /\ code \in ProcessRVD.MulAdd
    \/ format = "R" /\ code \in ProcessRVD.F_Compute

ListedC(xl, code, format) ==
    \/ format = "None" /\ code = "c_nop"
    \/ format = "CIW" /\ code = "c_addi4spn"
    \/ format = "CL8" /\ (code = "c_fld" \/ (xl = 64 /\ code = "c_ld"))
    \/ format = "CL4" /\ (code = "c_lw" \/ (xl = 32 /\ code = "c_flw"))
    \/ format = "CS8" /\ (code = "c_fsd" \/ (xl = 64 /\ code = "c_sd"))
    \/ format = "CS4" /\ (code = "c_sw" \/ (xl = 32 /\ code = "c_fsw"))
    \/ format = "CI" /\ (code \in {"c_addi", "c_li", "c_slli"} \/ (xl = 64 /\ code = "c_addiw"))
    \/ format = "CI_ADDI16SP" /\ code = "c_addi16sp"
    \/ format = "CI_LUI" /\ code = "c_lui"
    \/ format = "CI_Shift" /\ code \in {"c_srli", "c_srai"}
    \/ format = "CI_AluImm" /\ code = "c_andi"
    \/ format = "CR_Alu" /\ code \in {"c_sub", "c_xor", "c_or", "c_and", "c_subw", "c_addw"}
    \/ format = "CR" /\ code \in {"c_jr", "c_mv", "c_ebreak", "c_jalr", "c_add"}
    \/ format = "CB" /\ code \in {"c_beqz", "c_bnez"}
    \/ format = "CJ" /\ (code = "c_j" \/ (xl = 32 /\ code = "c_jal"))
    \/ format = "CI_LoadSP8" /\ (code = "c_fldsp" \/ (xl = 64 /\ code = "c_ldsp"))
    \/ format = "CI_LoadSP4" /\ (code = "c_lwsp" \/ (xl = 32 /\ code = "c_flwsp"))
    \/ format = "CSS8" /\ (code = "c_fsdsp" \/ (xl = 64 /\ code = "c_sdsp"))
    \/ format = "CSS4" /\ (code = "c_swsp" \/ (xl = 32 /\ code = "c_fswsp"))

\* A found code is unknown or in the list.
FoundI(xl, f) == f[1] = "unknown" \/ ListedI(xl, f[1], f[2])
FoundM(xl, f) == f[1] = "unknown" \/ ListedM(xl, f[1], f[2])
FoundA(xl, f) == f[1] = "unknown" \/ ListedA(xl, f[1], f[2])
FoundF(xl, f) == f[1] = "unknown" \/ ListedF(xl, f[1], f[2])
FoundD(xl, f) == f[1] = "unknown" \/ ListedD(xl, f[1], f[2])
FoundC(xl, f) == f[1] = "unknown" \/ ListedC(xl, f[1], f[2])

LEMMA FoundI_Flow ==
    ASSUME NEW xl \in {32, 64}, NEW insn \in Nat \X Nat,
           Opcode(insn) \in {\b0110111, \b0010111, \b1101111, \b1100111, \b1100011, \b0000011, \b0100011}
    PROVE  FoundI(xl, DecodeI_Flow(xl, insn))
  <1>0. Pick(insn, 12, 3) \in 0..7
    BY PickSmall
  <1>1. CASE Opcode(insn) \in {\b0110111, \b0010111, \b1101111, \b1100111}
    <2>1. CASE Opcode(insn) = \b0110111
      BY <2>1 DEF DecodeI_Flow, FoundI, ListedI
    <2>2. CASE Opcode(insn) = \b0010111
      BY <2>2 DEF DecodeI_Flow, FoundI, ListedI
    <2>3. CASE Opcode(insn) = \b1101111
      BY <2>3 DEF DecodeI_Flow, FoundI, ListedI
    <2>4. CASE Opcode(insn) = \b1100111
      BY <2>4 DEF DecodeI_Flow, FoundI, ListedI, Unknown
    <2> QED BY <1>1, <2>1, <2>2, <2>3, <2>4
  <1>2. CASE Opcode(insn) = \b1100011
    BY <1>0, <1>2 DEF DecodeI_Flow, FoundI, ListedI, Nth, Unknown
  <1>3. CASE Opcode(insn) = \b0000011
    <2> DEFINE wide(code) == IF xl = 64 THEN code ELSE "unknown"
               table == <<"lb", "lh", "lw", wide("ld"), "lbu", "lhu", wide("lwu"), "unknown">>
    <2>1. DecodeI_Flow(xl, insn) = Nth(table, Pick(insn, 12, 3), "I")
      BY <1>3 DEF DecodeI_Flow
    <2>2. \A n \in 0..7 : FoundI(xl, Nth(table, n, "I"))
      BY DEF FoundI, ListedI, Nth, Unknown
    <2> HIDE DEF table
    <2> QED BY <1>0, <2>1, <2>2
  <1>4. CASE Opcode(insn) = \b0100011
    BY <1>0, <1>4 DEF DecodeI_Flow, FoundI, ListedI, Nth, Unknown
  <1> QED BY <1>1, <1>2, <1>3, <1>4

LEMMA FoundI_Compute ==
    ASSUME NEW xl \in {32, 64}, NEW insn \in Nat \X Nat
    PROVE  FoundI(xl, DecodeI_Compute(xl, insn))
  <1>0. Pick(insn, 12, 3) \in 0..7
    BY PickSmall
  <1>1. CASE Opcode(insn) = \b0010011
    BY <1>0, <1>1 DEF DecodeI_Compute, FoundI, ListedI, Nth, Unknown
  <1>2. CASE Opcode(insn) = \b0110011
    BY <1>0, <1>2 DEF DecodeI_Compute, FoundI, ListedI, Nth, Unknown
  <1>3. CASE Opcode(insn) = \b0011011
    BY <1>0, <1>3 DEF DecodeI_Compute, FoundI, ListedI, Unknown
  <1>4. CASE Opcode(insn) = \b0111011
    BY <1>0, <1>4 DEF DecodeI_Compute, FoundI, ListedI, Unknown
  <1>5. CASE Opcode(insn) \notin {\b0010011, \b0110011, \b0011011, \b0111011}
    BY <1>5 DEF DecodeI_Compute, FoundI, Unknown
  <1> QED BY <1>1, <1>2, <1>3, <1>4, <1>5

LEMMA FoundI_System ==
    ASSUME NEW xl \in {32, 64}, NEW insn \in Nat \X Nat
    PROVE  FoundI(xl, DecodeI_System(insn))
  <1>0. Pick(insn, 12, 3) \in 0..7
    BY PickSmall
  <1>1. CASE Opcode(insn) = \b0001111
    BY <1>0, <1>1 DEF DecodeI_System, FoundI, ListedI, Unknown
  <1>2. CASE Opcode(insn) = \b1110011 /\ Pick(insn, 12, 3) # 0
    BY <1>0, <1>2 DEF DecodeI_System, FoundI, ListedI, Nth, Unknown
  <1>3. CASE Opcode(insn) = \b1110011 /\ Pick(insn, 12, 3) = 0
    BY <1>0, <1>3 DEF DecodeI_System, FoundI, ListedI, Unknown
  <1>4. CASE Opcode(insn) \notin {\b0001111, \b1110011}
    BY <1>4 DEF DecodeI_System, FoundI, Unknown
  <1> QED BY <1>1, <1>2, <1>3, <1>4

LEMMA FoundI_All ==
    ASSUME NEW xl \in {32, 64}, NEW insn \in Nat \X Nat
    PROVE  FoundI(xl, DecodeI(xl, insn))
  BY FoundI_Flow, FoundI_Compute, FoundI_System DEF DecodeI

LEMMA FoundM_All ==
    ASSUME NEW xl \in {32, 64}, NEW insn \in Nat \X Nat
    PROVE  FoundM(xl, DecodeM(xl, insn))
  <1>0. Pick(insn, 12, 3) \in 0..7
    BY PickSmall
  <1>1. CASE Opcode(insn) = \b0110011
    BY <1>0, <1>1 DEF DecodeM, FoundM, ListedM, Nth, Unknown
  <1>2. CASE Opcode(insn) # \b0110011 /\ xl = 64
    BY <1>0, <1>2 DEF DecodeM, FoundM, ListedM, Nth, Unknown
  <1>3. CASE Opcode(insn) # \b0110011 /\ xl = 32
    BY <1>0, <1>3 DEF DecodeM, FoundM, ListedM, Nth, Unknown
  <1> QED BY <1>1, <1>2, <1>3

LEMMA FoundA_All ==
    ASSUME NEW xl \in {32, 64}, NEW insn \in Nat \X Nat
    PROVE  FoundA(xl, DecodeA(xl, insn))
  <1> DEFINE funct5 == Pick(insn, 27, 5)
             Amo == [amoswap |-> \b00001, amoadd |-> \b00000, amoxor |-> \b00100, amoand |-> \b01100,
                     amoor |-> \b01000, amomin |-> \b10000, amomax |-> \b10100, amominu |-> \b11000,
                     amomaxu |-> \b11100]
             double == Pick(insn, 12, 3) = \b011
             sized(name) == <<IF double THEN DoubleCode[name] ELSE WordCode[name], "R">>
  <1>1. DOMAIN Amo = Amos
    BY DEF Amos

  <1>3. ASSUME NEW name \in Amos \cup {"lr", "sc"}, ~(double /\ xl = 32)
        PROVE  FoundA(xl, sized(name))
    BY <1>3 DEF FoundA, ListedA, Amos, AtomicWords, AtomicDoubles, WordCode, DoubleCode
  <1>4. DecodeA(xl, insn) =
          CASE double /\ xl = 32 -> Unknown
            [] ~(double /\ xl = 32) /\ funct5 = \b00010 /\ Pick(insn, 20, 5) = 0 -> sized("lr")
            [] ~(double /\ xl = 32) /\ funct5 = \b00011 -> sized("sc")
            [] ~(double /\ xl = 32) /\ \E c \in DOMAIN Amo : Amo[c] = funct5 ->
                 sized(CHOOSE c \in DOMAIN Amo : Amo[c] = funct5)
            [] OTHER -> Unknown
    BY DEF DecodeA
  <1>5. (\E c \in DOMAIN Amo : Amo[c] = funct5) => (CHOOSE c \in DOMAIN Amo : Amo[c] = funct5) \in Amos
    <2> HIDE DEF Amo
    <2> QED BY <1>1
  <1>6. FoundA(xl, Unknown)
    BY DEF FoundA, Unknown
  <1> HIDE DEF Amo, sized
  <1> QED BY <1>3, <1>4, <1>5, <1>6

\* What is picked from a table by a field is in the table.
LEMMA ByField ==
    ASSUME NEW insn \in Nat \X Nat, NEW S, NEW table \in Seq(S)
    PROVE  /\ ByRs2(table, insn) \in {Unknown} \cup (S \X {"R"})
           /\ ByFunct3(table, insn) \in {Unknown} \cup (S \X {"R"})
  <1>1. Pick(insn, 20, 5) \in Nat /\ Pick(insn, 12, 3) \in Nat
    BY PickField, SMTT(30)
  <1>2. \A n \in Nat : n < Len(table) => <<table[n + 1], "R">> \in S \X {"R"}
    OBVIOUS
  <1> QED BY <1>1, <1>2 DEF ByRs2, ByFunct3

\* The operation codes of the floating-point extensions.
FpOpcodes == {\b0000111, \b0100111, \b1010011, \b1000011, \b1000111, \b1001011, \b1001111}

LEMMA FoundF_All ==
    ASSUME NEW xl \in {32, 64}, NEW insn \in Nat \X Nat, Opcode(insn) \in FpOpcodes
    PROVE  FoundF(xl, DecodeF(xl, insn))
  <1>0. Pick(insn, 12, 3) \in 0..7
    BY PickSmall
  <1>1. Pick(insn, 20, 5) \in Nat
    BY PickField, SMTT(30)
  <1>2. CASE Opcode(insn) = \b0000111
    BY <1>2 DEF DecodeF, FoundF, ListedF
  <1>3. CASE Opcode(insn) = \b0100111
    BY <1>3 DEF DecodeF, FoundF, ListedF
  <1>4. CASE Opcode(insn) = \b1010011
    <2>1. DecodeF(xl, insn) = DecodeF_Op(xl, insn)
      BY <1>4 DEF DecodeF
    <2> DEFINE codes == ProcessRVF.F_Compute
               found == {Unknown} \cup (codes \X {"R"})
    <2>2. /\ <<"fsqrt_s">> \in Seq(codes)
          /\ <<"fsgnj_s", "fsgnjn_s", "fsgnjx_s">> \in Seq(codes)
          /\ <<"fmin_s", "fmax_s">> \in Seq(codes)
          /\ <<"fle_s", "flt_s", "feq_s">> \in Seq(codes)
          /\ <<"fcvt_w_s", "fcvt_wu_s", "fcvt_l_s", "fcvt_lu_s">> \in Seq(codes)
          /\ <<"fcvt_w_s", "fcvt_wu_s">> \in Seq(codes)
          /\ <<"fmv_x_w", "fclass_s">> \in Seq(codes)
          /\ <<"fcvt_s_w", "fcvt_s_wu", "fcvt_s_l", "fcvt_s_lu">> \in Seq(codes)
          /\ <<"fcvt_s_w", "fcvt_s_wu">> \in Seq(codes)
          /\ <<"fmv_w_x">> \in Seq(codes)
      BY DEF ProcessRVF
    <2>3. /\ ByRs2(<<"fsqrt_s">>, insn) \in found
          /\ ByRs2(<<"fcvt_w_s", "fcvt_wu_s", "fcvt_l_s", "fcvt_lu_s">>, insn) \in found
          /\ ByRs2(<<"fcvt_w_s", "fcvt_wu_s">>, insn) \in found
          /\ ByRs2(<<"fcvt_s_w", "fcvt_s_wu", "fcvt_s_l", "fcvt_s_lu">>, insn) \in found
          /\ ByRs2(<<"fcvt_s_w", "fcvt_s_wu">>, insn) \in found
          /\ ByFunct3(<<"fsgnj_s", "fsgnjn_s", "fsgnjx_s">>, insn) \in found
          /\ ByFunct3(<<"fmin_s", "fmax_s">>, insn) \in found
          /\ ByFunct3(<<"fle_s", "flt_s", "feq_s">>, insn) \in found
          /\ ByFunct3(<<"fmv_x_w", "fclass_s">>, insn) \in found
          /\ ByFunct3(<<"fmv_w_x">>, insn) \in found
      <3> HIDE DEF codes
      <3> QED BY <2>2, ByField
    <2>4. DecodeF_Op(xl, insn) \in found
      <3>1. \A c \in {"fadd_s", "fsub_s", "fmul_s", "fdiv_s"} : <<c, "R">> \in found
        BY DEF ProcessRVF
      <3> HIDE DEF found
      <3>2. Unknown \in found
        BY DEF found
      <3> QED BY <2>3, <3>1, <3>2 DEF DecodeF_Op
    <2>5. \A f \in found : FoundF(xl, f)
      BY DEF FoundF, ListedF, Unknown
    <2>6. FoundF(xl, DecodeF_Op(xl, insn))
      BY <2>4, <2>5
    <2> QED BY <2>1, <2>6
  <1>5. CASE Opcode(insn) \in {\b1000011, \b1000111, \b1001011, \b1001111}
    <2> DEFINE codes == [fmadd |-> "fmadd_s", fmsub |-> "fmsub_s", fnmsub |-> "fnmsub_s", fnmadd |-> "fnmadd_s"]
    <2>1. DecodeF(xl, insn) = Fused(insn, codes)
      BY <1>5 DEF DecodeF
    <2>2. FoundF(xl, Fused(insn, codes))
      BY <1>5 DEF Fused, FoundF, ListedF, ProcessRVF
    <2> QED BY <2>1, <2>2
  <1> QED BY <1>2, <1>3, <1>4, <1>5 DEF FpOpcodes

LEMMA FoundD_All ==
    ASSUME NEW xl \in {32, 64}, NEW insn \in Nat \X Nat, Opcode(insn) \in FpOpcodes
    PROVE  FoundD(xl, DecodeD(insn))
  <1>0. Pick(insn, 12, 3) \in 0..7
    BY PickSmall
  <1>1. Pick(insn, 20, 5) \in Nat
    BY PickField
  <1>2. CASE Opcode(insn) = \b0000111
    BY <1>2 DEF DecodeD, FoundD, ListedD
  <1>3. CASE Opcode(insn) = \b0100111
    BY <1>3 DEF DecodeD, FoundD, ListedD
  <1>4. CASE Opcode(insn) = \b1010011
    <2>1. DecodeD(insn) = DecodeD_Op(insn)
      BY <1>4 DEF DecodeD
    <2> DEFINE codes == ProcessRVD.F_Compute
               found == {Unknown} \cup (codes \X {"R"})
    <2>2. /\ <<"fsqrt_d">> \in Seq(codes)
          /\ <<"fsgnj_d", "fsgnjn_d", "fsgnjx_d">> \in Seq(codes)
          /\ <<"fmin_d", "fmax_d">> \in Seq(codes)
          /\ <<"fle_d", "flt_d", "feq_d">> \in Seq(codes)
          /\ <<"fcvt_d_s">> \in Seq(codes)
          /\ <<"fmv_x_d", "fclass_d">> \in Seq(codes)
          /\ <<"fcvt_w_d", "fcvt_wu_d", "fcvt_l_d", "fcvt_lu_d">> \in Seq(codes)
          /\ <<"fcvt_d_w", "fcvt_d_wu", "fcvt_d_l", "fcvt_d_lu">> \in Seq(codes)
          /\ <<"fmv_d_x">> \in Seq(codes)
      BY DEF ProcessRVD
    <2>3. /\ ByRs2(<<"fsqrt_d">>, insn) \in found
          /\ ByRs2(<<"fcvt_d_s">>, insn) \in found
          /\ ByRs2(<<"fcvt_w_d", "fcvt_wu_d", "fcvt_l_d", "fcvt_lu_d">>, insn) \in found
          /\ ByRs2(<<"fcvt_d_w", "fcvt_d_wu", "fcvt_d_l", "fcvt_d_lu">>, insn) \in found
          /\ ByFunct3(<<"fsgnj_d", "fsgnjn_d", "fsgnjx_d">>, insn) \in found
          /\ ByFunct3(<<"fmin_d", "fmax_d">>, insn) \in found
          /\ ByFunct3(<<"fle_d", "flt_d", "feq_d">>, insn) \in found
          /\ ByFunct3(<<"fmv_x_d", "fclass_d">>, insn) \in found
          /\ ByFunct3(<<"fmv_d_x">>, insn) \in found
      <3> HIDE DEF codes
      <3> QED BY <2>2, ByField
    <2>4. DecodeD_Op(insn) \in found
      <3>1. \A c \in {"fadd_d", "fsub_d", "fmul_d", "fdiv_d", "fcvt_s_d"} : <<c, "R">> \in found
        BY DEF ProcessRVD
      <3> HIDE DEF found
      <3>2. Unknown \in found
        BY DEF found
      <3> QED BY <2>3, <3>1, <3>2 DEF DecodeD_Op
    <2>5. \A f \in found : FoundD(xl, f)
      BY DEF FoundD, ListedD, Unknown
    <2>6. FoundD(xl, DecodeD_Op(insn))
      BY <2>4, <2>5
    <2> QED BY <2>1, <2>6
  <1>5. CASE Opcode(insn) \in {\b1000011, \b1000111, \b1001011, \b1001111}
    <2> DEFINE codes == [fmadd |-> "fmadd_d", fmsub |-> "fmsub_d", fnmsub |-> "fnmsub_d", fnmadd |-> "fnmadd_d"]
    <2>1. DecodeD(insn) = Fused(insn, codes)
      BY <1>5 DEF DecodeD
    <2>2. FoundD(xl, Fused(insn, codes))
      BY <1>5 DEF Fused, FoundD, ListedD, ProcessRVD
    <2> QED BY <2>1, <2>2
  <1> QED BY <1>2, <1>3, <1>4, <1>5 DEF FpOpcodes

LEMMA FoundC_0 ==
    ASSUME NEW xl \in {32, 64}, NEW insn \in Nat \X Nat
    PROVE  FoundC(xl, DecodeC_0(xl, insn))
  BY PickSmall DEF DecodeC_0, FoundC, ListedC, Unknown

LEMMA FoundC_1 ==
    ASSUME NEW xl \in {32, 64}, NEW insn \in Nat \X Nat
    PROVE  FoundC(xl, DecodeC_1(xl, insn))
  <1> DEFINE funct3 == Pick(insn, 13, 3)
             two == Pick(insn, 5, 2)
             whole == Nth(<<"c_sub", "c_xor", "c_or", "c_and">>, two, "CR_Alu")
             word == Nth(<<"c_subw", "c_addw", "unknown", "unknown">>, two, "CR_Alu")
  <1>1. funct3 \in 0..7 /\ two \in 0..3
    BY PickSmall
  <1>2. FoundC(xl, whole) /\ FoundC(xl, word)
    <2> HIDE DEF two
    <2> QED BY <1>1 DEF Nth, FoundC, ListedC, Unknown
  <1>3. CASE funct3 = 4
    <2>1. DecodeC_1(xl, insn) \in {<<"c_srli", "CI_Shift">>, <<"c_srai", "CI_Shift">>,
                                  <<"c_andi", "CI_AluImm">>, whole, word, Unknown}
      <3> HIDE DEF whole, word
      <3>1. DecodeC_1(xl, insn) =
              CASE Pick(insn, 10, 2) = 0 -> <<"c_srli", "CI_Shift">>
                [] Pick(insn, 10, 2) = 1 -> <<"c_srai", "CI_Shift">>
                [] Pick(insn, 10, 2) = 2 -> <<"c_andi", "CI_AluImm">>
                [] Pick(insn, 10, 2) = 3 /\ Pick(insn, 12, 1) = 0 -> whole
                [] Pick(insn, 10, 2) = 3 /\ Pick(insn, 12, 1) = 1 -> word
                [] OTHER -> Unknown
        BY <1>3 DEF DecodeC_1, whole, word
      <3> QED BY <3>1
    <2> HIDE DEF whole, word
    <2> QED BY <1>2, <2>1 DEF FoundC, ListedC, Unknown
  <1>4. CASE funct3 \in {0, 1, 2, 3, 5, 6, 7}
    <2> DEFINE f == DecodeC_1(xl, insn)
    <2>1. f \in {Unknown, <<"c_nop", "None">>, <<"c_addi", "CI">>, <<"c_li", "CI">>,
                 <<"c_addi16sp", "CI_ADDI16SP">>, <<"c_lui", "CI_LUI">>,
                 <<"c_j", "CJ">>, <<"c_beqz", "CB">>, <<"c_bnez", "CB">>}
             \cup (IF xl = 32 THEN {<<"c_jal", "CJ">>} ELSE {<<"c_addiw", "CI">>})
      BY <1>4 DEF DecodeC_1
    <2> HIDE DEF f
    <2>2. FoundC(xl, f)
      BY <2>1 DEF FoundC, ListedC, Unknown
    <2> QED BY <2>2 DEF f
  <1> QED BY <1>1, <1>3, <1>4

LEMMA FoundC_2 ==
    ASSUME NEW xl \in {32, 64}, NEW insn \in Nat \X Nat
    PROVE  FoundC(xl, DecodeC_2(xl, insn))
  <1> DEFINE f == DecodeC_2(xl, insn)
  <1>1. Pick(insn, 13, 3) \in 0..7
    BY PickSmall
  <1>2. \/ f \in {Unknown, <<"c_slli", "CI">>, <<"c_fldsp", "CI_LoadSP8">>, <<"c_lwsp", "CI_LoadSP4">>,
                    <<"c_jr", "CR">>, <<"c_mv", "CR">>, <<"c_ebreak", "CR">>, <<"c_jalr", "CR">>,
                    <<"c_add", "CR">>, <<"c_fsdsp", "CSS8">>, <<"c_swsp", "CSS4">>}
        \/ xl = 32 /\ f \in {<<"c_flwsp", "CI_LoadSP4">>, <<"c_fswsp", "CSS4">>}
        \/ xl = 64 /\ f \in {<<"c_ldsp", "CI_LoadSP8">>, <<"c_sdsp", "CSS8">>}
    BY <1>1 DEF DecodeC_2
  <1> HIDE DEF f
  <1>3. FoundC(xl, f)
    BY <1>2 DEF FoundC, ListedC, Unknown
  <1> QED BY <1>3 DEF f

LEMMA FoundC_All ==
    ASSUME NEW xl \in {32, 64}, NEW insn \in Nat \X Nat, IsCompressedInstruction(insn)
    PROVE  FoundC(xl, DecodeC(xl, insn))
  <1>1. insn[1] % 4 \in {0, 1, 2}
    BY DEF IsCompressedInstruction
  <1>2. CASE insn[1] % 4 = 0
    BY <1>2, FoundC_0 DEF DecodeC
  <1>3. CASE insn[1] % 4 = 1
    BY <1>3, FoundC_1 DEF DecodeC
  <1>4. CASE insn[1] % 4 = 2
    BY <1>4, FoundC_2 DEF DecodeC
  <1> QED BY <1>1, <1>2, <1>3, <1>4

-----------------------------------------------------------------------------
(* Decoding: every code the decoder finds is listed.                       *)

Listed(xl, class, code, format) ==
    \/ class = "I" /\ ListedI(xl, code, format)
    \/ class = "M" /\ ListedM(xl, code, format)
    \/ class = "A" /\ ListedA(xl, code, format)
    \/ class = "F" /\ ListedF(xl, code, format)
    \/ class = "D" /\ ListedD(xl, code, format)
    \/ class = "C" /\ ListedC(xl, code, format)

LEMMA FpExtension ==
    ASSUME NEW insn, Extension(insn) \in {"F", "D"}
    PROVE  Opcode(insn) \in FpOpcodes
  BY DEF Extension, FpOpcodes

LEMMA DecodeListed ==
    ASSUME NEW xl \in {32, 64}, NEW insn \in Nat \X Nat, Decode(xl, insn).code # "unknown"
    PROVE  Listed(xl, Decode(xl, insn).class, Decode(xl, insn).code, Decode(xl, insn).format)
  <1> DEFINE class == Extension(insn)
             d == Decode(xl, insn)
  <1>1. class \in {"C", "M", "A", "F", "D", "I"} /\ (class = "C" => IsCompressedInstruction(insn))
    BY DEF Extension
  <1>2. d.class = class
    BY DEF Decode
  <1>3. CASE class = "I"
    <2>1. d.code = DecodeI(xl, insn)[1] /\ d.format = DecodeI(xl, insn)[2]
      BY <1>3 DEF Decode
    <2> QED BY <1>2, <1>3, <2>1, FoundI_All DEF FoundI, Listed
  <1>4. CASE class = "M"
    <2>1. d.code = DecodeM(xl, insn)[1] /\ d.format = DecodeM(xl, insn)[2]
      BY <1>4 DEF Decode
    <2> QED BY <1>2, <1>4, <2>1, FoundM_All DEF FoundM, Listed
  <1>5. CASE class = "A"
    <2>1. d.code = DecodeA(xl, insn)[1] /\ d.format = DecodeA(xl, insn)[2]
      BY <1>5 DEF Decode
    <2> QED BY <1>2, <1>5, <2>1, FoundA_All DEF FoundA, Listed
  <1>6. CASE class = "F"
    <2>1. d.code = DecodeF(xl, insn)[1] /\ d.format = DecodeF(xl, insn)[2]
      BY <1>6 DEF Decode
    <2>2. FoundF(xl, DecodeF(xl, insn))
      BY <1>6, FpExtension, FoundF_All
    <2> QED BY <1>2, <1>6, <2>1, <2>2 DEF FoundF, Listed
  <1>7. CASE class = "D"
    <2>1. d.code = DecodeD(insn)[1] /\ d.format = DecodeD(insn)[2]
      BY <1>7 DEF Decode
    <2>2. FoundD(xl, DecodeD(insn))
      BY <1>7, FpExtension, FoundD_All
    <2> QED BY <1>2, <1>7, <2>1, <2>2 DEF FoundD, Listed
  <1>8. CASE class = "C"
    <2>1. d.code = DecodeC(xl, insn)[1] /\ d.format = DecodeC(xl, insn)[2]
      BY <1>8 DEF Decode
    <2>2. FoundC(xl, DecodeC(xl, insn))
      BY <1>1, <1>8, FoundC_All
    <2> QED BY <1>2, <1>8, <2>1, <2>2 DEF FoundC, Listed
  <1> QED BY <1>1, <1>3, <1>4, <1>5, <1>6, <1>7, <1>8

-----------------------------------------------------------------------------
(* The switches.                                                           *)

\* The handler a switch finds lists the code.
LEMMA HandlerLists ==
    ASSUME NEW table, NEW code
    PROVE  /\ Handler(table, code) # "Error" =>
                Handler(table, code) \in DOMAIN table /\ code \in table[Handler(table, code)]
           /\ \A h \in DOMAIN table : code \in table[h] /\ h # "Error" =>
                \E g \in DOMAIN table : code \in table[g] /\ Handler(table, code) = g
  BY DEF Handler

LEMMA Alternatives ==
    /\ \A f \in {"U", "J", "I", "B", "S", "R", "R4", "Fence", "None", "Csr", "CsrImm",
                 "CIW", "CB", "CJ"} : Alternative(f) = f
    /\ \A f \in {"ShiftImm_32", "ShiftImm_64"} : Alternative(f) = "ShiftImm"
    /\ \A f \in {"CR", "CR_Alu"} : Alternative(f) = "CR"
    /\ \A f \in {"CI", "CI_AluImm", "CI_Shift", "CI_ADDI16SP", "CI_LUI", "CI_LoadSP4", "CI_LoadSP8"} :
          Alternative(f) = "CI"
    /\ \A f \in {"CSS4", "CSS8"} : Alternative(f) = "CSS"
    /\ \A f \in {"CL4", "CL8"} : Alternative(f) = "CL"
    /\ \A f \in {"CS4", "CS8"} : Alternative(f) = "CS"
  BY DEF Alternative, LayoutCI

\* The switches line by line: handler h lists code.
HandlesI(xl, h, code) ==
    \/ h = "Lui" /\ code = "lui"
    \/ h = "Auipc" /\ code = "auipc"
    \/ h = "Jal" /\ code = "jal"
    \/ h = "Jalr" /\ code = "jalr"
    \/ h = "Branch" /\ code \in {"beq", "bne", "blt", "bge", "bltu", "bgeu"}
    \/ h = "Load" /\ (code \in {"lb", "lh", "lw", "lbu", "lhu"} \/ (xl = 64 /\ code \in {"ld", "lwu"}))
    \/ h = "Store" /\ (code \in {"sb", "sh", "sw"} \/ (xl = 64 /\ code = "sd"))
    \/ h = "AluImm" /\ (code \in {"addi", "slti", "sltiu", "xori", "ori", "andi"} \/ (xl = 64 /\ code = "addiw"))
    \/ h = "Shift" /\ (code \in {"sll", "srl", "sra"} \/ (xl = 64 /\ code \in {"sllw", "srlw", "sraw"}))
    \/ h = "ShiftImm" /\ (code \in {"slli", "srli", "srai"} \/ (xl = 64 /\ code \in {"slliw", "srliw", "sraiw"}))
    \/ h = "Alu" /\ (code \in {"add", "sub", "slt", "sltu", "xor_", "or_", "and_"}
                     \/ (xl = 64 /\ code \in {"addw", "subw"}))
    \/ h = "Priv" /\ code \in {"ecall", "ebreak", "mret", "sret", "uret", "wfi"}
    \/ h = "Fence" /\ code \in {"fence", "fence_i", "sfence_vma"}
    \/ h = "Csr" /\ code \in {"csrrw", "csrrs", "csrrc"}
    \/ h = "CsrImm" /\ code \in {"csrrwi", "csrrsi", "csrrci"}

HandlesM(xl, h, code) == h = "MulDiv" /\ ListedM(xl, code, "R")

HandlesA(xl, h, code) ==
    \/ h = "LoadReserved" /\ (code = "lr_w" \/ (xl = 64 /\ code = "lr_d"))
    \/ h = "StoreConditional" /\ (code = "sc_w" \/ (xl = 64 /\ code = "sc_d"))
    \/ h = "Atomic" /\ (code \in AtomicWords \/ (xl = 64 /\ code \in AtomicDoubles))

HandlesFp(table, size, h, code) ==
    \/ h = "F_Load" /\ code = size[1]
    \/ h = "F_Store" /\ code = size[2]
    \/ h = "MulAdd" /\ code \in table.MulAdd
    \/ h = "F_Compute" /\ code \in table.F_Compute

HandlesC(xl, h, code) ==
    \/ h = "C_Nop" /\ code = "c_nop"
    \/ h = "C_Alu" /\ (code \in {"c_mv", "c_add", "c_sub", "c_and", "c_or", "c_xor"}
                       \/ (xl = 64 /\ code \in {"c_addw", "c_subw"}))
    \/ h = "C_AluImm" /\ (code \in {"c_li", "c_lui", "c_addi", "c_andi", "c_srli", "c_srai", "c_slli"}
                          \/ (xl = 64 /\ code = "c_addiw"))
    \/ h = "C_Branch" /\ code \in {"c_beqz", "c_bnez"}
    \/ h = "C_ADDI4SPN" /\ code = "c_addi4spn"
    \/ h = "C_ADDI16SP" /\ code = "c_addi16sp"
    \/ h = "C_Load" /\ code \in {"c_fld", "c_lw", IF xl = 64 THEN "c_ld" ELSE "c_flw"}
    \/ h = "C_LoadSP" /\ code \in {"c_fldsp", "c_lwsp", IF xl = 64 THEN "c_ldsp" ELSE "c_flwsp"}
    \/ h = "C_Store" /\ code \in {"c_fsd", "c_sw", IF xl = 64 THEN "c_sd" ELSE "c_fsw"}
    \/ h = "C_StoreSP" /\ code \in {"c_fsdsp", "c_swsp", IF xl = 64 THEN "c_sdsp" ELSE "c_fswsp"}
    \/ h = "C_J" /\ (code = "c_j" \/ (xl = 32 /\ code = "c_jal"))
    \/ h = "C_JR" /\ code \in {"c_jr", "c_jalr"}

Handles(xl, class, h, code) ==
    \/ class = "I" /\ HandlesI(xl, h, code)
    \/ class = "M" /\ HandlesM(xl, h, code)
    \/ class = "A" /\ HandlesA(xl, h, code)
    \/ class = "F" /\ HandlesFp(ProcessRVF, <<"flw", "fsw">>, h, code)
    \/ class = "D" /\ HandlesFp(ProcessRVD, <<"fld", "fsd">>, h, code)
    \/ class = "C" /\ HandlesC(xl, h, code)

HandlersI == {"Lui", "Auipc", "Jal", "Jalr", "Branch", "Load", "Store", "AluImm", "Shift", "ShiftImm",
              "Alu", "Priv", "Fence", "Csr", "CsrImm"}
HandlersC == {"C_Nop", "C_Alu", "C_AluImm", "C_Branch", "C_ADDI4SPN", "C_ADDI16SP",
              "C_Load", "C_LoadSP", "C_Store", "C_StoreSP", "C_J", "C_JR"}

LEMMA SwitchI32 ==
    ASSUME NEW h, NEW code
    PROVE  /\ DOMAIN ProcessRV32I = HandlersI
           /\ h \in HandlersI /\ code \in ProcessRV32I[h] <=> HandlesI(32, h, code)
  BY DEF ProcessRV32I, HandlersI, HandlesI

LEMMA SwitchI64 ==
    ASSUME NEW h, NEW code
    PROVE  /\ DOMAIN ProcessRV64I = HandlersI
           /\ h \in HandlersI /\ code \in ProcessRV64I[h] <=> HandlesI(64, h, code)
  <1> DEFINE f == ProcessRV32I
  <1>1. DOMAIN f = HandlersI
    BY SwitchI32
  <1>2. ProcessRV64I =
          [f EXCEPT !.Load = @ \cup {"ld", "lwu"},
                    !.Store = @ \cup {"sd"},
                    !.AluImm = @ \cup {"addiw"},
                    !.Shift = @ \cup {"sllw", "srlw", "sraw"},
                    !.ShiftImm = @ \cup {"slliw", "srliw", "sraiw"},
                    !.Alu = @ \cup {"addw", "subw"}]
    BY DEF ProcessRV64I
  <1> HIDE DEF f
  <1>3. {"Load", "Store", "AluImm", "Shift", "ShiftImm", "Alu"} \subseteq HandlersI
    BY DEF HandlersI
  <1>4. DOMAIN ProcessRV64I = HandlersI
    BY <1>1, <1>2
  <1>5. h \in HandlersI /\ code \in f[h] <=> HandlesI(32, h, code)
    BY SwitchI32 DEF f
  <1>6. CASE h \notin {"Load", "Store", "AluImm", "Shift", "ShiftImm", "Alu"}
    <2>1. h \in HandlersI => ProcessRV64I[h] = f[h]
      BY <1>1, <1>2, <1>3, <1>6
    <2>2. HandlesI(64, h, code) <=> HandlesI(32, h, code)
      BY <1>6 DEF HandlesI
    <2> QED BY <1>4, <1>5, <2>1, <2>2
  <1>7. CASE h \in {"Load", "Store", "AluImm", "Shift", "ShiftImm", "Alu"}
    <2>1. h \in HandlersI
      BY <1>3, <1>7
    <2>2. CASE h = "Load"
      <3>1. ProcessRV64I[h] = f[h] \cup {"ld", "lwu"}
        BY <1>1, <1>2, <1>3, <2>2
      <3> QED BY <1>4, <1>5, <2>1, <2>2, <3>1 DEF HandlesI
    <2>3. CASE h = "Store"
      <3>1. ProcessRV64I[h] = f[h] \cup {"sd"}
        BY <1>1, <1>2, <1>3, <2>3
      <3> QED BY <1>4, <1>5, <2>1, <2>3, <3>1 DEF HandlesI
    <2>4. CASE h = "AluImm"
      <3>1. ProcessRV64I[h] = f[h] \cup {"addiw"}
        BY <1>1, <1>2, <1>3, <2>4
      <3> QED BY <1>4, <1>5, <2>1, <2>4, <3>1 DEF HandlesI
    <2>5. CASE h = "Shift"
      <3>1. ProcessRV64I[h] = f[h] \cup {"sllw", "srlw", "sraw"}
        BY <1>1, <1>2, <1>3, <2>5
      <3> QED BY <1>4, <1>5, <2>1, <2>5, <3>1 DEF HandlesI
    <2>6. CASE h = "ShiftImm"
      <3>1. ProcessRV64I[h] = f[h] \cup {"slliw", "srliw", "sraiw"}
        BY <1>1, <1>2, <1>3, <2>6
      <3> QED BY <1>4, <1>5, <2>1, <2>6, <3>1 DEF HandlesI
    <2>7. CASE h = "Alu"
      <3>1. ProcessRV64I[h] = f[h] \cup {"addw", "subw"}
        BY <1>1, <1>2, <1>3, <2>7
      <3> QED BY <1>4, <1>5, <2>1, <2>7, <3>1 DEF HandlesI
    <2> QED BY <1>7, <2>2, <2>3, <2>4, <2>5, <2>6, <2>7
  <1> QED BY <1>6, <1>7

LEMMA SwitchM ==
    ASSUME NEW h, NEW code
    PROVE  /\ DOMAIN ProcessRV32M = {"MulDiv"} /\ DOMAIN ProcessRV64M = {"MulDiv"}
           /\ h \in {"MulDiv"} /\ code \in ProcessRV32M[h] <=> HandlesM(32, h, code)
           /\ h \in {"MulDiv"} /\ code \in ProcessRV64M[h] <=> HandlesM(64, h, code)
  BY DEF ProcessRV32M, ProcessRV64M, HandlesM, ListedM

LEMMA AmoCodes ==
    /\ {WordCode[amo] : amo \in Amos} = AtomicWords
    /\ {DoubleCode[amo] : amo \in Amos} = AtomicDoubles
    /\ {code[amo] : amo \in Amos, code \in {WordCode, DoubleCode}} = AtomicWords \cup AtomicDoubles
  <1>1. {WordCode[amo] : amo \in Amos} = AtomicWords
    BY DEF Amos, WordCode, AtomicWords
  <1>2. {DoubleCode[amo] : amo \in Amos} = AtomicDoubles
    BY DEF Amos, DoubleCode, AtomicDoubles
  <1>3. {code[amo] : amo \in Amos, code \in {WordCode, DoubleCode}}
          = {WordCode[amo] : amo \in Amos} \cup {DoubleCode[amo] : amo \in Amos}
    OBVIOUS
  <1> QED BY <1>1, <1>2, <1>3

LEMMA SwitchA ==
    ASSUME NEW h, NEW code
    PROVE  LET names == {"LoadReserved", "StoreConditional", "Atomic"}
           IN  /\ DOMAIN ProcessRV32A = names /\ DOMAIN ProcessRV64A = names
               /\ h \in names /\ code \in ProcessRV32A[h] <=> HandlesA(32, h, code)
               /\ h \in names /\ code \in ProcessRV64A[h] <=> HandlesA(64, h, code)
  <1>1. ProcessRV32A = [LoadReserved |-> {"lr_w"}, StoreConditional |-> {"sc_w"}, Atomic |-> AtomicWords]
    BY AmoCodes DEF ProcessRV32A
  <1>2. ProcessRV64A = [LoadReserved |-> {"lr_w", "lr_d"}, StoreConditional |-> {"sc_w", "sc_d"},
                        Atomic |-> AtomicWords \cup AtomicDoubles]
    <2> DEFINE all == {code_[amo] : amo \in Amos, code_ \in {WordCode, DoubleCode}}
    <2>1. ProcessRV64A = [LoadReserved |-> {"lr_w", "lr_d"}, StoreConditional |-> {"sc_w", "sc_d"},
                          Atomic |-> all]
      BY DEF ProcessRV64A
    <2>2. all = AtomicWords \cup AtomicDoubles
      BY AmoCodes
    <2> HIDE DEF all
    <2> QED BY <2>1, <2>2
  <1> QED BY <1>1, <1>2 DEF HandlesA

LEMMA SwitchFp ==
    ASSUME NEW h, NEW code
    PROVE  LET names == {"F_Load", "F_Store", "MulAdd", "F_Compute"}
           IN  /\ DOMAIN ProcessRVF = names /\ DOMAIN ProcessRVD = names
               /\ h \in names /\ code \in ProcessRVF[h] <=> HandlesFp(ProcessRVF, <<"flw", "fsw">>, h, code)
               /\ h \in names /\ code \in ProcessRVD[h] <=> HandlesFp(ProcessRVD, <<"fld", "fsd">>, h, code)
  <1>1. /\ DOMAIN ProcessRVF = {"F_Load", "F_Store", "MulAdd", "F_Compute"}
        /\ ProcessRVF.F_Load = {"flw"} /\ ProcessRVF.F_Store = {"fsw"}
    BY DEF ProcessRVF
  <1>2. /\ DOMAIN ProcessRVD = {"F_Load", "F_Store", "MulAdd", "F_Compute"}
        /\ ProcessRVD.F_Load = {"fld"} /\ ProcessRVD.F_Store = {"fsd"}
    BY DEF ProcessRVD
  <1> QED BY <1>1, <1>2 DEF HandlesFp

LEMMA SwitchC32 ==
    ASSUME NEW h, NEW code
    PROVE  /\ DOMAIN ProcessRV32C = HandlersC
           /\ h \in HandlersC /\ code \in ProcessRV32C[h] <=> HandlesC(32, h, code)
  BY DEF ProcessRV32C, HandlersC, HandlesC

LEMMA SwitchC64 ==
    ASSUME NEW h, NEW code
    PROVE  /\ DOMAIN ProcessRV64C = HandlersC
           /\ h \in HandlersC /\ code \in ProcessRV64C[h] <=> HandlesC(64, h, code)
  <1> DEFINE f == ProcessRV32C
             changed == {"C_Alu", "C_AluImm", "C_Load", "C_LoadSP", "C_Store", "C_StoreSP", "C_J"}
  <1>1. DOMAIN f = HandlersC
    BY SwitchC32
  <1>2. ProcessRV64C =
          [f EXCEPT !.C_Alu = @ \cup {"c_addw", "c_subw"},
                    !.C_AluImm = @ \cup {"c_addiw"},
                    !.C_Load = {"c_fld", "c_ld", "c_lw"}, !.C_LoadSP = {"c_fldsp", "c_ldsp", "c_lwsp"},
                    !.C_Store = {"c_fsd", "c_sd", "c_sw"}, !.C_StoreSP = {"c_fsdsp", "c_sdsp", "c_swsp"},
                    !.C_J = {"c_j"}]
    BY DEF ProcessRV64C
  <1> HIDE DEF f
  <1>3. changed \subseteq HandlersC
    BY DEF HandlersC
  <1>4. DOMAIN ProcessRV64C = HandlersC
    BY <1>1, <1>2
  <1>5. h \in HandlersC /\ code \in f[h] <=> HandlesC(32, h, code)
    BY SwitchC32 DEF f
  <1>6. CASE h \notin changed
    <2>1. h \in HandlersC => ProcessRV64C[h] = f[h]
      BY <1>1, <1>2, <1>3, <1>6
    <2>2. HandlesC(64, h, code) <=> HandlesC(32, h, code)
      BY <1>6 DEF HandlesC
    <2> QED BY <1>4, <1>5, <2>1, <2>2
  <1>7. CASE h \in changed
    <2>1. h \in HandlersC
      BY <1>3, <1>7
    <2>2. CASE h = "C_Alu"
      <3>1. ProcessRV64C[h] = f[h] \cup {"c_addw", "c_subw"}
        BY <1>1, <1>2, <1>3, <2>2
      <3> QED BY <1>4, <1>5, <2>1, <2>2, <3>1 DEF HandlesC
    <2>3. CASE h = "C_AluImm"
      <3>1. ProcessRV64C[h] = f[h] \cup {"c_addiw"}
        BY <1>1, <1>2, <1>3, <2>3
      <3> QED BY <1>4, <1>5, <2>1, <2>3, <3>1 DEF HandlesC
    <2>4. CASE h = "C_Load"
      <3>1. ProcessRV64C[h] = {"c_fld", "c_ld", "c_lw"}
        BY <1>1, <1>2, <1>3, <2>4
      <3> QED BY <1>4, <2>1, <2>4, <3>1 DEF HandlesC
    <2>5. CASE h = "C_LoadSP"
      <3>1. ProcessRV64C[h] = {"c_fldsp", "c_ldsp", "c_lwsp"}
        BY <1>1, <1>2, <1>3, <2>5
      <3> QED BY <1>4, <2>1, <2>5, <3>1 DEF HandlesC
    <2>6. CASE h = "C_Store"
      <3>1. ProcessRV64C[h] = {"c_fsd", "c_sd", "c_sw"}
        BY <1>1, <1>2, <1>3, <2>6
      <3> QED BY <1>4, <2>1, <2>6, <3>1 DEF HandlesC
    <2>7. CASE h = "C_StoreSP"
      <3>1. ProcessRV64C[h] = {"c_fsdsp", "c_sdsp", "c_swsp"}
        BY <1>1, <1>2, <1>3, <2>7
      <3> QED BY <1>4, <2>1, <2>7, <3>1 DEF HandlesC
    <2>8. CASE h = "C_J"
      <3>1. ProcessRV64C[h] = {"c_j"}
        BY <1>1, <1>2, <1>3, <2>8
      <3> QED BY <1>4, <2>1, <2>8, <3>1 DEF HandlesC
    <2> QED BY <1>7, <2>2, <2>3, <2>4, <2>5, <2>6, <2>7, <2>8
  <1> QED BY <1>6, <1>7

\* The handler of the executor's switch is the one that lists the code.
LEMMA HandlerHandles ==
    ASSUME xlen \in {32, 64}, NEW class \in {"I", "M", "A", "F", "D", "C"}, NEW code
    PROVE  LET h == Handler(ProcessOp(class), code)
           IN  /\ h = "Error" \/ Handles(xlen, class, h, code)
               /\ (\E g : Handles(xlen, class, g, code)) => h # "Error"
  <1> DEFINE table == ProcessOp(class)
             h == Handler(table, code)
  <1>1. \A g : g \in DOMAIN table /\ code \in table[g] <=> Handles(xlen, class, g, code)
    <2> SUFFICES ASSUME NEW g
                 PROVE  g \in DOMAIN table /\ code \in table[g] <=> Handles(xlen, class, g, code)
      OBVIOUS
    <2>1. CASE class = "I"
      BY <2>1, SwitchI32, SwitchI64 DEF ProcessOp, Handles
    <2>2. CASE class = "M"
      BY <2>2, SwitchM DEF ProcessOp, Handles
    <2>3. CASE class = "A"
      BY <2>3, SwitchA DEF ProcessOp, Handles
    <2>4. CASE class = "F"
      BY <2>4, SwitchFp DEF ProcessOp, Handles
    <2>5. CASE class = "D"
      BY <2>5, SwitchFp DEF ProcessOp, Handles
    <2>6. CASE class = "C"
      BY <2>6, SwitchC32, SwitchC64 DEF ProcessOp, Handles
    <2> QED BY <2>1, <2>2, <2>3, <2>4, <2>5, <2>6
  <1>2. \A g : Handles(xlen, class, g, code) => g # "Error"
    BY DEF Handles, HandlesI, HandlesM, HandlesA, HandlesFp, HandlesC
  <1> HIDE DEF table
  <1>3. h # "Error" => h \in DOMAIN table /\ code \in table[h]
    BY HandlerLists
  <1>4. ASSUME NEW g \in DOMAIN table, code \in table[g], g # "Error"
        PROVE  h \in DOMAIN table /\ code \in table[h]
    BY <1>4, HandlerLists
  <1> HIDE DEF h
  <1>5. /\ h = "Error" \/ Handles(xlen, class, h, code)
        /\ (\E g : Handles(xlen, class, g, code)) => h # "Error"
    BY <1>1, <1>2, <1>3, <1>4
  <1> QED BY <1>5 DEF h, table

\* The trap checks line by line.
TriesWide(h, code) ==
    \/ h = "Load" /\ code \in {"lb", "lh", "lw", "lbu", "lhu", "lwu", "ld", "flw", "fld"}
    \/ h = "Store" /\ code \in {"sb", "sh", "sw", "sd", "fsw", "fsd"}
    \/ h = "LoadReserved" /\ code \in {"lr_d", "lr_w"}
    \/ h = "StoreConditional" /\ code \in {"sc_d", "sc_w"}
    \/ h = "Atomic" /\ code \in AtomicWords \cup AtomicDoubles

TriesC(xl, h, code) ==
    \/ h = "C_Load" /\ code \in {"c_fld", "c_lw", IF xl = 64 THEN "c_ld" ELSE "c_flw"}
    \/ h = "C_LoadSP" /\ code \in {"c_fldsp", "c_lwsp", IF xl = 64 THEN "c_ldsp" ELSE "c_flwsp"}
    \/ h = "C_Store" /\ code \in {"c_fsd", "c_sw", IF xl = 64 THEN "c_sd" ELSE "c_fsw"}
    \/ h = "C_StoreSP" /\ code \in {"c_fsdsp", "c_swsp", IF xl = 64 THEN "c_sdsp" ELSE "c_fswsp"}

Tries(xl, class, h, code) == IF class = "C" THEN TriesC(xl, h, code) ELSE TriesWide(h, code)

LEMMA ChecksWide ==
    ASSUME NEW h, NEW code
    PROVE  h \in DOMAIN PreCheckTrapWide /\ code \in PreCheckTrapWide[h] <=> TriesWide(h, code)
  <1> DEFINE all == {code_[amo] : amo \in Amos, code_ \in {WordCode, DoubleCode}}
  <1>1. PreCheckTrapWide =
          [Load |-> {"lb", "lh", "lw", "lbu", "lhu", "lwu", "ld", "flw", "fld"},
           Store |-> {"sb", "sh", "sw", "sd", "fsw", "fsd"},
           LoadReserved |-> {"lr_d", "lr_w"}, StoreConditional |-> {"sc_d", "sc_w"},
           Atomic |-> all]
    BY DEF PreCheckTrapWide
  <1>2. all = AtomicWords \cup AtomicDoubles
    BY AmoCodes
  <1> HIDE DEF all
  <1> QED BY <1>1, <1>2 DEF TriesWide

LEMMA ChecksC ==
    ASSUME NEW h, NEW code
    PROVE  /\ h \in DOMAIN PreCheckTrapRV32C /\ code \in PreCheckTrapRV32C[h] <=> TriesC(32, h, code)
           /\ h \in DOMAIN PreCheckTrapRV64C /\ code \in PreCheckTrapRV64C[h] <=> TriesC(64, h, code)
  BY DEF PreCheckTrapRV32C, PreCheckTrapRV64C, TriesC

\* The check of an operation is the one that lists the code.
LEMMA HandlerTries ==
    ASSUME xlen \in {32, 64}, NEW class, NEW code
    PROVE  LET h == Handler(PreCheckTable(class), code)
           IN  /\ h = "Error" \/ Tries(xlen, class, h, code)
               /\ (\E g : Tries(xlen, class, g, code)) => h # "Error"
  <1> DEFINE table == PreCheckTable(class)
             h == Handler(table, code)
  <1>1. \A g : g \in DOMAIN table /\ code \in table[g] <=> Tries(xlen, class, g, code)
    BY ChecksWide, ChecksC DEF PreCheckTable, Tries
  <1>2. \A g : Tries(xlen, class, g, code) => g # "Error"
    BY DEF Tries, TriesWide, TriesC
  <1> HIDE DEF table
  <1>3. h # "Error" => h \in DOMAIN table /\ code \in table[h]
    BY HandlerLists
  <1>4. ASSUME NEW g \in DOMAIN table, code \in table[g], g # "Error"
        PROVE  h \in DOMAIN table /\ code \in table[h]
    BY <1>4, HandlerLists
  <1> HIDE DEF h
  <1>5. /\ h = "Error" \/ Tries(xlen, class, h, code)
        /\ (\E g : Tries(xlen, class, g, code)) => h # "Error"
    BY <1>1, <1>2, <1>3, <1>4
  <1> QED BY <1>5 DEF h, table

-----------------------------------------------------------------------------
(* The decoder and the switches agree.                                     *)

\* The handler that lists a code takes the alternative the decoder fills.
LEMMA HandlerTakes ==
    ASSUME NEW xl \in {32, 64}, NEW class, NEW code, NEW format, Listed(xl, class, code, format),
           NEW h, Handles(xl, class, h, code), h \in DOMAIN Takes
    PROVE  Takes[h] = Alternative(format)
  <1>1. CASE class = "I"
    BY <1>1, Alternatives DEF Listed, Handles, ListedI, HandlesI, Takes
  <1>2. CASE class = "M"
    BY <1>2, Alternatives DEF Listed, Handles, ListedM, HandlesM, Takes
  <1>3. CASE class = "A"
    BY <1>3, Alternatives DEF Listed, Handles, ListedA, HandlesA, Takes
  <1>4. CASE class \in {"F", "D"}
    BY <1>4, Alternatives DEF Listed, Handles, ListedF, ListedD, HandlesFp, Takes, ProcessRVF, ProcessRVD
  <1>5. CASE class = "C"
    BY <1>5, Alternatives DEF Listed, Handles, ListedC, HandlesC, Takes
  <1> QED BY <1>1, <1>2, <1>3, <1>4, <1>5 DEF Listed

LEMMA CheckTakes ==
    ASSUME NEW xl \in {32, 64}, NEW class, NEW code, NEW format, Listed(xl, class, code, format),
           NEW h, Tries(xl, class, h, code)
    PROVE  Takes[h] = Alternative(format)
  <1>1. CASE class = "I"
    <2>1. /\ h = "Load" => format = "I"
          /\ h = "Store" => format = "S"
          /\ h \in {"Load", "Store"}
      BY <1>1 DEF Listed, Tries, ListedI, TriesWide, AtomicWords, AtomicDoubles
    <2> QED BY <2>1, Alternatives DEF Takes
  <1>2. CASE class = "M"
    BY <1>2 DEF Listed, Tries, ListedM, TriesWide, AtomicWords, AtomicDoubles
  <1>3. CASE class = "A"
    <2>1. format = "R" /\ h \in {"LoadReserved", "StoreConditional", "Atomic"}
      BY <1>3 DEF Listed, Tries, ListedA, TriesWide, AtomicWords, AtomicDoubles
    <2> QED BY <2>1, Alternatives DEF Takes
  <1>4. CASE class = "F"
    <2>1. /\ h = "Load" => format = "I"
          /\ h = "Store" => format = "S"
          /\ h \in {"Load", "Store"}
      BY <1>4 DEF Listed, Tries, ListedF, TriesWide, ProcessRVF, AtomicWords, AtomicDoubles
    <2> QED BY <2>1, Alternatives DEF Takes
  <1>5. CASE class = "D"
    <2>1. /\ h = "Load" => format = "I"
          /\ h = "Store" => format = "S"
          /\ h \in {"Load", "Store"}
      BY <1>5 DEF Listed, Tries, ListedD, TriesWide, ProcessRVD, AtomicWords, AtomicDoubles
    <2> QED BY <2>1, Alternatives DEF Takes
  <1>6. CASE class = "C"
    <2>1. h \in {"C_Load", "C_LoadSP", "C_Store", "C_StoreSP"}
      BY <1>6 DEF Tries, TriesC
    <2>2. CASE h = "C_Load"
      <3>1. format \in {"CL4", "CL8"}
        BY <1>6, <2>2 DEF Listed, Tries, ListedC, TriesC
      <3> QED BY <2>2, <3>1, Alternatives DEF Takes
    <2>3. CASE h = "C_LoadSP"
      <3>1. format \in {"CI_LoadSP4", "CI_LoadSP8"}
        BY <1>6, <2>3 DEF Listed, Tries, ListedC, TriesC
      <3> QED BY <2>3, <3>1, Alternatives DEF Takes
    <2>4. CASE h = "C_Store"
      <3>1. format \in {"CS4", "CS8"}
        BY <1>6, <2>4 DEF Listed, Tries, ListedC, TriesC
      <3> QED BY <2>4, <3>1, Alternatives DEF Takes
    <2>5. CASE h = "C_StoreSP"
      <3>1. format \in {"CSS4", "CSS8"}
        BY <1>6, <2>5 DEF Listed, Tries, ListedC, TriesC
      <3> QED BY <2>5, <3>1, Alternatives DEF Takes
    <2> QED BY <2>1, <2>2, <2>3, <2>4, <2>5
  <1> QED BY <1>1, <1>2, <1>3, <1>4, <1>5, <1>6 DEF Listed

\* Every listed code has a handler, but for three.
LEMMA ListedHandled ==
    ASSUME NEW xl \in {32, 64}, NEW class, NEW code, NEW format, Listed(xl, class, code, format)
    PROVE  \/ \E h : Handles(xl, class, h, code)
           \/ code = "c_ebreak"
           \/ xl = 32 /\ code \in {"c_addw", "c_subw"}
  <1>1. CASE class = "I"
    <2>1. \E h \in HandlersI : HandlesI(xl, h, code)
      BY <1>1 DEF Listed, ListedI, HandlesI, HandlersI
    <2> QED BY <1>1, <2>1 DEF Handles
  <1>2. CASE class = "M"
    <2>1. HandlesM(xl, "MulDiv", code)
      BY <1>2 DEF Listed, ListedM, HandlesM
    <2> QED BY <1>2, <2>1 DEF Handles
  <1>3. CASE class = "A"
    <2>1. \E h \in {"LoadReserved", "StoreConditional", "Atomic"} : HandlesA(xl, h, code)
      BY <1>3 DEF Listed, ListedA, HandlesA
    <2> QED BY <1>3, <2>1 DEF Handles
  <1>4. CASE class = "F"
    <2>1. \E h \in {"F_Load", "F_Store", "MulAdd", "F_Compute"} :
             HandlesFp(ProcessRVF, <<"flw", "fsw">>, h, code)
      BY <1>4 DEF Listed, ListedF, HandlesFp
    <2> QED BY <1>4, <2>1 DEF Handles
  <1>5. CASE class = "D"
    <2>1. \E h \in {"F_Load", "F_Store", "MulAdd", "F_Compute"} :
             HandlesFp(ProcessRVD, <<"fld", "fsd">>, h, code)
      BY <1>5 DEF Listed, ListedD, HandlesFp
    <2> QED BY <1>5, <2>1 DEF Handles
  <1>6. CASE class = "C"
    <2>1. \/ \E h \in HandlersC : HandlesC(xl, h, code)
          \/ code = "c_ebreak"
          \/ xl = 32 /\ code \in {"c_addw", "c_subw"}
      BY <1>6 DEF Listed, ListedC, HandlesC, HandlersC
    <2> QED BY <1>6, <2>1 DEF Handles
  <1> QED BY <1>1, <1>2, <1>3, <1>4, <1>5, <1>6 DEF Listed

-----------------------------------------------------------------------------
(* The width of the hart stays, and with it what the handlers compute.     *)

LEMMA BitsStay ==
    ASSUME xlen' = xlen
    PROVE  Bits' = Bits
  BY DEF Bits

LEMMA AluStays ==
    ASSUME xlen' = xlen, NEW code, NEW a, NEW b
    PROVE  /\ Alu(code, a, b)' = Alu(code, a, b)
           /\ AluImm(code, a, b)' = AluImm(code, a, b)
           /\ Shift(code, a, b)' = Shift(code, a, b)
           /\ ShiftImm(code, a, b)' = ShiftImm(code, a, b)
           /\ Mul(code, a, b)' = Mul(code, a, b)
           /\ Div(code, a, b)' = Div(code, a, b)
           /\ C_Alu(code, a, b)' = C_Alu(code, a, b)
           /\ C_AluImm(code, a, b)' = C_AluImm(code, a, b)
           /\ Taken(code, a, b)' = Taken(code, a, b)
  BY BitsStay DEF Alu, AluImm, Shift, ShiftImm, Mul, Div, C_Alu, C_AluImm, Taken, Integer, Unsigned

LEMMA ResultStays ==
    ASSUME xlen' = xlen, NEW o, NEW i, NEW r, NEW v
    PROVE  /\ Result(r, i, v)' = Result(r, i, v)
           /\ Address(i)' = Address(i)
           /\ LoadValue(o.code, v)' = LoadValue(o.code, v)
           /\ Stepped(o, i)' = Stepped(o, i)
  BY BitsStay DEF Result, Address, Unsigned, LoadValue, Stepped

LEMMA HandlersStay ==
    ASSUME xlen' = xlen, NEW o, NEW i, NEW r
    PROVE  /\ Jump(o, i, r)' = Jump(o, i, r)
           /\ Branch(o, i, r)' = Branch(o, i, r)
           /\ Load(o, i, r)' = Load(o, i, r)
           /\ Store(o, i, r)' = Store(o, i, r)
           /\ FpLoad(o, i, r)' = FpLoad(o, i, r)
           /\ LoadReserved(o, i, r)' = LoadReserved(o, i, r)
           /\ StoreConditional(o, i, r)' = StoreConditional(o, i, r)
           /\ Atomic(o, i, r)' = Atomic(o, i, r)
           /\ C_Branch(o, i, r)' = C_Branch(o, i, r)
           /\ C_J(o, i, r)' = C_J(o, i, r)
           /\ C_JR(o, i, r)' = C_JR(o, i, r)
  <1>1. Jump(o, i, r)' = Jump(o, i, r)
    BY BitsStay DEF Jump, Integer
  <1>2. Branch(o, i, r)' = Branch(o, i, r)
    BY AluStays DEF Branch
  <1>3. Load(o, i, r)' = Load(o, i, r)
    BY BitsStay DEF Load, Result, Address, Unsigned, LoadValue
  <1>4. Store(o, i, r)' = Store(o, i, r)
    BY BitsStay DEF Store, Address, Unsigned
  <1>5. FpLoad(o, i, r)' = FpLoad(o, i, r)
    BY BitsStay DEF FpLoad, Address, Unsigned
  <1>6. LoadReserved(o, i, r)' = LoadReserved(o, i, r)
    BY BitsStay DEF LoadReserved, Result, Unsigned
  <1>7. StoreConditional(o, i, r)' = StoreConditional(o, i, r)
    BY BitsStay DEF StoreConditional, Result, Unsigned
  <1>8. Atomic(o, i, r)' = Atomic(o, i, r)
    BY BitsStay DEF Atomic, Result, Unsigned
  <1>9. C_Branch(o, i, r)' = C_Branch(o, i, r)
    BY BitsStay DEF C_Branch, Integer
  <1>10. C_J(o, i, r)' = C_J(o, i, r)
    BY BitsStay DEF C_J
  <1>11. C_JR(o, i, r)' = C_JR(o, i, r)
    BY BitsStay DEF C_JR, Unsigned
  <1> QED BY <1>1, <1>2, <1>3, <1>4, <1>5, <1>6, <1>7, <1>8, <1>9, <1>10, <1>11

LEMMA RunStays ==
    ASSUME xlen' = xlen, NEW o, NEW h, NEW i
    PROVE  Run(o, h, i)' = Run(o, h, i)
  BY BitsStay, AluStays, ResultStays, HandlersStay DEF Run, Unsigned, Result

LEMMA InputsStay ==
    ASSUME xlen' = xlen, NEW h, NEW code
    PROVE  Inputs(h, code)' = Inputs(h, code)
  BY BitsStay DEF Inputs, ImmediatesOf

LEMMA TablesStay ==
    ASSUME xlen' = xlen, NEW class
    PROVE  ProcessOp(class)' = ProcessOp(class) /\ PreCheckTable(class)' = PreCheckTable(class)
  BY DEF ProcessOp, PreCheckTable

-----------------------------------------------------------------------------
(* The invariant.                                                          *)

\* A handler has run: in is one of its inputs and out what it leaves.
RanAs(o, i, w) ==
    LET h == Handler(ProcessOp(o.class), o.code)
    IN  h # "Error" /\ i \in Inputs(h, o.code) /\ w = Run(o, h, i)

Ran == RanAs(op, in, out)

\* The decoded operation is in the decoder's lists; its handler is looked up in the
\* switches of the same width.
IInv ==
    /\ xlen \in {32, 64}
    /\ stage \in {"fetch", "decoded", "trapped", "checked", "executed", "exit"}
    /\ stage \in {"fetch", "decoded", "checked"} => out = NoOut
    /\ stage = "decoded" => Listed(xlen, op.class, op.code, op.format)
    /\ stage \in {"checked", "executed", "exit"} => \E f : Listed(xlen, op.class, op.code, f)
    /\ stage = "executed" => Ran /\ out.end # "SIGFPE"
    /\ stage = "exit" => \/ out = NoOut /\ Handler(ProcessOp(op.class), op.code) = "Error"
                         \/ Ran /\ out.end = "SIGFPE"

LEMMA RanAsStays ==
    ASSUME xlen' = xlen, NEW o, NEW i, NEW w
    PROVE  RanAs(o, i, w)' <=> RanAs(o, i, w)
  <1>1. ProcessOp(o.class)' = ProcessOp(o.class)
    BY TablesStay
  <1>2. PICK h : h = Handler(ProcessOp(o.class), o.code)
    OBVIOUS
  <1>3. h = Handler(ProcessOp(o.class), o.code)'
    BY <1>1, <1>2
  <1>4. RanAs(o, i, w) <=> h # "Error" /\ i \in Inputs(h, o.code) /\ w = Run(o, h, i)
    BY <1>2 DEF RanAs
  <1>5. RanAs(o, i, w)' <=> h # "Error" /\ i \in Inputs(h, o.code)' /\ w = Run(o, h, i)'
    BY <1>3 DEF RanAs
  <1> QED BY <1>4, <1>5, InputsStay, RunStays

LEMMA InitIInv == Init => IInv
  BY DEF Init, IInv

\* The words of the run are words of the machine.
LEMMA WordsAreWords ==
    /\ \A insn \in Halfwords : <<insn, 0>> \in Nat \X Nat
    /\ \A insn \in Wide : insn \in Nat \X Nat
  <1> DEFINE S == 0..(Power[16] - 1)
  <1>1. S \subseteq Nat
    OBVIOUS
  <1>2. Halfwords \subseteq S /\ Wide \subseteq S \X S
    BY WordsAssumption DEF WordsAssumption
  <1> HIDE DEF S
  <1>3. \A x \in S, y \in S : <<x, y>> \in Nat \X Nat /\ <<x, 0>> \in Nat \X Nat
    BY <1>1
  <1>4. \A insn \in Halfwords : <<insn, 0>> \in Nat \X Nat
    BY <1>2, <1>3
  <1>5. \A insn \in S \X S : insn \in Nat \X Nat
    BY <1>1
  <1> QED BY <1>2, <1>4, <1>5

LEMMA NextIInv == IInv /\ [Next]_vars => IInv'
  <1> SUFFICES ASSUME IInv, [Next]_vars PROVE IInv'
    OBVIOUS
  <1>1. CASE DecodeInsn
    <2>1. PICK insn \in Nat \X Nat : op' = Decode(xlen, insn)
      BY <1>1, WordsAreWords DEF DecodeInsn
    <2>2. op'.code # "unknown" => Listed(xlen, op'.class, op'.code, op'.format)
      BY <2>1, DecodeListed DEF IInv
    <2> QED BY <1>1, <2>2 DEF DecodeInsn, IInv
  <1>2. CASE PreCheck
    <2>1. \/ stage' = "trapped"
          \/ stage' = "checked" /\ op'.class = op.class /\ op'.code = op.code
      BY <1>2 DEF PreCheck
    <2>2. Listed(xlen, op.class, op.code, op.format) /\ xlen' = xlen /\ out' = out /\ out = NoOut
      BY <1>2 DEF PreCheck, IInv
    <2> QED BY <2>1, <2>2 DEF IInv
  <1>3. CASE Error
    BY <1>3 DEF Error, IInv, ProcessOp
  <1>4. CASE Execute
    <2> DEFINE h == Handler(ProcessOp(op.class), op.code)
    <2>1. h # "Error" /\ in' \in Inputs(h, op.code) /\ out' = Run(op, h, in')
      BY <1>4 DEF Execute
    <2>2. xlen' = xlen /\ op' = op /\ stage' \in {"exit", "executed"}
          /\ (stage' = "exit" <=> out'.end = "SIGFPE")
      BY <1>4 DEF Execute
    <2>3. Ran'
      <3>1. RanAs(op', in', out')
        BY <2>1, <2>2 DEF RanAs
      <3> QED BY <2>2, <3>1, RanAsStays DEF Ran
    <2> QED BY <1>4, <2>2, <2>3 DEF IInv, Execute
  <1>5. CASE PostCheck \/ Trapped
    BY <1>5 DEF PostCheck, Trapped, IInv
  <1>6. CASE UNCHANGED vars
    <2>1. xlen' = xlen /\ op' = op /\ in' = in /\ out' = out /\ stage' = stage
      BY <1>6 DEF vars
    <2>2. Ran' <=> Ran
      BY <2>1, RanAsStays DEF Ran
    <2>3. Handler(ProcessOp(op.class), op.code)' = Handler(ProcessOp(op.class), op.code)
      BY <2>1, TablesStay
    <2> QED BY <2>1, <2>2, <2>3 DEF IInv
  <1> QED BY <1>1, <1>2, <1>3, <1>4, <1>5, <1>6 DEF Next

-----------------------------------------------------------------------------
(* Decoder, trap checks and handlers list the same operations.             *)

LEMMA HandledInv == IInv => EveryOpIsHandled
  <1> SUFFICES ASSUME IInv PROVE EveryOpIsHandled
    OBVIOUS
  <1>1. OperandsMatch
    <2> SUFFICES ASSUME stage = "decoded",
                        NEW h \in {Handler(ProcessOp(op.class), op.code),
                                   Handler(PreCheckTable(op.class), op.code)},
                        h \in DOMAIN Takes
                 PROVE  Takes[h] = Alternative(op.format)
      BY DEF OperandsMatch
    <2>1. xlen \in {32, 64} /\ Listed(xlen, op.class, op.code, op.format)
      BY DEF IInv
    <2>2. op.class \in {"I", "M", "A", "F", "D", "C"}
      BY <2>1 DEF Listed
    <2>3. h # "Error"
      BY DEF Takes
    <2>4. CASE h = Handler(ProcessOp(op.class), op.code)
      <3>1. Handles(xlen, op.class, h, op.code)
        BY <2>1, <2>2, <2>3, <2>4, HandlerHandles
      <3> QED BY <2>1, <3>1, HandlerTakes
    <2>5. CASE h = Handler(PreCheckTable(op.class), op.code)
      <3>1. Tries(xlen, op.class, h, op.code)
        BY <2>1, <2>3, <2>5, HandlerTries
      <3> QED BY <2>1, <3>1, CheckTakes
    <2> QED BY <2>4, <2>5
  <1>2. ASSUME stage = "exit", out = NoOut
        PROVE  op.code = "c_ebreak" \/ (xlen = 32 /\ op.code \in {"c_addw", "c_subw"})
    <2>1. xlen \in {32, 64} /\ \E f : Listed(xlen, op.class, op.code, f)
      BY <1>2 DEF IInv
    <2>2. op.class \in {"I", "M", "A", "F", "D", "C"}
      BY <2>1 DEF Listed
    <2>3. Handler(ProcessOp(op.class), op.code) = "Error"
      BY <1>2 DEF IInv, NoOut
    <2>4. ~ \E h : Handles(xlen, op.class, h, op.code)
      BY <2>1, <2>2, <2>3, HandlerHandles
    <2> QED BY <2>1, <2>4, ListedHandled
  <1> QED BY <1>1, <1>2 DEF EveryOpIsHandled

\* IInv holds in every reachable state: an executed operation is one that the decoder
\* and the switch list for the width of the hart, and out is what its handler makes of in.
THEOREM Inductive == Spec => []IInv
  BY InitIInv, NextIInv, PTL DEF Spec

\* The switches of Executor.cpp and the trap checks find for each word DecoderImpl.cpp
\* accepts a handler that takes the operand the decoder built, but for c.ebreak and,
\* on RV32, c.addw and c.subw.
THEOREM Handled == Spec => []EveryOpIsHandled
  BY Inductive, HandledInv, PTL

-----------------------------------------------------------------------------
(* Accesses and their checks.                                              *)

Loads  == {"Load", "C_Load", "C_LoadSP", "F_Load"}
Stores == {"Store", "C_Store", "C_StoreSP", "F_Store"}

LEMMA RunAccesses ==
    ASSUME NEW o, NEW h, NEW i, h \in {"Jal", "Jalr"} => o.code \in {"jal", "jalr"}
    PROVE  /\ h \in Loads => Run(o, h, i).accesses = {<<"Load", Address(i)>>}
           /\ h \in Stores => Run(o, h, i).accesses = {<<"Store", Address(i)>>}
           /\ h = "LoadReserved" => Run(o, h, i).accesses = {<<"Load", Unsigned(i.a)>>}
           /\ h = "StoreConditional" => Run(o, h, i).accesses \subseteq {<<"Store", Unsigned(i.a)>>}
           /\ h = "Atomic" => Run(o, h, i).accesses = {<<"Load", Unsigned(i.a)>>, <<"Store", Unsigned(i.a)>>}
           /\ h \notin Loads \cup Stores \cup {"LoadReserved", "StoreConditional", "Atomic"} =>
                 Run(o, h, i).accesses = {}
  <1> DEFINE r == Stepped(o, i)
  <1>1. r.accesses = {} /\ "accesses" \in DOMAIN r
    BY DEF Stepped
  <1>2. r = [value |-> r.value, link |-> r.link, pc |-> r.pc, mem |-> r.mem,
             accesses |-> {}, end |-> r.end]
    BY DEF Stepped
  <1> HIDE DEF r
  <1>3. \A v : Result(r, i, v).accesses = {} /\ "accesses" \in DOMAIN Result(r, i, v)
    BY <1>2 DEF Result
  <1>4. CASE h \in Loads
    <2>1. Run(o, h, i) = IF o.code \in FpMoves THEN FpLoad(o, i, r) ELSE Load(o, i, r)
      BY <1>4 DEF Run, Loads, r
    <2>2. FpLoad(o, i, r).accesses = {<<"Load", Address(i)>>}
      BY <1>1 DEF FpLoad
    <2>3. Load(o, i, r).accesses = {<<"Load", Address(i)>>}
      BY <1>3 DEF Load
    <2> QED BY <1>4, <2>1, <2>2, <2>3 DEF Loads, Stores
  <1>5. CASE h \in Stores
    <2>1. Run(o, h, i) = Store(o, i, r)
      BY <1>5 DEF Run, Stores, r
    <2> QED BY <1>2, <1>5, <2>1 DEF Store, Stores, Loads
  <1>6. CASE h = "LoadReserved"
    <2>1. Run(o, h, i) = LoadReserved(o, i, r)
      BY <1>6 DEF Run, r
    <2> QED BY <1>3, <1>6, <2>1 DEF LoadReserved, Loads, Stores
  <1>7. CASE h = "StoreConditional"
    <2>1. Run(o, h, i) = StoreConditional(o, i, r)
      BY <1>7 DEF Run, r
    <2>2. Result(r, i, 0).accesses = {} /\ "accesses" \in DOMAIN Result(r, i, 0)
          /\ Result(r, i, 1).accesses = {}
      BY <1>3
    <2> QED BY <2>2, <1>7, <2>1 DEF StoreConditional, Loads, Stores
  <1>8. CASE h = "Atomic"
    <2>1. Run(o, h, i) = Atomic(o, i, r)
      BY <1>8 DEF Run, r
    <2> QED BY <1>3, <1>8, <2>1 DEF Atomic, Loads, Stores
  <1>9. CASE h \notin Loads \cup Stores \cup {"LoadReserved", "StoreConditional", "Atomic"}
    <2>1. \A t : JumpTo(r, t).accesses = {}
      BY <1>2 DEF JumpTo
    <2>2. \A t, l : JumpTo([r EXCEPT !.link = l], t).accesses = {}
      BY <1>2 DEF JumpTo
    <2>3. \A e : [r EXCEPT !.end = e].accesses = {}
      BY <1>2
    <2>4. CASE h \in {"Lui", "Auipc", "AluImm", "Shift", "ShiftImm", "Alu",
                      "C_Alu", "C_AluImm", "C_ADDI4SPN", "C_ADDI16SP"}
      <3>1. \E v : Run(o, h, i) = Result(r, i, v)
        BY <2>4 DEF Run, r
      <3> QED BY <1>3, <1>9, <3>1
    <2>5. CASE h \in {"Jal", "Jalr"}
      <3>1. Run(o, h, i) = Jump(o, i, r)
        BY <2>5 DEF Run, r
      <3>2. Jump(o, i, r).accesses = {}
        BY <2>2, <2>5 DEF Jump
      <3> QED BY <1>9, <3>1, <3>2
    <2>6. CASE h \in {"Branch", "C_Branch", "C_J", "C_JR"}
      <3>1. Run(o, h, i) \in {Branch(o, i, r), C_Branch(o, i, r), C_J(o, i, r), C_JR(o, i, r)}
        BY <2>6 DEF Run, r
      <3>2. Branch(o, i, r).accesses = {} /\ C_Branch(o, i, r).accesses = {}
        BY <1>1, <2>1 DEF Branch, C_Branch
      <3>3. C_J(o, i, r).accesses = {} /\ C_JR(o, i, r).accesses = {}
        BY <2>2 DEF C_J, C_JR
      <3> QED BY <1>9, <3>1, <3>2, <3>3
    <2>7. CASE h = "MulDiv"
      <3>1. Run(o, h, i) = [r EXCEPT !.end = "SIGFPE"] \/ \E v : Run(o, h, i) = Result(r, i, v)
        BY <2>7 DEF Run, r
      <3> QED BY <1>3, <1>9, <2>3, <3>1
    <2>8. CASE h \notin {"Lui", "Auipc", "AluImm", "Shift", "ShiftImm", "Alu", "MulDiv",
                         "C_Alu", "C_AluImm", "C_ADDI4SPN", "C_ADDI16SP",
                         "Jal", "Jalr", "Branch", "C_Branch", "C_J", "C_JR"}
      <3>1. Run(o, h, i) = r
        BY <1>9, <2>8 DEF Run, Loads, Stores, r
      <3> QED BY <1>1, <1>9, <3>1
    <2> QED BY <2>4, <2>5, <2>6, <2>7, <2>8
  <1> QED BY <1>4, <1>5, <1>6, <1>7, <1>8, <1>9

\* The check of an operation is the one that its handler needs.
LEMMA CheckOfHandler ==
    ASSUME NEW xl \in {32, 64}, NEW class, NEW code,
           NEW h, Handles(xl, class, h, code),
           NEW c, (\E g : Tries(xl, class, g, code)) => Tries(xl, class, c, code)
    PROVE  /\ h \in Loads => c \in {"Load", "C_Load", "C_LoadSP"}
           /\ h \in Stores => c \in {"Store", "C_Store", "C_StoreSP"}
           /\ h \in {"LoadReserved", "StoreConditional", "Atomic"} => c = h
  <1>1. CASE class = "I"
    <2>1. h \in {"Load", "Store"} => Tries(xl, class, h, code)
      BY <1>1 DEF Handles, HandlesI, Tries, TriesWide
    <2>2. h \notin {"C_Load", "C_LoadSP", "F_Load", "C_Store", "C_StoreSP", "F_Store",
                    "LoadReserved", "StoreConditional", "Atomic"}
      BY <1>1 DEF Handles, HandlesI
    <2>3. CASE h = "Load"
      <3>1. Tries(xl, class, c, code)
        BY <2>1, <2>3
      <3> QED BY <1>1, <2>3, <3>1 DEF Handles, HandlesI, Tries, TriesWide, AtomicWords, AtomicDoubles, Stores
    <2>4. CASE h = "Store"
      <3>1. Tries(xl, class, c, code)
        BY <2>1, <2>4
      <3> QED BY <1>1, <2>4, <3>1 DEF Handles, HandlesI, Tries, TriesWide, AtomicWords, AtomicDoubles, Loads
    <2> QED BY <2>2, <2>3, <2>4 DEF Loads, Stores
  <1>2. CASE class = "M"
    BY <1>2 DEF Handles, HandlesM, Loads, Stores
  <1>3. CASE class = "A"
    <2>1. Tries(xl, class, h, code)
      BY <1>3 DEF Handles, HandlesA, Tries, TriesWide
    <2>2. Tries(xl, class, c, code)
      BY <2>1
    <2>3. h = c /\ h \in {"LoadReserved", "StoreConditional", "Atomic"}
      BY <1>3, <2>2 DEF Handles, HandlesA, Tries, TriesWide, AtomicWords, AtomicDoubles
    <2> QED BY <2>3 DEF Loads, Stores
  <1>4. CASE class \in {"F", "D"}
    <2>1. /\ h = "F_Load" => code \in {"flw", "fld"}
          /\ h = "F_Store" => code \in {"fsw", "fsd"}
          /\ h \in {"F_Load", "F_Store", "MulAdd", "F_Compute"}
      BY <1>4 DEF Handles, HandlesFp
    <2>2. CASE h = "F_Load"
      <3>1. Tries(xl, class, "Load", code)
        BY <1>4, <2>1, <2>2 DEF Tries, TriesWide
      <3>2. Tries(xl, class, c, code)
        BY <3>1
      <3> QED BY <1>4, <2>1, <2>2, <3>2 DEF Tries, TriesWide, AtomicWords, AtomicDoubles, Stores
    <2>3. CASE h = "F_Store"
      <3>1. Tries(xl, class, "Store", code)
        BY <1>4, <2>1, <2>3 DEF Tries, TriesWide
      <3>2. Tries(xl, class, c, code)
        BY <3>1
      <3> QED BY <1>4, <2>1, <2>3, <3>2 DEF Tries, TriesWide, AtomicWords, AtomicDoubles, Loads
    <2> QED BY <2>1, <2>2, <2>3 DEF Loads, Stores
  <1>5. CASE class = "C"
    <2>1. h \in {"C_Load", "C_LoadSP", "C_Store", "C_StoreSP"} => Tries(xl, class, h, code)
      BY <1>5 DEF Handles, HandlesC, Tries, TriesC
    <2>2. h \notin {"Load", "F_Load", "Store", "F_Store", "LoadReserved", "StoreConditional", "Atomic"}
      BY <1>5 DEF Handles, HandlesC
    <2>3. CASE h \in {"C_Load", "C_LoadSP"}
      <3>1. Tries(xl, class, c, code)
        BY <2>1, <2>3
      <3> QED BY <1>5, <2>3, <3>1 DEF Handles, HandlesC, Tries, TriesC, Stores
    <2>4. CASE h \in {"C_Store", "C_StoreSP"}
      <3>1. Tries(xl, class, c, code)
        BY <2>1, <2>4
      <3> QED BY <1>5, <2>4, <3>1 DEF Handles, HandlesC, Tries, TriesC, Loads
    <2> QED BY <2>2, <2>3, <2>4 DEF Loads, Stores
  <1> QED BY <1>1, <1>2, <1>3, <1>4, <1>5 DEF Handles

\* What an invariant about an executed operation may start from.
LEMMA Executed ==
    ASSUME IInv, stage = "executed"
    PROVE  LET h == Handler(ProcessOp(op.class), op.code)
           IN  /\ xlen \in {32, 64} /\ op.class \in {"I", "M", "A", "F", "D", "C"}
               /\ Handles(xlen, op.class, h, op.code)
               /\ in \in Inputs(h, op.code) /\ out = Run(op, h, in) /\ out.end # "SIGFPE"
  <1>1. /\ xlen \in {32, 64} /\ Ran /\ out.end # "SIGFPE"
        /\ \E f : Listed(xlen, op.class, op.code, f)
    BY DEF IInv
  <1>2. op.class \in {"I", "M", "A", "F", "D", "C"}
    BY <1>1 DEF Listed
  <1> QED BY <1>1, <1>2, HandlerHandles DEF Ran, RanAs

LEMMA CheckedInv == IInv => AccessIsChecked
  <1> SUFFICES ASSUME IInv, stage = "executed" PROVE out.accesses \subseteq Checked(op, in)
    BY DEF AccessIsChecked
  <1>1. PICK h : /\ xlen \in {32, 64} /\ Handles(xlen, op.class, h, op.code)
                 /\ out = Run(op, h, in)
    BY Executed
  <1>0. h \in {"Jal", "Jalr"} => op.code \in {"jal", "jalr"}
    BY <1>1 DEF Handles, HandlesI, HandlesM, HandlesA, HandlesFp, HandlesC
  <1>2. PICK c : c = Handler(PreCheckTable(op.class), op.code)
    OBVIOUS
  <1>3. (\E g : Tries(xlen, op.class, g, op.code)) => Tries(xlen, op.class, c, op.code)
    BY <1>1, <1>2, HandlerTries
  <1>4. /\ h \in Loads => c \in {"Load", "C_Load", "C_LoadSP"}
        /\ h \in Stores => c \in {"Store", "C_Store", "C_StoreSP"}
        /\ h \in {"LoadReserved", "StoreConditional", "Atomic"} => c = h
    BY <1>1, <1>3, CheckOfHandler
  <1>5. Checked(op, in) =
          LET addr == IF c \in {"LoadReserved", "StoreConditional", "Atomic"}
                      THEN Unsigned(in.a) ELSE Address(in)
          IN  {<<type, addr>> : type \in CheckedTypes(c)}
    BY <1>2 DEF Checked
  <1>6. CASE h \in Loads
    <2>1. out.accesses \subseteq {<<"Load", Address(in)>>}
      BY <1>0, <1>1, <1>6, RunAccesses
    <2>2. CheckedTypes(c) = {"Load"}
      BY <1>4, <1>6 DEF CheckedTypes
    <2> QED BY <1>4, <1>5, <1>6, <2>1, <2>2
  <1>7. CASE h \in Stores
    <2>1. out.accesses \subseteq {<<"Store", Address(in)>>}
      BY <1>0, <1>1, <1>7, RunAccesses
    <2>2. CheckedTypes(c) = {"Store"}
      BY <1>4, <1>7 DEF CheckedTypes
    <2> QED BY <1>4, <1>5, <1>7, <2>1, <2>2
  <1>8. CASE h = "LoadReserved"
    <2>1. out.accesses \subseteq {<<"Load", Unsigned(in.a)>>}
      BY <1>0, <1>1, <1>8, RunAccesses
    <2>2. CheckedTypes(c) = {"Load"}
      BY <1>4, <1>8 DEF CheckedTypes
    <2> QED BY <1>4, <1>5, <1>8, <2>1, <2>2
  <1>9. CASE h = "StoreConditional"
    <2>1. out.accesses \subseteq {<<"Store", Unsigned(in.a)>>}
      BY <1>0, <1>1, <1>9, RunAccesses
    <2>2. CheckedTypes(c) = {"Store"}
      BY <1>4, <1>9 DEF CheckedTypes
    <2> QED BY <1>4, <1>5, <1>9, <2>1, <2>2
  <1>10. CASE h = "Atomic"
    <2>1. out.accesses \subseteq {<<"Load", Unsigned(in.a)>>, <<"Store", Unsigned(in.a)>>}
      BY <1>0, <1>1, <1>10, RunAccesses
    <2>2. CheckedTypes(c) = {"Load", "Store"}
      BY <1>4, <1>10 DEF CheckedTypes
    <2> QED BY <1>4, <1>5, <1>10, <2>1, <2>2
  <1>11. CASE h \notin Loads \cup Stores \cup {"LoadReserved", "StoreConditional", "Atomic"}
    <2>1. out.accesses \subseteq {}
      BY <1>0, <1>1, <1>11, RunAccesses
    <2> QED BY <2>1
  <1> QED BY <1>6, <1>7, <1>8, <1>9, <1>10, <1>11

\* No handler of Executor.cpp accesses memory at an address, or in a way, that
\* PreCheckTrap has not tried for the operation.
THEOREM AccessesChecked == Spec => []AccessIsChecked
  BY Inductive, CheckedInv, PTL

-----------------------------------------------------------------------------
(* Remainders, signed numbers and registers.                               *)

LEMMA DivInt ==
    ASSUME NEW m \in Nat \ {0}, NEW v \in Int
    PROVE  v \div m \in Int /\ v % m \in 0..(m - 1) /\ v = m * (v \div m) + (v % m)
  OBVIOUS

LEMMA DivUnique ==
    ASSUME NEW m \in Nat \ {0}, NEW q \in Int, NEW r \in 0..(m - 1), NEW s \in Int, NEW t \in 0..(m - 1),
           m * q + r = m * s + t
    PROVE  q = s /\ r = t
  OBVIOUS

\* The quotient and the remainder, from any way to write a number.
LEMMA DivOf ==
    ASSUME NEW m \in Nat \ {0}, NEW v \in Int, NEW q \in Int, NEW r \in 0..(m - 1), v = m * q + r
    PROVE  v \div m = q /\ v % m = r
  <1>1. PICK s \in Int, t \in 0..(m - 1) : s = v \div m /\ t = v % m /\ v = m * s + t
    BY DivInt
  <1> QED BY <1>1, DivUnique

LEMMA Shifted ==
    ASSUME NEW m \in Nat \ {0}, NEW v \in Int, NEW k \in Int
    PROVE  (v + m * k) % m = v % m /\ (v + m * k) \div m = (v \div m) + k
  <1>1. PICK s \in Int, t \in 0..(m - 1) : s = v \div m /\ t = v % m /\ v = m * s + t
    BY DivInt
  <1>2. PICK w \in Int : w = v + m * k
    OBVIOUS
  <1>3. w = m * (s + k) + t
    BY <1>1, <1>2
  <1>4. s + k \in Int
    OBVIOUS
  <1>5. w \div m = s + k /\ w % m = t
    BY <1>3, <1>4, DivOf
  <1> QED BY <1>1, <1>2, <1>5

\* Numbers with the same remainder differ by a multiple.
LEMMA SameRemainder ==
    ASSUME NEW m \in Nat \ {0}, NEW v \in Int, NEW w \in Int, v % m = w % m
    PROVE  \E k \in Int : v = w + m * k
  <1>1. PICK s \in Int, t \in 0..(m - 1) : s = v \div m /\ t = v % m /\ v = m * s + t
    BY DivInt
  <1>2. PICK p \in Int, u \in 0..(m - 1) : p = w \div m /\ u = w % m /\ w = m * p + u
    BY DivInt
  <1>3. s - p \in Int /\ v = w + m * (s - p)
    BY <1>1, <1>2
  <1> QED BY <1>3

LEMMA Width ==
    ASSUME NEW bits \in 1..64
    PROVE  /\ Power[bits] \in Nat \ {0} /\ Power[bits - 1] \in Nat \ {0}
           /\ Power[bits] = 2 * Power[bits - 1]
  <1>1. bits - 1 \in 0..63 /\ bits = (bits - 1) + 1 /\ bits \in 0..64 /\ bits - 1 \in 0..64
    OBVIOUS
  <1> QED BY <1>1, PowerDef

LEMMA SignedFacts ==
    ASSUME NEW bits \in 1..64, NEW v \in Int
    PROVE  /\ Signed(bits, v) \in Int
           /\ -Power[bits - 1] <= Signed(bits, v) /\ Signed(bits, v) < Power[bits - 1]
           /\ Signed(bits, v) % Power[bits] = v % Power[bits]
           /\ Signed(bits, v) >= 0 <=> v % Power[bits] < Power[bits - 1]
           /\ Signed(bits, v) = 0 <=> v % Power[bits] = 0
  <1>1. PICK M \in Nat \ {0}, H \in Nat \ {0} : M = Power[bits] /\ H = Power[bits - 1] /\ M = 2 * H
    BY Width
  <1>2. PICK s \in Int, u \in 0..(M - 1) : u = v % M /\ v = M * s + u
    BY DivInt
  <1>3. Signed(bits, v) = IF u >= H THEN u - M ELSE u
    BY <1>1, <1>2 DEF Signed
  <1>4. u % M = u /\ (u - M) % M = u
    <2>1. u = M * 0 + u /\ u - M = M * (-1) + u
      BY <1>1
    <2> QED BY <2>1, DivOf
  <1>5. PICK g \in Int : g = Signed(bits, v)
    BY <1>1, <1>3
  <1>6. g = IF u >= H THEN u - M ELSE u
    BY <1>3, <1>5
  <1>7. g % M = u
    BY <1>4, <1>6
  <1>8. -H <= g /\ g < H /\ (g >= 0 <=> u < H) /\ (g = 0 <=> u = 0)
    BY <1>1, <1>6
  <1> QED BY <1>1, <1>2, <1>5, <1>7, <1>8

LEMMA SignedInRange ==
    ASSUME NEW bits \in 1..64, NEW v \in Int, -Power[bits - 1] <= v, v < Power[bits - 1]
    PROVE  Signed(bits, v) = v
  <1>1. PICK M \in Nat \ {0}, H \in Nat \ {0} : M = Power[bits] /\ H = Power[bits - 1] /\ M = 2 * H
    BY Width
  <1>2. CASE v >= 0
    <2>1. v = M * 0 + v /\ v \in 0..(M - 1)
      BY <1>1, <1>2
    <2>2. v % M = v
      BY <2>1, DivOf
    <2> QED BY <1>1, <2>2 DEF Signed
  <1>3. CASE v < 0
    <2>1. v = M * (-1) + (v + M) /\ v + M \in 0..(M - 1)
      BY <1>1, <1>3
    <2>2. v % M = v + M
      <3>1. PICK n \in Int : n + 1 = 0
        OBVIOUS
      <3>2. v = M * n + (v + M)
        BY <3>1
      <3> QED BY <2>1, <3>2, DivOf
    <2> QED BY <1>1, <1>3, <2>2 DEF Signed
  <1> QED BY <1>2, <1>3

LEMMA SignedMod ==
    ASSUME NEW bits, NEW v, NEW w, v % Power[bits] = w % Power[bits]
    PROVE  Signed(bits, v) = Signed(bits, w)
  BY DEF Signed

LEMMA WriteFacts ==
    ASSUME NEW bits \in 0..64, NEW old \in Nat, NEW v \in Int
    PROVE  /\ Write(bits, old, v) \in Nat
           /\ Write(bits, old, v) % Power[bits] = v % Power[bits]
           /\ Write(bits, old, v) \div Power[bits] = old \div Power[bits]
           /\ old < Power[bits] => Write(bits, old, v) = v % Power[bits]
  <1>1. PICK M \in Nat \ {0} : M = Power[bits]
    BY PowerDef
  <1>2. PICK q \in Nat, u \in 0..(M - 1) : q = old \div M /\ u = old % M /\ old = M * q + u
    BY DivInt
  <1>3. PICK t \in 0..(M - 1) : t = v % M
    BY DivInt
  <1>4. PICK w \in Nat : w = M * q + t
    OBVIOUS
  <1>5. w % M = t /\ w \div M = q
    BY <1>4, DivOf
  <1>6. Write(bits, old, v) = w
    <2>1. Write(bits, old, v) = q * M + t
      BY <1>1, <1>2, <1>3 DEF Write
    <2> QED BY <1>4, <2>1
  <1>7. old < M => q = 0
    BY <1>2
  <1>8. old < M => w = t
    BY <1>4, <1>7
  <1> QED BY <1>1, <1>2, <1>3, <1>5, <1>6, <1>8

-----------------------------------------------------------------------------
(* Division.                                                               *)

\* What division towards zero leaves; n and m are the sizes of the operands.
Divides(a, b, q, r, n, m) ==
    /\ q = Quotient(a, b) /\ r = Remainder(a, b)
    /\ n = (IF a < 0 THEN -a ELSE a) /\ m = (IF b < 0 THEN -b ELSE b)
    /\ a = b * q + r
    /\ -m < r /\ r < m /\ (r = 0 \/ (r < 0 <=> a < 0))
    /\ -n <= q /\ q <= n /\ (m >= 2 /\ n >= 1 => -n < q /\ q < n)

LEMMA QuotientFacts ==
    ASSUME NEW a \in Int, NEW b \in Int, b # 0
    PROVE  \E q \in Int, r \in Int, n \in Nat, m \in Nat : Divides(a, b, q, r, n, m)
  <1>1. PICK n \in Nat : n = IF a < 0 THEN -a ELSE a
    OBVIOUS
  <1>2. PICK m \in Nat \ {0} : m = IF b < 0 THEN -b ELSE b
    OBVIOUS
  <1>3. PICK d \in Nat, e \in 0..(m - 1) : d = n \div m /\ e = n % m /\ n = m * d + e
    BY DivInt
  <1>4. d <= n /\ (m >= 2 /\ n >= 1 => d < n)
    <2>1. m * d >= d /\ (m >= 2 => m * d >= 2 * d)
      OBVIOUS
    <2>2. m * d <= n
      BY <1>3
    <2> QED BY <2>1, <2>2
  <1>5. Quotient(a, b) = IF (a < 0) = (b < 0) THEN d ELSE -d
    BY <1>1, <1>2, <1>3 DEF Quotient
  <1>6. PICK q \in Int : q = Quotient(a, b) /\ q = (IF (a < 0 <=> b < 0) THEN d ELSE -d)
    BY <1>5
  <1>7. PICK r \in Int : r = Remainder(a, b) /\ r = a - b * q
    <2>1. Remainder(a, b) = a - b * q
      BY <1>6 DEF Remainder
    <2> QED BY <2>1
  <1>8. r = IF a < 0 THEN -e ELSE e
    <2>1. PICK p \in Nat : p = m * d
      OBVIOUS
    <2>2. b * q = IF a < 0 THEN -p ELSE p
      <3>1. CASE a < 0 /\ b < 0
        <4>1. b = -m /\ q = d
          BY <3>1, <1>2, <1>6
        <4> QED BY <2>1, <3>1, <4>1
      <3>2. CASE a < 0 /\ ~(b < 0)
        <4>1. b = m /\ q = -d
          BY <3>2, <1>2, <1>6
        <4> QED BY <2>1, <3>2, <4>1
      <3>3. CASE ~(a < 0) /\ b < 0
        <4>1. b = -m /\ q = -d
          BY <3>3, <1>2, <1>6
        <4> QED BY <2>1, <3>3, <4>1
      <3>4. CASE ~(a < 0) /\ ~(b < 0)
        <4>1. b = m /\ q = d
          BY <3>4, <1>2, <1>6
        <4> QED BY <2>1, <3>4, <4>1
      <3> QED BY <3>1, <3>2, <3>3, <3>4
    <2>3. n = p + e
      BY <1>3, <2>1
    <2> QED BY <1>1, <1>7, <2>2, <2>3
  <1>9. a = b * q + r
    BY <1>7
  <1>10. -m < r /\ r < m /\ (r = 0 \/ (r < 0 <=> a < 0))
    BY <1>3, <1>8
  <1>11. -n <= q /\ q <= n /\ (m >= 2 /\ n >= 1 => -n < q /\ q < n)
    BY <1>4, <1>6
  <1>12. Divides(a, b, q, r, n, m)
    BY <1>1, <1>2, <1>6, <1>7, <1>9, <1>10, <1>11 DEF Divides
  <1> QED BY <1>12

LEMMA SignedDivisionFits ==
    ASSUME NEW bits \in 1..64, NEW a \in Int, NEW b \in Int, NEW q, NEW r,
           LET sa == Signed(bits, a)
               sb == Signed(bits, b)
           IN  IF sb = 0 THEN q % Power[bits] = Power[bits] - 1 /\ Signed(bits, r) = sa
               ELSE IF sa = Smallest(bits) /\ sb = -1 THEN Signed(bits, q) = sa /\ Signed(bits, r) = 0
               ELSE Signed(bits, q) = Signed(bits, Quotient(sa, sb))
                    /\ Signed(bits, r) = Signed(bits, Remainder(sa, sb))
    PROVE  Fits(TRUE, bits, a, b, q, r)
  <1>1. PICK M \in Nat \ {0}, H \in Nat \ {0} : M = Power[bits] /\ H = Power[bits - 1] /\ M = 2 * H
    BY Width
  <1>2. PICK sa \in Int : sa = Signed(bits, a) /\ -H <= sa /\ sa < H
    BY <1>1, SignedFacts
  <1>3. PICK sb \in Int : sb = Signed(bits, b) /\ -H <= sb /\ sb < H
    BY <1>1, SignedFacts
  <1>4. Smallest(bits) = -H
    BY <1>1 DEF Smallest
  <1>5. CASE sb = 0
    BY <1>2, <1>3, <1>5 DEF Fits
  <1>6. CASE sb # 0 /\ sa = -H /\ sb = -1
    BY <1>2, <1>3, <1>4, <1>6 DEF Fits
  <1>7. CASE sb # 0 /\ ~(sa = -H /\ sb = -1)
    <2>0. PICK x \in Int, y \in Int, n \in Nat, m \in Nat : Divides(sa, sb, x, y, n, m)
      BY <1>7, QuotientFacts
    <2>1. /\ x = Quotient(sa, sb) /\ y = Remainder(sa, sb)
          /\ n = (IF sa < 0 THEN -sa ELSE sa) /\ m = (IF sb < 0 THEN -sb ELSE sb)
          /\ sa = sb * x + y
          /\ -m < y /\ y < m /\ (y = 0 \/ (y < 0 <=> sa < 0))
          /\ -n <= x /\ x <= n /\ (m >= 2 /\ n >= 1 => -n < x /\ x < n)
      BY <2>0 DEF Divides
    <2>2. -H <= y /\ y < H
      BY <1>3, <2>1
    <2>3. -H <= x /\ x < H
      <3>1. n <= H /\ -H <= x /\ x <= H
        BY <1>2, <2>1
      <3>2. CASE x = H
        <4>1. n = H /\ sa = -H
          BY <1>2, <2>1, <3>1, <3>2
        <4>2. m < 2
          BY <1>1, <2>0, <2>1, <3>2, <4>1
        <4>3. sb = 1
          <5>1. m = IF sb < 0 THEN -sb ELSE sb
            BY <2>1
          <5>2. sb # -1
            BY <1>7, <4>1
          <5> QED BY <1>3, <1>7, <2>0, <4>2, <5>1, <5>2
        <4>4. m = 1 /\ sa = x + y /\ y = 0
          BY <2>0, <2>1, <4>3
        <4> QED BY <1>1, <2>0, <3>2, <4>1, <4>4
      <3> QED BY <2>0, <3>1, <3>2
    <2>4. Signed(bits, q) = x /\ Signed(bits, r) = y
      <3>1. Signed(bits, x) = x /\ Signed(bits, y) = y
        BY <1>1, <2>2, <2>3, SignedInRange
      <3> QED BY <1>2, <1>3, <1>4, <1>7, <2>1, <3>1
    <2>5. sa = x * sb + y
      BY <2>1
    <2> DEFINE size(k) == IF k < 0 THEN -k ELSE k
    <2>6. size(y) < size(sb) /\ (y = 0 \/ (y < 0) = (sa < 0))
      BY <2>1
    <2> QED BY <1>2, <1>3, <1>4, <1>7, <2>4, <2>5, <2>6 DEF Fits
  <1> QED BY <1>5, <1>6, <1>7

LEMMA UnsignedDivisionFits ==
    ASSUME NEW bits \in 1..64, NEW a \in Int, NEW b \in Int, NEW q, NEW r,
           LET ua == a % Power[bits]
               ub == b % Power[bits]
           IN  IF ub = 0 THEN q % Power[bits] = Power[bits] - 1 /\ r % Power[bits] = ua
               ELSE /\ q % Power[bits] = (ua \div ub) % Power[bits]
                    /\ r % Power[bits] = (ua % ub) % Power[bits]
    PROVE  Fits(FALSE, bits, a, b, q, r)
  <1>1. PICK M \in Nat \ {0} : M = Power[bits]
    BY Width
  <1>2. PICK ua \in 0..(M - 1), ub \in 0..(M - 1) : ua = a % M /\ ub = b % M
    BY DivInt
  <1>3. CASE ub = 0
    BY <1>1, <1>2, <1>3 DEF Fits
  <1>4. CASE ub # 0
    <2>0. ub \in Nat \ {0} /\ ua \in Int
      BY <1>2, <1>4
    <2>1. PICK d \in Nat, e \in 0..(ub - 1) : d = ua \div ub /\ e = ua % ub /\ ua = ub * d + e
      <3>1. ua \in Nat
        BY <1>2
      <3>2. ua % ub \in 0..(ub - 1) /\ ua = ub * (ua \div ub) + (ua % ub)
        BY <2>0, DivInt
      <3>3. ua \div ub \in Nat
        BY <2>0, <3>1, Division
      <3> QED BY <3>2, <3>3
    <2>2. d < M /\ e < M
      <3>1. ub * d >= d /\ ub * d <= ua
        BY <2>0, <2>1
      <3> QED BY <1>2, <2>0, <2>1, <3>1
    <2>3. d % M = d /\ e % M = e
      <3>1. d = M * 0 + d /\ e = M * 0 + e
        OBVIOUS
      <3> QED BY <2>2, <3>1, DivOf
    <2>4. q % M = d /\ r % M = e
      BY <1>1, <1>2, <1>4, <2>1, <2>3
    <2>5. ua = d * ub + e /\ ~(e < 0) /\ ~(ub < 0) /\ ~(ua < 0) /\ e < ub
      BY <1>2, <2>0, <2>1
    <2> QED BY <1>1, <1>2, <1>4, <2>4, <2>5 DEF Fits
  <1> QED BY <1>3, <1>4

-----------------------------------------------------------------------------
(* Words in double words.                                                  *)

LEMMA PowerSum ==
    ASSUME NEW m \in 0..64, NEW n \in 0..(64 - m)
    PROVE  Power[m + n] = Power[m] * Power[n]
  <1> DEFINE S == {k \in 0..n : Power[m + k] = Power[m] * Power[k]}
  <1>1. n \in Nat
    OBVIOUS
  <1>2. 0 \in S
    BY PowerDef
  <1>3. ASSUME NEW k \in 0..(n - 1), k \in S PROVE k + 1 \in S
    <2>1. m + k \in 0..63 /\ k \in 0..63 /\ k \in 0..64 /\ k \in Nat /\ m \in Nat
      OBVIOUS
    <2>2. Power[(m + k) + 1] = 2 * Power[m + k] /\ Power[k + 1] = 2 * Power[k]
      BY <2>1, PowerDef
    <2>3. (m + k) + 1 = m + (k + 1)
      BY <2>1
    <2>4. PICK x \in Nat, y \in Nat : x = Power[m] /\ y = Power[k]
      BY <2>1, PowerDef
    <2>5. Power[m + k] = x * y
      BY <1>3, <2>4
    <2>6. Power[m + (k + 1)] = x * (2 * y)
      BY <2>2, <2>3, <2>5
    <2> QED BY <2>2, <2>4, <2>6
  <1> HIDE DEF S
  <1>4. 0..n \subseteq S
    BY <1>1, <1>2, <1>3, UpTo
  <1>5. n \in S
    BY <1>1, <1>4
  <1> QED BY <1>5 DEF S

\* W, H and D are the values that a word, its sign bit and a double word count to.
Sizes(W, H, D) ==
    /\ W = Power[WordBits] /\ H = Power[WordBits - 1] /\ D = Power[DoubleBits]
    /\ W = 2 * H /\ D = W * W /\ D >= W

LEMMA SizesExist ==
    /\ WordBits \in 1..64 /\ DoubleBits \in 1..64
    /\ \E W \in Nat \ {0}, H \in Nat \ {0}, D \in Nat \ {0} : Sizes(W, H, D)
  <1>1. WordBits \in 1..32 /\ DoubleBits = WordBits + WordBits
    BY WordBitsAssumption DEF WordBitsAssumption, DoubleBits
  <1>2. WordBits \in 1..64 /\ WordBits \in 0..64 /\ WordBits \in 0..(64 - WordBits) /\ DoubleBits \in 1..64
    BY <1>1
  <1>3. PICK W \in Nat \ {0}, H \in Nat \ {0} : W = Power[WordBits] /\ H = Power[WordBits - 1] /\ W = 2 * H
    BY <1>2, Width
  <1>4. PICK D \in Nat \ {0} : D = Power[DoubleBits]
    BY <1>2, Width
  <1>5. D = W * W
    BY <1>1, <1>2, <1>3, <1>4, PowerSum
  <1>6. D >= W
    BY <1>5
  <1>7. Sizes(W, H, D)
    BY <1>3, <1>4, <1>5, <1>6 DEF Sizes
  <1> QED BY <1>2, <1>7

LEMMA BitsFacts ==
    ASSUME xlen \in {32, 64}
    PROVE  Bits \in 1..64 /\ (xlen = 32 => Bits = WordBits) /\ (xlen = 64 => Bits = DoubleBits)
  BY SizesExist DEF Bits

\* The remainder of a remainder.
LEMMA Nested ==
    ASSUME NEW m \in Nat \ {0}, NEW k \in Nat \ {0}, NEW v \in Int
    PROVE  (v % (m * k)) % m = v % m
  <1>1. PICK M \in Nat \ {0} : M = m * k
    OBVIOUS
  <1>2. PICK s \in Int, t \in 0..(M - 1) : t = v % M /\ v = M * s + t
    BY DivInt
  <1>3. PICK j \in Int : j = k * s
    OBVIOUS
  <1>4. v = t + m * j
    BY <1>1, <1>2, <1>3
  <1>5. t \in Int /\ j \in Int
    BY <1>1, <1>2, <1>3
  <1>6. (t + m * j) % m = t % m
    BY <1>5, Shifted
  <1> QED BY <1>1, <1>2, <1>4, <1>6

LEMMA WrapFacts ==
    ASSUME NEW v \in Int
    PROVE  /\ Wrap(v) \in 0..(Power[DoubleBits] - 1)
           /\ Wrap(v) % Power[WordBits] = v % Power[WordBits]
           /\ v \in 0..(Power[DoubleBits] - 1) => Wrap(v) = v
  <1>1. PICK W \in Nat \ {0}, H \in Nat \ {0}, D \in Nat \ {0} : Sizes(W, H, D)
    BY SizesExist
  <1>2. W = Power[WordBits] /\ D = Power[DoubleBits] /\ D = W * W
    BY <1>1 DEF Sizes
  <1>3. Wrap(v) = v % D /\ v % D \in 0..(D - 1)
    BY <1>2, DivInt DEF Wrap
  <1>4. (v % (W * W)) % W = v % W
    BY Nested
  <1>5. ASSUME v \in 0..(D - 1) PROVE v % D = v
    <2>1. v = D * 0 + v
      OBVIOUS
    <2> QED BY <1>5, <2>1, DivOf
  <1> QED BY <1>2, <1>3, <1>4, <1>5

\* SignExtend and the conversion from int, by the low word.
LEMMA Extended ==
    ASSUME NEW v \in Int
    PROVE  LET low  == v % Power[WordBits]
               high == Power[DoubleBits] - Power[WordBits] + low
           IN  /\ low \in 0..(Power[WordBits] - 1)
               /\ SignExtend(WordBits, v) = IF low >= Power[WordBits - 1] THEN high ELSE Wrap(v)
               /\ Int32(v) = IF low >= Power[WordBits - 1] THEN high ELSE low
  <1>1. PICK W \in Nat \ {0}, H \in Nat \ {0}, D \in Nat \ {0} : Sizes(W, H, D)
    BY SizesExist
  <1>2. W = Power[WordBits] /\ H = Power[WordBits - 1] /\ D = Power[DoubleBits] /\ W = 2 * H /\ D >= W
    BY <1>1 DEF Sizes
  <1>3. PICK x \in 0..(D - 1) : x = Wrap(v) /\ x % W = v % W
    BY <1>2, WrapFacts
  <1>9. x \in Int
    BY <1>1, <1>3
  <1>4. PICK s \in Int, u \in 0..(W - 1) : u = x % W /\ x = W * s + u
    BY <1>9, DivInt
  <1>0. W \in Nat \ {0} /\ H \in Nat \ {0} /\ D \in Nat \ {0} /\ s \in Int /\ u \in 0..(W - 1) /\ x \in Int
    BY <1>1, <1>3, <1>4
  <1>5. CASE u >= H
    <2>1. x = H * (2 * s + 1) + (u - H) /\ u - H \in 0..(H - 1) /\ 2 * s + 1 \in Int
      <3>1. x = (2 * H) * s + u
        BY <1>2, <1>4
      <3>2. (2 * H) * s = H * (2 * s)
        BY <1>0
      <3>3. H * (2 * s + 1) = H * (2 * s) + H
        BY <1>0
      <3>4. x = H * (2 * s + 1) + (u - H)
        BY <1>0, <3>1, <3>2, <3>3
      <3> QED BY <1>0, <1>2, <1>5, <3>4
    <2>2. x \div H = 2 * s + 1 /\ x % H = u - H
      <3>1. PICK c \in Int, e \in 0..(H - 1) : c = 2 * s + 1 /\ e = u - H
        BY <2>1
      <3>2. x = H * c + e
        BY <2>1, <3>1
      <3>3. x \div H = c /\ x % H = e
        BY <1>9, <3>2, DivOf
      <3> QED BY <3>1, <3>3
    <2>3. (2 * s + 1) % 2 = 1
      BY <1>0
    <2>4. SignExtend(WordBits, v) = D - H + (u - H)
      BY <1>2, <1>3, <2>2, <2>3 DEF SignExtend
    <2>5. Signed(WordBits, v) = u - W
      BY <1>2, <1>3, <1>4, <1>5 DEF Signed
    <2>6. Int32(v) = u - W + D
      <3>1. u - W = D * (-1) + (u - W + D) /\ u - W + D \in 0..(D - 1) /\ u - W \in Int
        BY <1>2
      <3>2. PICK n \in Int : n + 1 = 0
        OBVIOUS
      <3>3. u - W = D * n + (u - W + D)
        BY <3>2
      <3>4. (u - W) % D = u - W + D
        BY <3>1, <3>3, DivOf
      <3> QED BY <1>2, <2>5, <3>4 DEF Int32, Wrap
    <2>7. v % W = u /\ D - H + (u - H) = D - W + u /\ u - W + D = D - W + u
      <3>1. v % W = u
        BY <1>3, <1>4
      <3>2. W = 2 * H /\ u \in Int
        BY <1>0, <1>2
      <3>3. D - H + (u - H) = D - W + u /\ u - W + D = D - W + u
        BY <1>1, <3>2
      <3> QED BY <3>1, <3>3
    <2>8. Int32(v) = D - W + u /\ SignExtend(WordBits, v) = D - W + u
      BY <2>4, <2>6, <2>7
    <2> QED BY <1>0, <1>2, <1>5, <2>7, <2>8
  <1>6. CASE u < H
    <2>1. x = H * (2 * s) + u /\ u \in 0..(H - 1) /\ 2 * s \in Int
      <3>1. x = (2 * H) * s + u
        BY <1>2, <1>4
      <3>2. (2 * H) * s = H * (2 * s)
        BY <1>0
      <3> QED BY <1>0, <1>2, <1>6, <3>1, <3>2
    <2>2. x \div H = 2 * s /\ x % H = u
      BY <1>0, <2>1, DivOf
    <2>3. (2 * s) % 2 = 0
      BY <1>0
    <2>4. SignExtend(WordBits, v) = x
      BY <1>2, <1>3, <2>2, <2>3 DEF SignExtend
    <2>5. Signed(WordBits, v) = u
      BY <1>2, <1>3, <1>4, <1>6 DEF Signed
    <2>6. Int32(v) = u
      <3>1. u \in 0..(D - 1) /\ u \in Int
        BY <1>2
      <3> QED BY <1>2, <2>5, <3>1, WrapFacts DEF Int32
    <2>7. v % W = u /\ ~(u >= H)
      BY <1>0, <1>3, <1>4, <1>6
    <2> QED BY <1>0, <1>2, <1>3, <2>7, <2>4, <2>6
  <1> QED BY <1>0, <1>5, <1>6

-----------------------------------------------------------------------------
(* Multiplications and divisions.                                          *)

\* How a handler ends, and what it leaves but accesses.
LEMMA RunEnd ==
    ASSUME NEW o, NEW h, NEW i, h \in {"Jal", "Jalr"} => o.code \in {"jal", "jalr"}
    PROVE  /\ Run(o, h, i).end \in {"done", "SIGFPE"} /\ Run(o, h, i) # NoOut
           /\ Run(o, h, i).end = "SIGFPE" <=> h = "MulDiv" /\ Kills(o.code, i.b)
  <1> DEFINE r == Stepped(o, i)
  <1>1. r = [value |-> r.value, link |-> r.link, pc |-> r.pc, mem |-> r.mem,
             accesses |-> {}, end |-> "done"]
    BY DEF Stepped
  <1> HIDE DEF r
  <1> DEFINE Done(w) == w.end = "done" /\ "mem" \in DOMAIN w
  <1>2. Done(r)
    BY <1>1
  <1>3. \A v : Done(Result(r, i, v)) /\ "accesses" \in DOMAIN Result(r, i, v)
    BY <1>1 DEF Result
  <1>4. \A t : Done(JumpTo(r, t))
    BY <1>1 DEF JumpTo
  <1>5. \A t, l : Done(JumpTo([r EXCEPT !.link = l], t))
    BY <1>1 DEF JumpTo
  <1>6. [r EXCEPT !.end = "SIGFPE"].end = "SIGFPE" /\ "mem" \in DOMAIN [r EXCEPT !.end = "SIGFPE"]
    BY <1>1
  <1>7. \A w : "mem" \in DOMAIN w => w # NoOut
    <2>1. "mem" \notin DOMAIN NoOut
      BY DEF NoOut
    <2> QED BY <2>1
  <1>8. ASSUME h # "MulDiv" PROVE Done(Run(o, h, i))
    <2>1. CASE h \in {"Lui", "Auipc", "AluImm", "Shift", "ShiftImm", "Alu",
                      "C_Alu", "C_AluImm", "C_ADDI4SPN", "C_ADDI16SP"}
      <3>1. \E v : Run(o, h, i) = Result(r, i, v)
        BY <2>1 DEF Run, r
      <3> QED BY <1>3, <3>1
    <2>2. CASE h \in {"Jal", "Jalr"}
      <3>1. Run(o, h, i) = Jump(o, i, r)
        BY <2>2 DEF Run, r
      <3> QED BY <1>5, <2>2, <3>1 DEF Jump
    <2>3. CASE h \in {"Branch", "C_Branch"}
      <3>1. Run(o, h, i) \in {Branch(o, i, r), C_Branch(o, i, r)}
        BY <2>3 DEF Run, r
      <3> QED BY <1>2, <1>4, <3>1 DEF Branch, C_Branch
    <2>4. CASE h \in {"C_J", "C_JR"}
      <3>1. Run(o, h, i) \in {C_J(o, i, r), C_JR(o, i, r)}
        BY <2>4 DEF Run, r
      <3> QED BY <1>5, <3>1 DEF C_J, C_JR
    <2>5. CASE h \in Loads
      <3>1. Run(o, h, i) = IF o.code \in FpMoves THEN FpLoad(o, i, r) ELSE Load(o, i, r)
        BY <2>5 DEF Run, Loads, r
      <3>2. Done(FpLoad(o, i, r))
        BY <1>1 DEF FpLoad
      <3>3. Done(Load(o, i, r))
        BY <1>3 DEF Load
      <3> QED BY <3>1, <3>2, <3>3
    <2>6. CASE h \in Stores
      <3>1. Run(o, h, i) = Store(o, i, r)
        BY <2>6 DEF Run, Stores, r
      <3> QED BY <1>1, <3>1 DEF Store
    <2>7. CASE h = "LoadReserved"
      <3>1. Run(o, h, i) = LoadReserved(o, i, r)
        BY <2>7 DEF Run, r
      <3> QED BY <1>3, <3>1 DEF LoadReserved
    <2>8. CASE h = "StoreConditional"
      <3>1. Run(o, h, i) = StoreConditional(o, i, r)
        BY <2>8 DEF Run, r
      <3>2. Done(Result(r, i, 0)) /\ Done(Result(r, i, 1))
        BY <1>3
      <3> QED BY <3>1, <3>2 DEF StoreConditional
    <2>9. CASE h = "Atomic"
      <3>1. Run(o, h, i) = Atomic(o, i, r)
        BY <2>9 DEF Run, r
      <3>2. \E v, m, s : Atomic(o, i, r) = [Result(r, i, v) EXCEPT !.mem = m, !.accesses = s]
        BY DEF Atomic
      <3>3. PICK v, m, s : Run(o, h, i) = [Result(r, i, v) EXCEPT !.mem = m, !.accesses = s]
        BY <3>1, <3>2
      <3>4. PICK w : w = Result(r, i, v) /\ Done(w) /\ "accesses" \in DOMAIN w
        BY <1>3
      <3> QED BY <3>3, <3>4
    <2>10. CASE h \notin Loads \cup Stores \cup {"LoadReserved", "StoreConditional", "Atomic",
                         "Lui", "Auipc", "AluImm", "Shift", "ShiftImm", "Alu", "MulDiv",
                         "C_Alu", "C_AluImm", "C_ADDI4SPN", "C_ADDI16SP",
                         "Jal", "Jalr", "Branch", "C_Branch", "C_J", "C_JR"}
      <3>1. Run(o, h, i) = r
        BY <2>10 DEF Run, Loads, Stores, r
      <3> QED BY <1>2, <3>1
    <2> QED BY <1>8, <2>1, <2>2, <2>3, <2>4, <2>5, <2>6, <2>7, <2>8, <2>9, <2>10
  <1>9. ASSUME h = "MulDiv" PROVE IF Kills(o.code, i.b) THEN Run(o, h, i) = [r EXCEPT !.end = "SIGFPE"]
                                  ELSE \E v : Run(o, h, i) = Result(r, i, v)
    BY <1>9 DEF Run, r
  <1>10. CASE h = "MulDiv" /\ Kills(o.code, i.b)
    BY <1>6, <1>7, <1>9, <1>10
  <1>11. CASE ~(h = "MulDiv" /\ Kills(o.code, i.b))
    <2>1. Done(Run(o, h, i))
      BY <1>3, <1>8, <1>9, <1>11
    <2> QED BY <1>7, <1>11, <2>1
  <1> QED BY <1>10, <1>11

LEMMA MulDivHandler ==
    ASSUME NEW xl \in {32, 64}, NEW class, NEW h, NEW code, Handles(xl, class, h, code)
    PROVE  h = "MulDiv" <=> code \in ProcessRV64M.MulDiv
  BY DEF Handles, HandlesI, HandlesM, HandlesA, HandlesFp, HandlesC, ListedM, ProcessRV64M, ProcessRV32M,
         ProcessRVF, ProcessRVD, AtomicWords, AtomicDoubles

\* A double word that a register holds.
LEMMA ValueFacts ==
    ASSUME NEW v \in Values
    PROVE  v \in Nat /\ v < Power[DoubleBits]
  <1>1. PICK W \in Nat \ {0}, H \in Nat \ {0}, D \in Nat \ {0} : Sizes(W, H, D)
    BY SizesExist
  <1>2. D = Power[DoubleBits] /\ v \in 0..(D - 1)
    BY <1>1, ValuesAssumption DEF ValuesAssumption, Sizes, DoubleBits
  <1> QED BY <1>1, <1>2

\* The result of MulDiv.
LEMMA MulDivResult ==
    ASSUME IInv, stage = "executed", op.code \in ProcessRV64M.MulDiv
    PROVE  /\ xlen \in {32, 64} /\ (op.code \in WordDivisions => xlen = 64)
           /\ in.a \in Values /\ in.b \in Values
           /\ ~Kills(op.code, in.b)
           /\ out.value = Write(Bits, in.a,
                  IF op.code \in WordDivisions THEN MulDivWord(op.code, in.a, in.b)
                  ELSE IF op.code \in {"mul", "mulh", "mulhsu", "mulhu"} THEN Mul(op.code, in.a, in.b)
                  ELSE Div(op.code, in.a, in.b))
  <1>1. PICK h : /\ xlen \in {32, 64} /\ op.class \in {"I", "M", "A", "F", "D", "C"}
                 /\ Handles(xlen, op.class, h, op.code)
                 /\ in \in Inputs(h, op.code) /\ out = Run(op, h, in) /\ out.end # "SIGFPE"
    BY Executed
  <1>2. h = "MulDiv"
    BY <1>1, MulDivHandler
  <1>3. op.code \in WordDivisions => xlen = 64
    BY <1>1, <1>2 DEF Handles, HandlesI, HandlesM, HandlesA, HandlesFp, HandlesC, ListedM, WordDivisions
  <1>4. in.a \in Values /\ in.b \in Values
    BY <1>1, <1>2 DEF Inputs, TwoSources, Elsewhere
  <1>5. ~Kills(op.code, in.b)
    BY <1>1, <1>2, RunEnd
  <1> DEFINE r == Stepped(op, in)
  <1>6. \A v : Result(r, in, v).value = Write(Bits, in.a, v)
    <2>1. "value" \in DOMAIN r
      BY DEF Stepped
    <2> HIDE DEF r
    <2> QED BY <2>1 DEF Result
  <1> HIDE DEF r
  <1>7. out = Result(r, in,
                  IF op.code \in WordDivisions THEN MulDivWord(op.code, in.a, in.b)
                  ELSE IF op.code \in {"mul", "mulh", "mulhsu", "mulhu"} THEN Mul(op.code, in.a, in.b)
                  ELSE Div(op.code, in.a, in.b))
    BY <1>1, <1>2, <1>5 DEF Run, r
  <1> QED BY <1>1, <1>3, <1>4, <1>5, <1>6, <1>7

\* Minus one has all bits set.
LEMMA AllOnes ==
    ASSUME NEW M \in Nat \ {0}
    PROVE  (-1) % M = M - 1
  <1>1. PICK n \in Int : n + 1 = 0
    OBVIOUS
  <1>2. -1 = M * n + (M - 1) /\ M - 1 \in 0..(M - 1)
    BY <1>1
  <1> QED BY <1>1, <1>2, DivOf

LEMMA DivisionOfDiv ==
    ASSUME IInv, stage = "executed", op.code = "div"
    PROVE  Fits(TRUE, Bits, in.a, in.b, out.value, Div("rem", in.a, in.b))
  <1>1. /\ xlen \in {32, 64} /\ in.a \in Values /\ in.b \in Values
        /\ out.value = Write(Bits, in.a, Div("div", in.a, in.b))
    <2>1. op.code \in ProcessRV64M.MulDiv /\ op.code \notin WordDivisions
          /\ op.code \notin {"mul", "mulh", "mulhsu", "mulhu"}
      BY DEF ProcessRV64M, ProcessRV32M, WordDivisions
    <2> QED BY <2>1, MulDivResult
  <1>2. Bits \in 1..64 /\ Bits \in 0..64
    BY <1>1, BitsFacts
  <1>3. in.a \in Nat /\ in.b \in Nat /\ in.a \in Int /\ in.b \in Int
    BY <1>1, ValueFacts
  <1>4. PICK M \in Nat \ {0}, H \in Nat \ {0} : M = Power[Bits] /\ H = Power[Bits - 1] /\ M = 2 * H
    BY <1>2, Width
  <1>5. PICK sa \in Int, sb \in Int : sa = Integer(in.a) /\ sb = Integer(in.b)
                                       /\ -H <= sa /\ sa < H /\ -H <= sb /\ sb < H
    BY <1>2, <1>3, <1>4, SignedFacts DEF Integer
  <1>6. sa = Signed(Bits, in.a) /\ sb = Signed(Bits, in.b)
    BY <1>5 DEF Integer
  <1>7. PICK s : s = Smallest(Bits)
    OBVIOUS
  <1>8. s = -H
    BY <1>4, <1>7 DEF Smallest
  <1>9. Div("div", in.a, in.b) = IF sa = s /\ sb = -1 THEN sa ELSE IF sb = 0 THEN -1 ELSE Quotient(sa, sb)
    BY <1>5, <1>7 DEF Div
  <1>10. Div("rem", in.a, in.b) = IF sa = s /\ sb = -1 THEN 0 ELSE IF sb = 0 THEN sa ELSE Remainder(sa, sb)
    BY <1>5, <1>7 DEF Div
  <1>11. sb # 0 => Quotient(sa, sb) \in Int /\ Remainder(sa, sb) \in Int
    BY QuotientFacts DEF Divides
  <1>12. PICK v \in Int : v = Div("div", in.a, in.b)
    BY <1>5, <1>9, <1>11
  <1>13. out.value % M = v % M
    <2>1. Write(Bits, in.a, v) % Power[Bits] = v % Power[Bits]
      BY <1>2, <1>3, <1>12, WriteFacts
    <2> QED BY <1>1, <1>4, <1>12, <2>1
  <1>14. Signed(Bits, out.value) = Signed(Bits, v)
    BY <1>4, <1>13, SignedMod
  <1>15. Signed(Bits, sa) = sa /\ Signed(Bits, 0) = 0
    <2>1. -Power[Bits - 1] <= sa /\ sa < Power[Bits - 1] /\ -Power[Bits - 1] <= 0 /\ 0 < Power[Bits - 1]
      BY <1>4, <1>5
    <2>2. sa \in Int /\ 0 \in Int
      BY <1>5
    <2> QED BY <1>2, <2>1, <2>2, SignedInRange
  <1>16. CASE sb = 0
    <2>1. v = -1 /\ Div("rem", in.a, in.b) = sa
      BY <1>9, <1>10, <1>12, <1>16
    <2>2. out.value % M = M - 1
      BY <1>13, <2>1, AllOnes
    <2>3. Signed(Bits, Div("rem", in.a, in.b)) = sa
      BY <1>15, <2>1
    <2> QED BY <1>2, <1>3, <1>4, <1>6, <1>16, <2>2, <2>3, SignedDivisionFits
  <1>17. CASE sb # 0 /\ sa = s /\ sb = -1
    <2>1. v = sa /\ Div("rem", in.a, in.b) = 0
      BY <1>9, <1>10, <1>12, <1>17
    <2>2. Signed(Bits, out.value) = sa /\ Signed(Bits, Div("rem", in.a, in.b)) = 0
      BY <1>14, <1>15, <2>1
    <2> QED BY <1>2, <1>3, <1>6, <1>7, <1>17, <2>2, SignedDivisionFits
  <1>18. CASE sb # 0 /\ ~(sa = s /\ sb = -1)
    <2>1. v = Quotient(sa, sb) /\ Div("rem", in.a, in.b) = Remainder(sa, sb)
      BY <1>9, <1>10, <1>12, <1>18
    <2> QED BY <1>2, <1>3, <1>6, <1>7, <1>14, <1>18, <2>1, SignedDivisionFits
  <1> QED BY <1>16, <1>17, <1>18

LEMMA DivisionOfDivu ==
    ASSUME IInv, stage = "executed", op.code = "divu"
    PROVE  Fits(FALSE, Bits, in.a, in.b, out.value, Div("remu", in.a, in.b))
  <1>1. /\ xlen \in {32, 64} /\ in.a \in Values /\ in.b \in Values
        /\ out.value = Write(Bits, in.a, Div("divu", in.a, in.b))
    <2>1. op.code \in ProcessRV64M.MulDiv /\ op.code \notin WordDivisions
          /\ op.code \notin {"mul", "mulh", "mulhsu", "mulhu"}
      BY DEF ProcessRV64M, ProcessRV32M, WordDivisions
    <2> QED BY <2>1, MulDivResult
  <1>2. Bits \in 1..64 /\ Bits \in 0..64
    BY <1>1, BitsFacts
  <1>3. in.a \in Nat /\ in.b \in Nat /\ in.a \in Int /\ in.b \in Int
    BY <1>1, ValueFacts
  <1>4. PICK M \in Nat \ {0} : M = Power[Bits]
    BY <1>2, Width
  <1>5. PICK ua \in 0..(M - 1), ub \in 0..(M - 1) : ua = in.a % M /\ ub = in.b % M
    BY <1>3, DivInt
  <1>6. Unsigned(in.a) = ua /\ Unsigned(in.b) = ub
    BY <1>4, <1>5 DEF Unsigned
  <1>7. Integer(in.a) % M = ua /\ (Integer(in.b) = 0 <=> ub = 0) /\ Integer(in.a) \in Int
    BY <1>2, <1>3, <1>4, <1>5, SignedFacts DEF Integer
  <1>8. Div("divu", in.a, in.b) = IF ub = 0 THEN -1 ELSE ua \div ub
    BY <1>6, <1>7 DEF Div
  <1>9. Div("remu", in.a, in.b) = IF ub = 0 THEN Integer(in.a) ELSE ua % ub
    BY <1>6, <1>7 DEF Div
  <1>10. ub # 0 => ua \div ub \in Int
    BY Division
  <1>11. PICK v \in Int : v = Div("divu", in.a, in.b)
    BY <1>8, <1>10
  <1>12. out.value % M = v % M
    <2>1. Write(Bits, in.a, v) % Power[Bits] = v % Power[Bits]
      BY <1>2, <1>3, <1>11, WriteFacts
    <2> QED BY <1>1, <1>4, <1>11, <2>1
  <1>13. CASE ub = 0
    <2>1. v = -1 /\ Div("remu", in.a, in.b) = Integer(in.a)
      BY <1>8, <1>9, <1>11, <1>13
    <2>2. out.value % M = M - 1
      BY <1>12, <2>1, AllOnes
    <2>3. Div("remu", in.a, in.b) % M = ua
      BY <1>7, <2>1
    <2> QED BY <1>2, <1>3, <1>4, <1>5, <1>13, <2>2, <2>3, UnsignedDivisionFits
  <1>14. CASE ub # 0
    <2>1. v = ua \div ub /\ Div("remu", in.a, in.b) = ua % ub
      BY <1>8, <1>9, <1>11, <1>14
    <2> QED BY <1>2, <1>3, <1>4, <1>5, <1>12, <1>14, <2>1, UnsignedDivisionFits
  <1> QED BY <1>13, <1>14

\* A word extended to a double word keeps its low part, and extending it again
\* changes nothing.
LEMMA WordResults ==
    ASSUME NEW v \in Int
    PROVE  /\ Int32(v) \in Int /\ SignExtend(WordBits, v) \in Int
           /\ Int32(v) \in 0..(Power[DoubleBits] - 1)
           /\ Int32(v) % Power[WordBits] = v % Power[WordBits]
           /\ SignExtend(WordBits, v) % Power[WordBits] = v % Power[WordBits]
           /\ SignExtend(WordBits, Int32(v)) = Int32(v) /\ Int32(Int32(v)) = Int32(v)
           /\ v \in 0..(Power[WordBits] - 1) => SignExtend(WordBits, v) = Int32(v)
  <1>1. PICK W \in Nat \ {0}, H \in Nat \ {0}, D \in Nat \ {0} : Sizes(W, H, D)
    BY SizesExist
  <1>2. W = Power[WordBits] /\ H = Power[WordBits - 1] /\ D = Power[DoubleBits] /\ W = 2 * H /\ D >= W /\ D = W * W
    BY <1>1 DEF Sizes
  <1>3. PICK low \in 0..(W - 1) : low = v % W
    BY DivInt
  <1>4. Wrap(v) \in 0..(D - 1) /\ Wrap(v) % W = low /\ (v \in 0..(D - 1) => Wrap(v) = v)
    BY <1>2, <1>3, WrapFacts
  <1>5. SignExtend(WordBits, v) = IF low >= H THEN D - W + low ELSE Wrap(v)
    BY <1>2, <1>3, Extended
  <1>6. PICK x \in 0..(D - 1) : x = Int32(v) /\ x = IF low >= H THEN D - W + low ELSE low
    <2>1. Int32(v) = IF low >= H THEN D - W + low ELSE low
      BY <1>2, <1>3, Extended
    <2>2. D >= W
      BY <1>2
    <2> QED BY <1>1, <1>3, <2>1, <2>2
  <1>7. low % W = low /\ (D - W + low) % W = low
    <2>1. PICK k \in Int : k = W - 1
      OBVIOUS
    <2>2. D - W + low = W * k + low /\ low = W * 0 + low
      BY <1>2, <2>1
    <2>3. PICK y \in Int : y = D - W + low /\ y = W * k + low
      BY <2>2
    <2>4. y % W = low
      BY <2>3, DivOf
    <2>5. low \in Int
      BY <1>3
    <2>6. low % W = low
      BY <2>2, <2>5, DivOf
    <2> QED BY <2>3, <2>4, <2>6
  <1>8. x % W = low
    BY <1>6, <1>7
  <1>9. x \in Int
    BY <1>1, <1>6
  <1>10. Wrap(x) = x
    BY <1>2, <1>6, <1>9, WrapFacts
  <1>11. SignExtend(WordBits, x) = IF low >= H THEN D - W + low ELSE Wrap(x)
    BY <1>2, <1>8, <1>9, Extended
  <1>12. Int32(x) = IF low >= H THEN D - W + low ELSE low
    BY <1>2, <1>8, <1>9, Extended
  <1>13. SignExtend(WordBits, v) % W = low
    BY <1>4, <1>5, <1>7
  <1>14. SignExtend(WordBits, v) \in Int
    BY <1>1, <1>3, <1>4, <1>5
  <1>15. ASSUME v \in 0..(W - 1) PROVE SignExtend(WordBits, v) = x
    <2>1. v \in 0..(D - 1) /\ v = W * 0 + v
      BY <1>1, <1>2, <1>15
    <2>2. low = v
      BY <1>3, <1>15, <2>1, DivOf
    <2> QED BY <1>4, <1>5, <1>6, <2>1, <2>2
  <1> QED BY <1>2, <1>3, <1>6, <1>8, <1>9, <1>10, <1>11, <1>12, <1>13, <1>14, <1>15

\* The low word of what a register of a 64-bit hart takes.
LEMMA LowWord ==
    ASSUME NEW old \in Nat, NEW v \in Int
    PROVE  Write(DoubleBits, old, v) % Power[WordBits] = v % Power[WordBits]
  <1>1. PICK W \in Nat \ {0}, H \in Nat \ {0}, D \in Nat \ {0} : Sizes(W, H, D)
    BY SizesExist
  <1>2. W = Power[WordBits] /\ D = Power[DoubleBits] /\ D = W * W
    BY <1>1 DEF Sizes
  <1>3. DoubleBits \in 0..64
    BY SizesExist
  <1>4. PICK x \in Nat : x = Write(DoubleBits, old, v) /\ x % Power[DoubleBits] = v % Power[DoubleBits]
    BY <1>3, WriteFacts
  <1>5. (x % (W * W)) % W = x % W /\ (v % (W * W)) % W = v % W
    <2>1. x \in Int
      BY <1>4
    <2> QED BY <2>1, Nested
  <1> QED BY <1>2, <1>4, <1>5

LEMMA DivisionOfDivw ==
    ASSUME IInv, stage = "executed", op.code = "divw"
    PROVE  Fits(TRUE, WordBits, in.a, in.b, out.value, MulDivWord("remw", in.a, in.b))
  <1>1. /\ xlen = 64 /\ in.a \in Values /\ in.b \in Values /\ ~Kills("divw", in.b)
        /\ out.value = Write(Bits, in.a, MulDivWord("divw", in.a, in.b))
    <2>1. op.code \in ProcessRV64M.MulDiv /\ op.code \in WordDivisions
      BY DEF ProcessRV64M, ProcessRV32M, WordDivisions
    <2> QED BY <2>1, MulDivResult
  <1>2. Bits = DoubleBits /\ WordBits \in 1..64 /\ DoubleBits \in 1..64
    BY <1>1, BitsFacts, SizesExist
  <1>3. in.a \in Nat /\ in.b \in Nat /\ in.a \in Int /\ in.b \in Int /\ in.b < Power[DoubleBits]
    BY <1>1, ValueFacts
  <1>4. PICK W \in Nat \ {0}, H \in Nat \ {0}, D \in Nat \ {0} : Sizes(W, H, D)
    BY SizesExist
  <1>5. W = Power[WordBits] /\ H = Power[WordBits - 1] /\ D = Power[DoubleBits] /\ W = 2 * H
    BY <1>4 DEF Sizes
  <1>6. PICK sa \in Int, sb \in Int : sa = Signed(WordBits, in.a) /\ sb = Signed(WordBits, in.b)
                                       /\ -H <= sa /\ sa < H /\ -H <= sb /\ sb < H
    BY <1>2, <1>3, <1>5, SignedFacts
  <1>7. sa % W = in.a % W /\ (sb = 0 <=> in.b % W = 0)
    <2>1. Signed(WordBits, in.a) % Power[WordBits] = in.a % Power[WordBits]
      BY <1>2, <1>3, SignedFacts
    <2>2. Signed(WordBits, in.b) = 0 <=> in.b % Power[WordBits] = 0
      BY <1>2, <1>3, SignedFacts
    <2> QED BY <1>5, <1>6, <2>1, <2>2
  <1>8. PICK s \in Int : s = Smallest(WordBits) /\ s = -H
    BY <1>5 DEF Smallest
  <1>9. sb = 0 <=> Signed(DoubleBits, in.b) = 0
    <2>1. Signed(DoubleBits, in.b) = 0 <=> in.b % D = 0
      BY <1>2, <1>3, <1>5, SignedFacts
    <2>2. in.b % D = in.b
      <3>1. in.b = D * 0 + in.b /\ in.b \in 0..(D - 1)
        BY <1>3, <1>5
      <3> QED BY <1>3, <3>1, DivOf
    <2>3. in.b = 0 => in.b % W = 0
      <3>1. 0 % W = 0
        OBVIOUS
      <3> QED BY <3>1
    <2>4. in.b = 0 \/ in.b % W # 0
      BY <1>1, <1>5 DEF Kills
    <2> QED BY <1>7, <2>1, <2>2, <2>3, <2>4
  <1> DEFINE v == MulDivWord("divw", in.a, in.b)
             u == MulDivWord("remw", in.a, in.b)
  <1>10. v = IF sa = s /\ sb = -1 THEN SignExtend(WordBits, H)
             ELSE IF sb = 0 THEN -1 ELSE SignExtend(WordBits, Int32(Quotient(sa, sb)))
    BY <1>5, <1>6, <1>8, <1>9 DEF MulDivWord
  <1>11. u = IF sa = s /\ sb = -1 THEN 0
             ELSE IF sb = 0 THEN SignExtend(WordBits, Int32(sa)) ELSE SignExtend(WordBits, Int32(Remainder(sa, sb)))
    BY <1>6, <1>8 DEF MulDivWord
  <1> HIDE DEF v, u
  <1>12. out.value = Write(DoubleBits, in.a, v)
    BY <1>1, <1>2 DEF v
  <1>13. ASSUME NEW w \in Int, v = w PROVE out.value % W = w % W
    BY <1>3, <1>5, <1>12, <1>13, LowWord
  <1>14. CASE sb = 0
    <2>1. v = -1 /\ u = SignExtend(WordBits, Int32(sa))
      BY <1>10, <1>11, <1>14
    <2>2. out.value % W = W - 1
      BY <1>13, <2>1, AllOnes
    <2>3. u % W = in.a % W
      BY <1>5, <1>7, <2>1, WordResults
    <2>4. Signed(WordBits, u) = sa
      BY <1>5, <1>6, <2>3, SignedMod
    <2> QED BY <1>2, <1>3, <1>5, <1>6, <1>14, <2>2, <2>4, SignedDivisionFits DEF u
  <1>15. CASE sb # 0 /\ sa = s /\ sb = -1
    <2>1. v = SignExtend(WordBits, H) /\ u = 0
      BY <1>10, <1>11, <1>15
    <2>2. v \in Int /\ v % W = H % W
      BY <1>5, <2>1, WordResults
    <2>3. H % W = in.a % W
      <3>1. PICK n \in Int : n + 1 = 0
        OBVIOUS
      <3>2. s = W * n + H /\ H = W * 0 + H /\ H \in 0..(W - 1) /\ H \in Int
        BY <1>5, <1>8, <3>1
      <3>3. s % W = H /\ H % W = H
        BY <3>1, <3>2, DivOf
      <3> QED BY <1>7, <1>15, <3>3
    <2>4. out.value % W = in.a % W
      BY <1>13, <2>2, <2>3
    <2>5. Signed(WordBits, out.value) = sa
      BY <1>5, <1>6, <2>4, SignedMod
    <2>6. Signed(WordBits, u) = 0
      <3>1. -Power[WordBits - 1] <= 0 /\ 0 < Power[WordBits - 1] /\ 0 \in Int
        BY <1>5
      <3> QED BY <1>2, <2>1, <3>1, SignedInRange
    <2> QED BY <1>2, <1>3, <1>6, <1>8, <1>15, <2>5, <2>6, SignedDivisionFits DEF u
  <1>16. CASE sb # 0 /\ ~(sa = s /\ sb = -1)
    <2>1. PICK q \in Int, r \in Int : q = Quotient(sa, sb) /\ r = Remainder(sa, sb)
      <3>1. PICK q \in Int, r \in Int, n \in Nat, m \in Nat : Divides(sa, sb, q, r, n, m)
        BY <1>6, <1>16, QuotientFacts
      <3>2. q = Quotient(sa, sb) /\ r = Remainder(sa, sb)
        BY <3>1 DEF Divides
      <3> QED BY <3>1, <3>2
    <2>2. v = SignExtend(WordBits, Int32(q)) /\ u = SignExtend(WordBits, Int32(r))
      BY <1>10, <1>11, <1>16, <2>1
    <2>3. v \in Int /\ v % W = q % W /\ u % W = r % W
      BY <1>5, <2>2, WordResults
    <2>4. out.value % W = q % W
      BY <1>13, <2>3
    <2>5. Signed(WordBits, out.value) = Signed(WordBits, q) /\ Signed(WordBits, u) = Signed(WordBits, r)
      BY <1>5, <2>3, <2>4, SignedMod
    <2> QED BY <1>2, <1>3, <1>6, <1>8, <1>16, <2>1, <2>5, SignedDivisionFits DEF u
  <1> QED BY <1>14, <1>15, <1>16

LEMMA DivisionOfDivuw ==
    ASSUME IInv, stage = "executed", op.code = "divuw"
    PROVE  Fits(FALSE, WordBits, in.a, in.b, out.value, MulDivWord("remuw", in.a, in.b))
  <1>1. /\ xlen = 64 /\ in.a \in Values /\ in.b \in Values
        /\ out.value = Write(Bits, in.a, MulDivWord("divuw", in.a, in.b))
    <2>1. op.code \in ProcessRV64M.MulDiv /\ op.code \in WordDivisions
      BY DEF ProcessRV64M, ProcessRV32M, WordDivisions
    <2> QED BY <2>1, MulDivResult
  <1>2. Bits = DoubleBits /\ WordBits \in 1..64
    BY <1>1, BitsFacts, SizesExist
  <1>3. in.a \in Nat /\ in.a \in Int /\ in.b \in Int
    BY <1>1, ValueFacts
  <1>4. PICK W \in Nat \ {0} : W = Power[WordBits]
    BY <1>2, Width
  <1>5. PICK ua \in 0..(W - 1), ub \in 0..(W - 1) : ua = in.a % W /\ ub = in.b % W
    BY <1>3, DivInt
  <1>6. PICK sa \in Int : sa = Signed(WordBits, in.a) /\ sa % W = ua
    <2>1. Signed(WordBits, in.a) \in Int /\ Signed(WordBits, in.a) % Power[WordBits] = in.a % Power[WordBits]
      BY <1>2, <1>3, SignedFacts
    <2> QED BY <1>4, <1>5, <2>1
  <1> DEFINE v == MulDivWord("divuw", in.a, in.b)
             u == MulDivWord("remuw", in.a, in.b)
  <1>7. v = IF ub = 0 THEN -1 ELSE SignExtend(WordBits, ua \div ub)
    BY <1>4, <1>5 DEF MulDivWord
  <1>8. u = IF ub = 0 THEN SignExtend(WordBits, Int32(sa)) ELSE SignExtend(WordBits, ua % ub)
    BY <1>4, <1>5, <1>6 DEF MulDivWord
  <1> HIDE DEF v, u
  <1>9. ASSUME NEW w \in Int, v = w PROVE out.value % W = w % W
    BY <1>1, <1>2, <1>3, <1>4, <1>9, LowWord DEF v
  <1>10. CASE ub = 0
    <2>1. v = -1 /\ u = SignExtend(WordBits, Int32(sa))
      BY <1>7, <1>8, <1>10
    <2>2. out.value % W = W - 1
      BY <1>9, <2>1, AllOnes
    <2>3. u % W = ua
      BY <1>4, <1>6, <2>1, WordResults
    <2> QED BY <1>2, <1>3, <1>4, <1>5, <1>10, <2>2, <2>3, UnsignedDivisionFits DEF u
  <1>11. CASE ub # 0
    <2>1. ub \in Nat \ {0} /\ ua \in Nat
      BY <1>5, <1>11
    <2>2. PICK q \in Int, r \in Int : q = ua \div ub /\ r = ua % ub
      <3>1. ua \div ub \in Int /\ ua % ub \in Int
        BY <2>1, Division
      <3> QED BY <3>1
    <2>3. v = SignExtend(WordBits, q) /\ u = SignExtend(WordBits, r)
      BY <1>7, <1>8, <1>11, <2>2
    <2>4. v \in Int /\ v % W = q % W /\ u % W = r % W
      BY <1>4, <2>3, WordResults
    <2>5. out.value % W = q % W
      BY <1>9, <2>4
    <2> QED BY <1>2, <1>3, <1>4, <1>5, <1>11, <2>2, <2>4, <2>5, UnsignedDivisionFits DEF u
  <1> QED BY <1>10, <1>11

\* The one division that ends the emulator.
LEMMA KilledByDivw ==
    ASSUME IInv, stage = "exit", out # NoOut
    PROVE  op.code = "divw" /\ in.b # 0 /\ in.b % Power[WordBits] = 0
  <1>1. /\ xlen \in {32, 64} /\ Ran /\ out.end = "SIGFPE"
        /\ \E f : Listed(xlen, op.class, op.code, f)
    BY DEF IInv
  <1>2. op.class \in {"I", "M", "A", "F", "D", "C"}
    BY <1>1 DEF Listed
  <1>3. PICK h : Handles(xlen, op.class, h, op.code) /\ out = Run(op, h, in)
    BY <1>1, <1>2, HandlerHandles DEF Ran, RanAs
  <1>4. h \in {"Jal", "Jalr"} => op.code \in {"jal", "jalr"}
    BY <1>3 DEF Handles, HandlesI, HandlesM, HandlesA, HandlesFp, HandlesC
  <1>5. Kills(op.code, in.b)
    BY <1>1, <1>3, <1>4, RunEnd
  <1> QED BY <1>5 DEF Kills

LEMMA DivisionInv == IInv => DivisionLaw
  <1> SUFFICES ASSUME IInv PROVE DivisionLaw
    OBVIOUS
  <1>1. ASSUME stage = "executed", op.code \in {"div", "divu"}
        PROVE  Fits(op.code = "div", Bits, in.a, in.b, out.value,
                    Div(IF op.code = "div" THEN "rem" ELSE "remu", in.a, in.b))
    <2>1. CASE op.code = "div"
      <3>1. (op.code = "div") = TRUE
        BY <2>1
      <3> QED BY <1>1, <2>1, <3>1, DivisionOfDiv
    <2>2. CASE op.code = "divu"
      <3>1. (op.code = "div") = FALSE
        BY <2>2
      <3> QED BY <1>1, <2>2, <3>1, DivisionOfDivu
    <2> QED BY <1>1, <2>1, <2>2
  <1>2. ASSUME stage = "executed", op.code \in {"divw", "divuw"}
        PROVE  Fits(op.code = "divw", WordBits, in.a, in.b, out.value,
                    MulDivWord(IF op.code = "divw" THEN "remw" ELSE "remuw", in.a, in.b))
    <2>1. CASE op.code = "divw"
      <3>1. (op.code = "divw") = TRUE
        BY <2>1
      <3> QED BY <1>2, <2>1, <3>1, DivisionOfDivw
    <2>2. CASE op.code = "divuw"
      <3>1. (op.code = "divw") = FALSE
        BY <2>2
      <3> QED BY <1>2, <2>2, <3>1, DivisionOfDivuw
    <2> QED BY <1>2, <2>1, <2>2
  <1> QED BY <1>1, <1>2, KilledByDivw DEF DivisionLaw

\* A quotient lies between what its dividend lies between.
LEMMA QuotientRange ==
    ASSUME NEW m \in Nat \ {0}, NEW p \in Int, NEW lo \in Int, NEW hi \in Int,
           m * lo <= p, p < m * hi
    PROVE  lo <= p \div m /\ p \div m < hi
  <1>1. PICK s \in Int, t \in 0..(m - 1) : s = p \div m /\ p = m * s + t
    BY DivInt
  <1>2. CASE s >= hi
    <2>1. PICK k \in Nat : s = hi + k
      BY <1>2
    <2>2. m * s = m * hi + m * k /\ m * k >= 0
      BY <2>1
    <2> QED BY <1>1, <2>2
  <1>3. CASE s < lo
    <2>1. PICK k \in Nat : lo = s + k + 1
      BY <1>3
    <2>2. m * lo = m * s + m * k + m /\ m * k >= 0
      BY <2>1
    <2> QED BY <1>1, <2>2
  <1> QED BY <1>1, <1>2, <1>3

LEMMA ProductRange ==
    ASSUME NEW m \in Nat \ {0}, NEW h \in Nat \ {0}, m = 2 * h, NEW x \in Int, NEW y \in Int
    PROVE  /\ x \in 0..(m - 1) /\ y \in 0..(m - 1) => m * 0 <= x * y /\ x * y < m * m
           /\ -h <= x /\ x < h /\ -m < y /\ y < m => m * (-h) <= x * y /\ x * y < m * h
  <1>1. ASSUME x \in 0..(m - 1), y \in 0..(m - 1) PROVE m * 0 <= x * y /\ x * y < m * m
    BY <1>1
  <1>2. ASSUME -h <= x, x < h, -m < y, y < m PROVE m * (-h) <= x * y /\ x * y < m * h
    BY <1>2
  <1> QED BY <1>1, <1>2

LEMMA MulInv == IInv => MulLaw
  <1> SUFFICES ASSUME IInv, stage = "executed", op.code \in {"mulh", "mulhsu", "mulhu"}
               PROVE  LET left  == IF op.code = "mulhu" THEN Unsigned(in.a) ELSE Integer(in.a)
                          right == IF op.code = "mulh" THEN Integer(in.b) ELSE Unsigned(in.b)
                          high  == IF op.code = "mulhu" THEN Unsigned(out.value) ELSE Integer(out.value)
                      IN  high * Power[Bits] + Unsigned(Mul("mul", in.a, in.b)) = left * right
    BY DEF MulLaw
  <1>1. /\ xlen \in {32, 64} /\ in.a \in Values /\ in.b \in Values
        /\ out.value = Write(Bits, in.a, Mul(op.code, in.a, in.b))
    <2>1. op.code \in ProcessRV64M.MulDiv /\ op.code \notin WordDivisions
      BY DEF ProcessRV64M, ProcessRV32M, WordDivisions
    <2> QED BY <2>1, MulDivResult
  <1>2. Bits \in 1..64 /\ Bits \in 0..64
    BY <1>1, BitsFacts
  <1>3. in.a \in Nat /\ in.a \in Int /\ in.b \in Int
    BY <1>1, ValueFacts
  <1>4. PICK M \in Nat \ {0}, H \in Nat \ {0} : M = Power[Bits] /\ H = Power[Bits - 1] /\ M = 2 * H
    BY <1>2, Width
  <1>5. PICK ua \in Int, ub \in Int : /\ ua = Unsigned(in.a) /\ ub = Unsigned(in.b)
                                      /\ ua = in.a % M /\ ub = in.b % M
                                      /\ ua \in 0..(M - 1) /\ ub \in 0..(M - 1)
    <2>1. in.a % M \in 0..(M - 1) /\ in.b % M \in 0..(M - 1)
      BY <1>3, DivInt
    <2> QED BY <1>4, <2>1 DEF Unsigned
  <1>6. PICK sa \in Int, sb \in Int : /\ sa = Integer(in.a) /\ sb = Integer(in.b)
                                      /\ -H <= sa /\ sa < H /\ -H <= sb /\ sb < H
                                      /\ sa % M = ua /\ sb % M = ub
    <2>1. /\ Integer(in.a) \in Int /\ -Power[Bits - 1] <= Integer(in.a) /\ Integer(in.a) < Power[Bits - 1]
          /\ Integer(in.a) % Power[Bits] = in.a % Power[Bits]
      BY <1>2, <1>3, SignedFacts DEF Integer
    <2>2. /\ Integer(in.b) \in Int /\ -Power[Bits - 1] <= Integer(in.b) /\ Integer(in.b) < Power[Bits - 1]
          /\ Integer(in.b) % Power[Bits] = in.b % Power[Bits]
      BY <1>2, <1>3, SignedFacts DEF Integer
    <2> QED BY <1>4, <1>5, <2>1, <2>2
  <1>7. PICK left \in Int, right \in Int :
           /\ left = IF op.code = "mulhu" THEN ua ELSE sa
           /\ right = IF op.code = "mulh" THEN sb ELSE ub
    OBVIOUS
  <1>8. PICK p \in Int, s \in Int, t \in 0..(M - 1) :
           p = left * right /\ s = p \div M /\ t = p % M /\ p = M * s + t
    <2>1. PICK p \in Int : p = left * right
      BY <1>7
    <2>2. p \div M \in Int /\ p % M \in 0..(M - 1) /\ p = M * (p \div M) + (p % M)
      BY DivInt
    <2>3. PICK s \in Int, t \in 0..(M - 1) : s = p \div M /\ t = p % M
      BY <2>2
    <2>4. p = M * s + t
      BY <2>2, <2>3
    <2> QED BY <2>1, <2>3, <2>4, Zenon
  <1>9. Mul(op.code, in.a, in.b) = s
    <2>1. Mul(op.code, in.a, in.b) = (left * right) \div M
      BY <1>4, <1>5, <1>6, <1>7 DEF Mul
    <2> QED BY <1>8, <2>1
  <1>10. Unsigned(Mul("mul", in.a, in.b)) = t
    <2>1. Mul("mul", in.a, in.b) = sa * sb
      BY <1>6 DEF Mul
    <2>2. left % M = sa % M /\ right % M = sb % M
      <3>1. ua % M = ua /\ ub % M = ub
        <4>1. ua = M * 0 + ua /\ ub = M * 0 + ub
          BY <1>5
        <4> QED BY <1>5, <4>1, DivOf
      <3> QED BY <1>6, <1>7, <3>1
    <2>3. (left * right) % M = (sa * sb) % M
      <3>1. left \in Int /\ right \in Int /\ sa \in Int /\ sb \in Int /\ M \in Nat \ {0}
        BY <1>4, <1>6, <1>7
      <3>2. left % M = sa % M
        BY <2>2
      <3>3. right % M = sb % M
        BY <2>2
      <3>4. PICK j \in Int : left = sa + M * j
        BY <3>1, <3>2, SameRemainder, ZenonT(60)
      <3>5. PICK k \in Int : right = sb + M * k
        BY <3>1, <3>3, SameRemainder, ZenonT(60)
      <3>6. PICK n \in Int, w \in Int : n = j * sb + sa * k + M * (j * k) /\ w = sa * sb
        BY <3>1
      <3>7. left * right = w + M * n
        BY <3>1, <3>4, <3>5, <3>6
      <3>8. (w + M * n) % M = w % M
        BY <3>1, <3>6, Shifted
      <3> QED BY <3>6, <3>7, <3>8
    <2> QED BY <1>4, <1>8, <2>1, <2>3 DEF Unsigned
  <1>11. out.value % M = s % M
    <2>1. Write(Bits, in.a, s) % Power[Bits] = s % Power[Bits]
      BY <1>2, <1>3, WriteFacts
    <2> QED BY <1>1, <1>4, <1>9, <2>1
  <1>12. PICK high \in Int : /\ high = IF op.code = "mulhu" THEN Unsigned(out.value) ELSE Integer(out.value)
                             /\ high = s
    <2>1. CASE op.code = "mulhu"
      <3>1. left = ua /\ right = ub
        BY <1>7, <2>1
      <3>2. M * 0 <= p /\ p < M * M
        BY <1>4, <1>5, <1>8, <3>1, ProductRange
      <3>3. 0 <= s /\ s < M
        <4>1. 0 \in Int /\ M \in Int
          OBVIOUS
        <4> QED BY <1>8, <3>2, <4>1, QuotientRange
      <3>4. s = M * 0 + s /\ s \in 0..(M - 1)
        BY <3>3
      <3>5. s % M = s
        BY <3>4, DivOf
      <3> QED BY <1>4, <1>11, <2>1, <3>5 DEF Unsigned
    <2>2. CASE op.code # "mulhu"
      <3>1. left = sa /\ -M < right /\ right < M
        <4>1. CASE op.code = "mulh"
          <5>1. right = sb
            BY <1>7, <4>1
          <5> QED BY <1>4, <1>6, <1>7, <2>2, <5>1
        <4>2. CASE op.code # "mulh"
          <5>1. right = ub
            BY <1>7, <4>2
          <5> QED BY <1>4, <1>5, <1>7, <2>2, <5>1
        <4> QED BY <4>1, <4>2
      <3>2. M * (-H) <= p /\ p < M * H
        BY <1>4, <1>6, <1>8, <3>1, ProductRange
      <3>3. -H <= s /\ s < H
        <4>1. -H \in Int /\ H \in Int
          OBVIOUS
        <4> QED BY <1>8, <3>2, <4>1, QuotientRange
      <3>4. Signed(Bits, s) = s
        BY <1>2, <1>4, <3>3, SignedInRange
      <3>5. Signed(Bits, out.value) = Signed(Bits, s)
        BY <1>4, <1>11, SignedMod
      <3> QED BY <2>2, <3>4, <3>5 DEF Integer
    <2> QED BY <2>1, <2>2
  <1>13. high * M + t = left * right
    <2>1. s * M = M * s
      BY <1>8
    <2> QED BY <1>8, <1>12, <2>1
  <1> QED BY <1>4, <1>5, <1>6, <1>7, <1>10, <1>12, <1>13

\* The division and multiplication handlers of Executor.cpp satisfy DivisionLaw and
\* MulLaw for every width and all operands.
THEOREM MulDivs == Spec => []MulDivLaw
  <1>1. IInv => MulDivLaw
    BY DivisionInv, MulInv DEF MulDivLaw
  <1> QED BY Inductive, <1>1, PTL

-----------------------------------------------------------------------------
(* Word operations.                                                        *)

LEMMA LowSigned ==
    ASSUME NEW v \in Int
    PROVE  /\ v % Power[WordBits] \in 0..(Power[WordBits] - 1) /\ v % Power[WordBits] \in Nat
           /\ (v % Power[WordBits]) % Power[WordBits] = v % Power[WordBits]
           /\ Signed(WordBits, v % Power[WordBits]) = Signed(WordBits, v)
  <1>1. PICK W \in Nat \ {0} : W = Power[WordBits]
    BY SizesExist DEF Sizes
  <1>2. PICK t \in 0..(W - 1) : t = v % W
    BY DivInt
  <1>3. t % W = t
    <2>1. t = W * 0 + t /\ t \in Int /\ t \in 0..(W - 1) /\ W \in Nat \ {0}
      BY <1>1, <1>2
    <2> QED BY <2>1, DivOf
  <1>4. Signed(WordBits, t) = Signed(WordBits, v)
    BY <1>1, <1>2, <1>3, SignedMod
  <1> QED BY <1>1, <1>2, <1>3, <1>4

\* The width of a double word divides what a word counts to, so a shift count can be
\* taken from the low word.
LEMMA LowCount ==
    ASSUME NEW v \in Int
    PROVE  /\ (v % Power[WordBits]) % DoubleBits = v % DoubleBits
           /\ v % DoubleBits \in Nat
  <1>0. DoubleBits \in Nat \ {0} /\ \E k \in Nat \ {0} : Power[WordBits] = DoubleBits * k
    <2>1. Power[3] = 8 /\ Power[4] = 16 /\ Power[5] = 32 /\ Power[6] = 64
      <3>1. Power[3 + 1] = 2 * Power[3] /\ Power[4 + 1] = 2 * Power[4] /\ Power[5 + 1] = 2 * Power[5]
        BY PowerDef
      <3> QED BY <3>1, SmallPowers
    <2>2. Power[4] = Power[3] * Power[1] /\ Power[8] = Power[4] * Power[4]
          /\ Power[16] = Power[5] * Power[11] /\ Power[32] = Power[6] * Power[26]
      <3>1. 3 \in 0..64 /\ 1 \in 0..(64 - 3) /\ 4 \in 0..64 /\ 4 \in 0..(64 - 4)
            /\ 5 \in 0..64 /\ 11 \in 0..(64 - 5) /\ 6 \in 0..64 /\ 26 \in 0..(64 - 6)
        OBVIOUS
      <3>2. Power[3 + 1] = Power[3] * Power[1]
        BY <3>1, PowerSum
      <3>3. Power[4 + 4] = Power[4] * Power[4]
        BY <3>1, PowerSum
      <3>4. Power[5 + 11] = Power[5] * Power[11]
        BY <3>1, PowerSum
      <3>5. Power[6 + 26] = Power[6] * Power[26]
        BY <3>1, PowerSum
      <3>6. 3 + 1 = 4 /\ 4 + 4 = 8 /\ 5 + 11 = 16 /\ 6 + 26 = 32
        OBVIOUS
      <3> QED BY <3>2, <3>3, <3>4, <3>5, <3>6
    <2>3. Power[1] \in Nat \ {0} /\ Power[4] \in Nat \ {0} /\ Power[11] \in Nat \ {0} /\ Power[26] \in Nat \ {0}
      BY PowerDef
    <2>4. CASE WordBits = 4
      BY <2>1, <2>2, <2>3, <2>4 DEF DoubleBits
    <2>5. CASE WordBits = 8
      BY <2>1, <2>2, <2>3, <2>5 DEF DoubleBits
    <2>6. CASE WordBits = 16
      BY <2>1, <2>2, <2>3, <2>6 DEF DoubleBits
    <2>7. CASE WordBits = 32
      BY <2>1, <2>2, <2>3, <2>7 DEF DoubleBits
    <2> QED BY <2>4, <2>5, <2>6, <2>7, WordBitsAssumption DEF WordBitsAssumption
  <1>1. PICK d \in Nat \ {0}, k \in Nat \ {0} : d = DoubleBits /\ Power[WordBits] = d * k
    BY <1>0
  <1>2. (v % (d * k)) % d = v % d /\ v % d \in 0..(d - 1)
    BY Nested, DivInt
  <1> QED BY <1>1, <1>2

\* The factor of a shift.
LEMMA ShiftPower ==
    ASSUME NEW bits \in 1..64, NEW n \in Int
    PROVE  n % bits \in 0..(bits - 1) /\ n % bits \in 0..64 /\ Power[n % bits] \in Nat \ {0}
  <1>1. bits \in Nat \ {0}
    OBVIOUS
  <1>2. PICK k \in 0..(bits - 1) : k = n % bits
    BY <1>1, DivInt
  <1>3. k \in 0..64
    BY <1>2
  <1> QED BY <1>2, <1>3, PowerDef

LEMMA LowShifts ==
    ASSUME NEW v \in Int, NEW n \in Int
    PROVE  /\ Shl(WordBits, v % Power[WordBits], n) = Shl(WordBits, v, n) /\ Shl(WordBits, v, n) \in Int
           /\ Shr(WordBits, v % Power[WordBits], n) = Shr(WordBits, v, n)
           /\ Shr(WordBits, v, n) \in 0..(Power[WordBits] - 1)
           /\ Sar(WordBits, v % Power[WordBits], n) = Sar(WordBits, v, n) /\ Sar(WordBits, v, n) \in Int
  <1>1. PICK W \in Nat \ {0} : W = Power[WordBits]
    BY SizesExist DEF Sizes
  <1>2. PICK s \in Int, t \in 0..(W - 1) : t = v % W /\ v = W * s + t
    BY DivInt
  <1>3. PICK p \in Nat \ {0} : p = Power[n % WordBits]
    BY SizesExist, ShiftPower
  <1>4. t % W = t /\ Signed(WordBits, t) = Signed(WordBits, v) /\ t \in Nat
    BY <1>1, <1>2, LowSigned
  <1>5. PICK g \in Int : g = Signed(WordBits, v)
    BY SizesExist, SignedFacts
  <1>6. (v * p) % W = (t * p) % W /\ (v * p) % W \in Int
    <2>1. PICK x \in Int, y \in Int : x = t * p /\ y = s * p
      BY <1>2, <1>3
    <2>2. v * p = x + W * y
      BY <1>2, <1>3, <2>1
    <2>3. (x + W * y) % W = x % W /\ x % W \in 0..(W - 1)
      BY <1>1, <2>1, Shifted, DivInt
    <2> QED BY <1>1, <2>1, <2>2, <2>3
  <1>7. t \div p \in 0..(W - 1)
    <2>0. t \div p \in Nat /\ t % p \in 0..(p - 1) /\ t = p * (t \div p) + (t % p)
      <3>1. t \in Nat /\ t \in Int /\ p \in Nat \ {0}
        BY <1>3, <1>4
      <3>2. t \div p \in Nat
        BY <3>1, Division
      <3> QED BY <3>1, <3>2, DivInt
    <2>1. PICK q \in Nat, r \in Nat : q = t \div p /\ r = t % p /\ t = p * q + r
      BY <1>3, <2>0
    <2>2. p * q >= q
      <3>1. ASSUME NEW x \in Nat \ {0}, NEW y \in Nat PROVE x * y >= y
        OBVIOUS
      <3>2. p \in Nat \ {0} /\ q \in Nat
        BY <1>3, <2>1
      <3> QED BY <3>1, <3>2
    <2> QED BY <1>1, <1>2, <2>1, <2>2
  <1>8. (g \div p) % W \in Int
    <2>1. g \div p \in Int
      BY <1>3, <1>5, DivInt
    <2>2. (g \div p) % W \in 0..(W - 1)
      BY <1>1, <2>1, DivInt
    <2> QED BY <1>1, <2>2
  <1> QED BY <1>1, <1>2, <1>3, <1>4, <1>5, <1>6, <1>7, <1>8 DEF Shl, Shr, Sar

\* The word operations of a 64-bit hart by their handlers.
WordPair(h, code) ==
    \/ h = "Alu" /\ code \in {"addw", "subw"}
    \/ h = "AluImm" /\ code = "addiw"
    \/ h = "Shift" /\ code \in {"sllw", "srlw", "sraw"}
    \/ h = "ShiftImm" /\ code \in {"slliw", "srliw", "sraiw"}
    \/ h = "Load" /\ code = "lw"
    \/ h = "C_Load" /\ code = "c_lw"
    \/ h = "C_LoadSP" /\ code = "c_lwsp"
    \/ h = "LoadReserved" /\ code = "lr_w"
    \/ h = "Atomic" /\ code \in AtomicWords
    \/ h = "C_Alu" /\ code \in {"c_addw", "c_subw"}
    \/ h = "C_AluImm" /\ code = "c_addiw"
    \/ h = "MulDiv" /\ code \in WordDivisions

\* What they write to the register.
WordValue(h, code, i) ==
    CASE h = "Alu"      -> Alu(code, i.a, i.b)
      [] h = "AluImm"   -> AluImm(code, i.a, i.imm)
      [] h = "Shift"    -> Shift(code, i.a, i.b)
      [] h = "ShiftImm" -> ShiftImm(code, i.a, i.imm)
      [] h \in {"Load", "C_Load", "C_LoadSP"} -> LoadValue(code, i.mem)
      [] h \in {"LoadReserved", "Atomic"} -> SignExtend(WordBits, i.mem % Power[WordBits])
      [] h = "C_Alu"    -> C_Alu(code, i.a, i.b)
      [] h = "C_AluImm" -> C_AluImm(code, i.a, i.imm)
      [] h = "MulDiv"   -> MulDivWord(code, i.a, i.b)

LEMMA WordHandler ==
    ASSUME NEW class, NEW h, NEW code, Handles(64, class, h, code), code \in WordOps
    PROVE  WordPair(h, code)
  <1>1. {WordCode[amo] : amo \in Amos} = AtomicWords
    BY AmoCodes
  <1>2. code \in {"addw", "subw", "addiw", "sllw", "srlw", "sraw", "slliw", "srliw", "sraiw", "lw", "lr_w",
                  "c_addw", "c_subw", "c_addiw", "c_lw", "c_lwsp", "mulw", "divw", "divuw", "remw", "remuw"}
                 \cup AtomicWords
    BY <1>1 DEF WordOps, WordDivisions
  <1>3. CASE class = "I"
    BY <1>2, <1>3 DEF Handles, HandlesI, WordPair, AtomicWords
  <1>4. CASE class = "M"
    BY <1>2, <1>4 DEF Handles, HandlesM, ListedM, WordPair, WordDivisions, AtomicWords
  <1>5. CASE class = "A"
    BY <1>2, <1>5 DEF Handles, HandlesA, WordPair, AtomicDoubles, AtomicWords
  <1>6. CASE class \in {"F", "D"}
    BY <1>2, <1>6 DEF Handles, HandlesFp, ProcessRVF, ProcessRVD, AtomicWords
  <1>7. CASE class = "C"
    BY <1>2, <1>7 DEF Handles, HandlesC, WordPair, AtomicWords
  <1> QED BY <1>3, <1>4, <1>5, <1>6, <1>7 DEF Handles

LEMMA WordRuns ==
    ASSUME NEW o, NEW h, NEW i, WordPair(h, o.code), h = "MulDiv" => ~Kills(o.code, i.b)
    PROVE  Run(o, h, i).value = Write(Bits, i.a, WordValue(h, o.code, i))
  <1> DEFINE r == Stepped(o, i)
  <1>1. r = [value |-> r.value, link |-> r.link, pc |-> r.pc, mem |-> r.mem,
             accesses |-> {}, end |-> "done"]
    BY DEF Stepped
  <1> HIDE DEF r
  <1>2. \A v : Result(r, i, v).value = Write(Bits, i.a, v) /\ "mem" \in DOMAIN Result(r, i, v)
                 /\ "accesses" \in DOMAIN Result(r, i, v)
    BY <1>1 DEF Result
  <1>3. CASE h \in {"Alu", "AluImm", "Shift", "ShiftImm", "C_Alu", "C_AluImm"}
    <2>1. Run(o, h, i) = Result(r, i, WordValue(h, o.code, i))
      BY <1>3 DEF Run, WordValue, r
    <2> QED BY <1>2, <2>1
  <1>4. CASE h = "MulDiv"
    <2>1. o.code \in WordDivisions
      BY <1>4 DEF WordPair
    <2>2. Run(o, h, i) = Result(r, i, MulDivWord(o.code, i.a, i.b))
      BY <1>4, <2>1 DEF Run, r
    <2> QED BY <1>2, <1>4, <2>2 DEF WordValue
  <1>5. CASE h \in {"Load", "C_Load", "C_LoadSP"}
    <2>1. o.code \notin FpMoves
      BY <1>5 DEF WordPair, FpMoves
    <2>2. Run(o, h, i) = Load(o, i, r)
      BY <1>5, <2>1 DEF Run, r
    <2>3. PICK v : v = LoadValue(o.code, i.mem)
      OBVIOUS
    <2>4. Load(o, i, r).value = Result(r, i, v).value
      BY <1>2, <2>3 DEF Load
    <2>5. WordValue(h, o.code, i) = v
      BY <1>5, <2>3 DEF WordValue
    <2> QED BY <1>2, <2>2, <2>4, <2>5
  <1>6. CASE h = "LoadReserved"
    <2>1. Run(o, h, i) = LoadReserved(o, i, r) /\ o.code # "lr_d"
      BY <1>6 DEF Run, r, WordPair
    <2>2. PICK v : v = SignExtend(WordBits, i.mem % Power[WordBits])
      OBVIOUS
    <2>3. LoadReserved(o, i, r).value = Result(r, i, v).value
      BY <1>2, <2>1, <2>2 DEF LoadReserved
    <2>4. WordValue(h, o.code, i) = v
      BY <1>6, <2>2 DEF WordValue
    <2> QED BY <1>2, <2>1, <2>3, <2>4
  <1>7. CASE h = "Atomic"
    <2>1. Run(o, h, i) = Atomic(o, i, r)
      BY <1>7 DEF Run, r
    <2>2. o.code \notin {DoubleCode[n] : n \in Amos}
      <3>1. o.code \in AtomicWords
        BY <1>7 DEF WordPair
      <3> QED BY <3>1, AmoCodes DEF AtomicWords, AtomicDoubles
    <2>3. PICK v : v = SignExtend(WordBits, i.mem % Power[WordBits])
      OBVIOUS
    <2>4. \E m, s : Atomic(o, i, r) = [Result(r, i, v) EXCEPT !.mem = m, !.accesses = s]
      BY <2>2, <2>3 DEF Atomic
    <2>5. Atomic(o, i, r).value = Result(r, i, v).value
      BY <1>2, <2>4
    <2>6. WordValue(h, o.code, i) = v
      BY <1>7, <2>3 DEF WordValue
    <2> QED BY <1>2, <2>1, <2>5, <2>6
  <1> QED BY <1>3, <1>4, <1>5, <1>6, <1>7 DEF WordPair

\* Where divw does not end the emulator, its test for zero agrees with the low word.
LEMMA ZeroDivisor ==
    ASSUME NEW b \in Nat, b < Power[DoubleBits], ~Kills("divw", b)
    PROVE  /\ Signed(DoubleBits, b) = 0 <=> b % Power[WordBits] = 0
           /\ Signed(WordBits, b) = 0 <=> b % Power[WordBits] = 0
  <1>1. PICK W \in Nat \ {0}, H \in Nat \ {0}, D \in Nat \ {0} : Sizes(W, H, D)
    BY SizesExist
  <1>2. W = Power[WordBits] /\ D = Power[DoubleBits] /\ WordBits \in 1..64 /\ DoubleBits \in 1..64
    BY <1>1, SizesExist DEF Sizes
  <1>7. b \in Int
    OBVIOUS
  <1>3. Signed(DoubleBits, b) = 0 <=> b % D = 0
    BY <1>2, <1>7, SignedFacts
  <1>8. Signed(WordBits, b) = 0 <=> b % W = 0
    BY <1>2, <1>7, SignedFacts
  <1>4. b % D = b
    <2>1. b = D * 0 + b /\ b \in 0..(D - 1) /\ b \in Int
      BY <1>1, <1>2
    <2> QED BY <1>1, <2>1, DivOf
  <1>5. b = 0 => b % W = 0
    <2>1. 0 % W = 0
      BY <1>1
    <2> QED BY <2>1
  <1>6. b = 0 \/ b % W # 0
    BY <1>2 DEF Kills
  <1> QED BY <1>2, <1>3, <1>4, <1>5, <1>6, <1>8

LEMMA MinusOneWord == Int32(-1) = Power[DoubleBits] - 1 /\ (-1) % Power[DoubleBits] = Power[DoubleBits] - 1
  <1>1. PICK W \in Nat \ {0}, H \in Nat \ {0}, D \in Nat \ {0} : Sizes(W, H, D)
    BY SizesExist
  <1>2. W = Power[WordBits] /\ H = Power[WordBits - 1] /\ D = Power[DoubleBits] /\ W = 2 * H
    BY <1>1 DEF Sizes
  <1>3. (-1) % W = W - 1 /\ (-1) % D = D - 1
    BY AllOnes
  <1>4. -1 \in Int
    OBVIOUS
  <1>5. Int32(-1) = IF W - 1 >= H THEN D - W + (W - 1) ELSE W - 1
    BY <1>2, <1>3, <1>4, Extended
  <1> QED BY <1>1, <1>2, <1>3, <1>5

\* What the handlers of word operations write is a word extended by its sign, or the
\* minus one of a division by zero.
ExtendedWord(v) == \E x \in Int : v = Int32(x) \/ (v = x /\ x = -1)

LEMMA WordValues ==
    ASSUME xlen = 64, NEW h, NEW code, WordPair(h, code), NEW i,
           i.a \in Nat, i.b \in Nat, i.mem \in Nat, i.imm \in Int,
           h = "MulDiv" => i.b < Power[DoubleBits] /\ ~Kills(code, i.b),
           h = "C_AluImm" => /\ Signed(WordBits, i.a) + i.imm >= Smallest(WordBits)
                             /\ i.imm < Power[WordBits - 1]
    PROVE  ExtendedWord(WordValue(h, code, i))
  <1>0. ASSUME NEW x \in Int PROVE ExtendedWord(SignExtend(WordBits, Int32(x)))
    BY WordResults DEF ExtendedWord
  <1>1. ASSUME NEW x \in 0..(Power[WordBits] - 1) PROVE ExtendedWord(SignExtend(WordBits, x))
    <2>1. x \in Int
      BY SizesExist DEF Sizes
    <2> QED BY <2>1, WordResults DEF ExtendedWord
  <1>2. ExtendedWord(-1)
    <2>1. -1 \in Int
      OBVIOUS
    <2> QED BY <2>1 DEF ExtendedWord
  <1>3. PICK a \in Nat, b \in Nat, mem \in Nat, imm \in Int : a = i.a /\ b = i.b /\ mem = i.mem /\ imm = i.imm
    OBVIOUS
  <1>17. a \in Int /\ b \in Int /\ WordBits \in 1..64
    BY <1>3, SizesExist
  <1>4. PICK sa \in Int, sb \in Int : /\ sa = Signed(WordBits, a) /\ sb = Signed(WordBits, b)
                                      /\ sa < Power[WordBits - 1]
    BY <1>17, SignedFacts
  <1>5. CASE h = "Alu"
    <2>1. \E x \in Int : Alu(code, a, b) = SignExtend(WordBits, Int32(x))
      <3>1. CASE code = "addw"
        <4>1. sa + sb \in Int /\ Alu(code, a, b) = SignExtend(WordBits, Int32(sa + sb))
          BY <1>4, <3>1 DEF Alu
        <4> QED BY <4>1
      <3>2. CASE code = "subw"
        <4>1. sa - sb \in Int /\ Alu(code, a, b) = SignExtend(WordBits, Int32(sa - sb))
          BY <1>4, <3>2 DEF Alu
        <4> QED BY <4>1
      <3> QED BY <1>5, <3>1, <3>2 DEF WordPair
    <2> QED BY <1>0, <1>3, <1>5, <2>1 DEF WordValue
  <1>6. CASE h = "AluImm"
    <2>1. sa + imm \in Int /\ code = "addiw"
      BY <1>6 DEF WordPair
    <2>2. AluImm(code, a, imm) = SignExtend(WordBits, Int32(sa + imm))
      BY <1>4, <2>1 DEF AluImm
    <2> QED BY <1>0, <1>3, <1>6, <2>1, <2>2 DEF WordValue
  <1>7. ASSUME NEW n \in Int
        PROVE  /\ Shl(WordBits, a, n) \in Int /\ Sar(WordBits, a, n) \in Int
               /\ Shr(WordBits, a, n) \in 0..(Power[WordBits] - 1)
    BY <1>17, LowShifts
  <1>8. CASE h = "Shift"
    <2>1. PICK n \in Int : n = b % DoubleBits
      BY LowCount
    <2>2. CASE code = "sllw"
      <3>1. Shift(code, a, b) = SignExtend(WordBits, Int32(Shl(WordBits, a, n)))
        BY <2>1, <2>2 DEF Shift
      <3> QED BY <1>0, <1>3, <1>7, <1>8, <3>1 DEF WordValue
    <2>3. CASE code = "srlw"
      <3>1. Shift(code, a, b) = SignExtend(WordBits, Shr(WordBits, a, n))
        BY <2>1, <2>3 DEF Shift
      <3> QED BY <1>1, <1>3, <1>7, <1>8, <3>1 DEF WordValue
    <2>4. CASE code = "sraw"
      <3>1. Shift(code, a, b) = SignExtend(WordBits, Int32(Sar(WordBits, a, n)))
        BY <2>1, <2>4 DEF Shift
      <3> QED BY <1>0, <1>3, <1>7, <1>8, <3>1 DEF WordValue
    <2> QED BY <1>8, <2>2, <2>3, <2>4 DEF WordPair
  <1>9. CASE h = "ShiftImm"
    <2>2. CASE code = "slliw"
      <3>1. ShiftImm(code, a, imm) = SignExtend(WordBits, Int32(Shl(WordBits, a, imm)))
        BY <2>2 DEF ShiftImm
      <3> QED BY <1>0, <1>3, <1>7, <1>9, <3>1 DEF WordValue
    <2>3. CASE code = "srliw"
      <3>1. ShiftImm(code, a, imm) = SignExtend(WordBits, Shr(WordBits, a, imm))
        BY <2>3 DEF ShiftImm
      <3> QED BY <1>1, <1>3, <1>7, <1>9, <3>1 DEF WordValue
    <2>4. CASE code = "sraiw"
      <3>1. ShiftImm(code, a, imm) = SignExtend(WordBits, Int32(Sar(WordBits, a, imm)))
        BY <2>4 DEF ShiftImm
      <3> QED BY <1>0, <1>3, <1>7, <1>9, <3>1 DEF WordValue
    <2> QED BY <1>9, <2>2, <2>3, <2>4 DEF WordPair
  <1>10. mem % Power[WordBits] \in 0..(Power[WordBits] - 1)
    BY LowSigned
  <1>11. CASE h \in {"Load", "C_Load", "C_LoadSP"}
    <2>1. code \in {"lw", "c_lw", "c_lwsp"}
      BY <1>11 DEF WordPair
    <2>2. SizeOf(code) = WordBits
      BY <2>1 DEF SizeOf
    <2>3. LoadValue(code, mem) = SignExtend(WordBits, mem % Power[WordBits])
      BY <2>1, <2>2 DEF LoadValue
    <2> QED BY <1>1, <1>3, <1>10, <1>11, <2>3 DEF WordValue
  <1>12. CASE h \in {"LoadReserved", "Atomic"}
    BY <1>1, <1>3, <1>10, <1>12 DEF WordValue
  <1>13. CASE h = "C_Alu"
    <2>1. \E x \in Int : C_Alu(code, a, b) = SignExtend(WordBits, Int32(x))
      <3>1. CASE code = "c_addw"
        <4>1. sa + sb \in Int /\ C_Alu(code, a, b) = SignExtend(WordBits, Int32(sa + sb))
          BY <1>4, <3>1 DEF C_Alu
        <4> QED BY <4>1
      <3>2. CASE code = "c_subw"
        <4>1. sa - sb \in Int /\ C_Alu(code, a, b) = SignExtend(WordBits, Int32(sa - sb))
          BY <1>4, <3>2 DEF C_Alu
        <4> QED BY <4>1
      <3> QED BY <1>13, <3>1, <3>2 DEF WordPair
    <2> QED BY <1>0, <1>3, <1>13, <2>1 DEF WordValue
  <1>14. CASE h = "C_AluImm"
    <2>1. C_AluImm(code, a, imm) = SignExtend(WordBits, sa + imm)
      <3>1. code = "c_addiw"
        BY <1>14 DEF WordPair
      <3> QED BY <1>4, <3>1 DEF C_AluImm
    <2>2. PICK W \in Nat \ {0}, H \in Nat \ {0}, D \in Nat \ {0} : Sizes(W, H, D)
      BY SizesExist
    <2>3. W = Power[WordBits] /\ H = Power[WordBits - 1] /\ D = Power[DoubleBits] /\ W = 2 * H /\ D >= W
      BY <2>2 DEF Sizes
    <2>4. PICK x \in Int : x = sa + imm
      OBVIOUS
    <2>5. -H <= x /\ x < W
      <3>1. sa < H
        BY <1>4, <2>3
      <3>2. imm < H /\ sa + imm >= -H
        BY <1>3, <1>4, <1>14, <2>3 DEF Smallest
      <3> QED BY <2>2, <2>3, <2>4, <3>1, <3>2
    <2>6. SignExtend(WordBits, x) = Int32(x)
      <3>1. CASE x >= 0
        BY <2>2, <2>3, <2>5, <3>1, WordResults
      <3>2. CASE x < 0
        <4>1. x % W = x + W
          <5>1. PICK n \in Int : n + 1 = 0
            OBVIOUS
          <5>2. x = W * n + (x + W) /\ x + W \in 0..(W - 1)
            BY <2>2, <2>3, <2>5, <3>2, <5>1
          <5> QED BY <2>2, <2>4, <5>1, <5>2, DivOf
        <4>2. x + W >= H
          BY <2>2, <2>3, <2>5
        <4> QED BY <2>3, <4>1, <4>2, Extended
      <3> QED BY <3>1, <3>2
    <2>7. ExtendedWord(SignExtend(WordBits, x))
      BY <2>6 DEF ExtendedWord
    <2> QED BY <1>3, <1>14, <2>1, <2>4, <2>7 DEF WordValue
  <1>15. CASE h = "MulDiv"
    <2>0. WordValue(h, code, i) = MulDivWord(code, a, b)
      BY <1>3, <1>15 DEF WordValue
    <2>1. CASE code = "mulw"
      <3>1. PICK x \in Int : x = sa * sb
        OBVIOUS
      <3>2. MulDivWord(code, a, b) = SignExtend(WordBits, Int32(x))
        BY <1>4, <2>1, <3>1 DEF MulDivWord
      <3> QED BY <1>0, <2>0, <3>2
    <2>2. sb # 0 => Quotient(sa, sb) \in Int /\ Remainder(sa, sb) \in Int
      <3>1. ASSUME sb # 0 PROVE Quotient(sa, sb) \in Int /\ Remainder(sa, sb) \in Int
        <4>1. PICK q \in Int, r \in Int, n \in Nat, m \in Nat : Divides(sa, sb, q, r, n, m)
          BY <1>4, <3>1, QuotientFacts
        <4> QED BY <4>1 DEF Divides
      <3> QED BY <3>1
    <2>3. PICK ua \in 0..(Power[WordBits] - 1), ub \in 0..(Power[WordBits] - 1) :
             ua = a % Power[WordBits] /\ ub = b % Power[WordBits]
      BY LowSigned
    <2>4. PICK W \in Nat \ {0}, H \in Nat \ {0}, D \in Nat \ {0} : Sizes(W, H, D)
      BY SizesExist
    <2>5. W = Power[WordBits] /\ H = Power[WordBits - 1] /\ W = 2 * H
      BY <2>4 DEF Sizes
    <2>6. CASE code = "divw"
      <3>1. b < Power[DoubleBits] /\ ~Kills("divw", b)
        BY <1>3, <1>15, <2>6
      <3>2. Signed(DoubleBits, b) = 0 <=> sb = 0
        BY <1>3, <1>4, <3>1, ZeroDivisor
      <3>3. MulDivWord(code, a, b) \in {SignExtend(WordBits, Power[WordBits - 1]), -1}
            \/ (sb # 0 /\ MulDivWord(code, a, b) = SignExtend(WordBits, Int32(Quotient(sa, sb))))
        BY <1>4, <2>6, <3>2 DEF MulDivWord
      <3>4. Power[WordBits - 1] \in 0..(Power[WordBits] - 1)
        BY <2>4, <2>5
      <3>5. ExtendedWord(SignExtend(WordBits, Power[WordBits - 1]))
        BY <1>1, <3>4
      <3>6. sb # 0 => ExtendedWord(SignExtend(WordBits, Int32(Quotient(sa, sb))))
        BY <1>0, <2>2
      <3> QED BY <1>2, <2>0, <3>3, <3>5, <3>6
    <2>7. ASSUME ub # 0 PROVE ua \div ub \in 0..(Power[WordBits] - 1) /\ ua % ub \in 0..(Power[WordBits] - 1)
      <3>1. ub \in Nat \ {0} /\ ua \in Nat /\ ua \in Int
        BY <2>3, <2>4, <2>5, <2>7
      <3>2. PICK q \in Nat, r \in 0..(ub - 1) : q = ua \div ub /\ r = ua % ub /\ ua = ub * q + r
        <4>1. ua \div ub \in Nat
          BY <3>1, Division
        <4>2. ua % ub \in 0..(ub - 1) /\ ua = ub * (ua \div ub) + (ua % ub)
          BY <3>1, DivInt
        <4> QED BY <4>1, <4>2
      <3>3. ub * q >= q
        <4>1. ASSUME NEW x \in Nat \ {0}, NEW y \in Nat PROVE x * y >= y
          OBVIOUS
        <4> QED BY <3>1, <3>2, <4>1
      <3>4. PICK t \in Nat : t = ub * q
        BY <3>1, <3>2
      <3>5. ua = t + r /\ t >= q
        BY <3>2, <3>3, <3>4
      <3>6. ua < W /\ ub - 1 < W /\ W = Power[WordBits] /\ W \in Nat
        BY <2>3, <2>4, <2>5
      <3>7. q \in 0..(W - 1) /\ r \in 0..(W - 1)
        BY <3>1, <3>2, <3>4, <3>5, <3>6
      <3> QED BY <3>2, <3>6, <3>7
    <2>8. CASE code = "divuw"
      <3>1. MulDivWord(code, a, b) = IF ub = 0 THEN -1 ELSE SignExtend(WordBits, ua \div ub)
        BY <2>3, <2>8 DEF MulDivWord
      <3> QED BY <1>1, <1>2, <2>0, <2>7, <3>1
    <2>9. CASE code = "remw"
      <3>1. \/ MulDivWord(code, a, b) = 0
            \/ MulDivWord(code, a, b) = SignExtend(WordBits, Int32(sa))
            \/ sb # 0 /\ MulDivWord(code, a, b) = SignExtend(WordBits, Int32(Remainder(sa, sb)))
        BY <1>4, <2>9 DEF MulDivWord
      <3>2. ExtendedWord(0)
        <4>1. -Power[WordBits - 1] <= 0 /\ 0 < Power[WordBits - 1] /\ 0 \in 0..(Power[DoubleBits] - 1) /\ 0 \in Int
          BY <2>4, <2>5 DEF Sizes
        <4>2. Int32(0) = 0
          BY <4>1, SizesExist, SignedInRange, WrapFacts DEF Int32
        <4> QED BY <4>1, <4>2 DEF ExtendedWord
      <3> QED BY <1>0, <2>0, <2>2, <3>1, <3>2
    <2>10. CASE code = "remuw"
      <3>1. MulDivWord(code, a, b) = IF ub = 0 THEN SignExtend(WordBits, Int32(sa)) ELSE SignExtend(WordBits, ua % ub)
        BY <1>4, <2>3, <2>10 DEF MulDivWord
      <3> QED BY <1>0, <1>1, <2>0, <2>7, <3>1
    <2> QED BY <1>15, <2>1, <2>6, <2>8, <2>9, <2>10 DEF WordPair, WordDivisions
  <1> QED BY <1>5, <1>6, <1>8, <1>9, <1>11, <1>12, <1>13, <1>14, <1>15 DEF WordPair

\* Word operations read the low words only: j holds the low words of i.
LEMMA LowWordsOnly ==
    ASSUME xlen = 64, NEW h, NEW code, WordPair(h, code), NEW i, NEW j,
           i.a \in Nat, i.b \in Nat, i.mem \in Nat, i.imm \in Int,
           h = "MulDiv" => i.b < Power[DoubleBits] /\ ~Kills(code, i.b),
           h \notin {"Load", "C_Load", "C_LoadSP", "LoadReserved", "Atomic"} => j.a = i.a % Power[WordBits],
           j.b = i.b % Power[WordBits], j.mem = i.mem % Power[WordBits], j.imm = i.imm
    PROVE  /\ WordValue(h, code, j) = WordValue(h, code, i)
           /\ h = "MulDiv" => ~Kills(code, j.b)
  <1>1. PICK W \in Nat \ {0}, H \in Nat \ {0}, D \in Nat \ {0} : Sizes(W, H, D)
    BY SizesExist
  <1>2. W = Power[WordBits] /\ D = Power[DoubleBits] /\ D >= W
    BY <1>1 DEF Sizes
  <1>3. PICK a \in Nat, b \in Nat, mem \in Nat, imm \in Int : a = i.a /\ b = i.b /\ mem = i.mem /\ imm = i.imm
    OBVIOUS
  <1>4. a \in Int /\ b \in Int /\ mem \in Int
    BY <1>3
  <1>5. PICK la \in 0..(W - 1), lb \in 0..(W - 1), lm \in 0..(W - 1) : la = a % W /\ lb = b % W /\ lm = mem % W
    BY <1>1, <1>4, DivInt
  <1>6. la % W = la /\ Signed(WordBits, la) = Signed(WordBits, a)
    BY <1>2, <1>4, <1>5, LowSigned
  <1>7. lb % W = lb /\ Signed(WordBits, lb) = Signed(WordBits, b)
    BY <1>2, <1>4, <1>5, LowSigned
  <1>8. lm % W = lm
    BY <1>2, <1>4, <1>5, LowSigned
  <1>9. h \notin {"Load", "C_Load", "C_LoadSP", "LoadReserved", "Atomic"} => j.a = la
    BY <1>2, <1>3, <1>5
  <1>10. j.b = lb /\ j.mem = lm /\ j.imm = imm
    BY <1>2, <1>3, <1>5
  <1>11. CASE h = "Alu"
    <2>1. Alu(code, la, lb) = Alu(code, a, b)
      BY <1>6, <1>7, <1>11 DEF WordPair, Alu
    <2> QED BY <1>3, <1>9, <1>10, <1>11, <2>1 DEF WordValue
  <1>12. CASE h = "AluImm"
    <2>1. AluImm(code, la, imm) = AluImm(code, a, imm)
      BY <1>6, <1>12 DEF WordPair, AluImm
    <2> QED BY <1>3, <1>9, <1>10, <1>12, <2>1 DEF WordValue
  <1>13. ASSUME NEW n \in Int
         PROVE  /\ Shl(WordBits, la, n) = Shl(WordBits, a, n) /\ Shr(WordBits, la, n) = Shr(WordBits, a, n)
                /\ Sar(WordBits, la, n) = Sar(WordBits, a, n)
    BY <1>2, <1>4, <1>5, LowShifts
  <1>14. CASE h = "Shift"
    <2>1. lb % DoubleBits = b % DoubleBits /\ b % DoubleBits \in Int
      BY <1>2, <1>4, <1>5, LowCount
    <2>2. Shift(code, la, lb) = Shift(code, a, b)
      BY <1>13, <1>14, <2>1 DEF WordPair, Shift
    <2> QED BY <1>3, <1>9, <1>10, <1>14, <2>2 DEF WordValue
  <1>15. CASE h = "ShiftImm"
    <2>1. /\ Shl(WordBits, la, imm) = Shl(WordBits, a, imm) /\ Shr(WordBits, la, imm) = Shr(WordBits, a, imm)
          /\ Sar(WordBits, la, imm) = Sar(WordBits, a, imm)
      BY <1>3, <1>13
    <2>2. ShiftImm(code, la, imm) = ShiftImm(code, a, imm)
      BY <1>15, <2>1 DEF WordPair, ShiftImm
    <2> QED BY <1>3, <1>9, <1>10, <1>15, <2>2 DEF WordValue
  <1>16. CASE h \in {"Load", "C_Load", "C_LoadSP"}
    <2>1. SizeOf(code) = WordBits
      BY <1>16 DEF WordPair, SizeOf
    <2>2. LoadValue(code, lm) = LoadValue(code, mem)
      BY <1>2, <1>5, <1>8, <2>1 DEF LoadValue
    <2> QED BY <1>3, <1>10, <1>16, <2>2 DEF WordValue
  <1>17. CASE h \in {"LoadReserved", "Atomic"}
    BY <1>2, <1>3, <1>5, <1>8, <1>10, <1>17 DEF WordValue
  <1>18. CASE h = "C_Alu"
    <2>1. C_Alu(code, la, lb) = C_Alu(code, a, b)
      BY <1>6, <1>7, <1>18 DEF WordPair, C_Alu
    <2> QED BY <1>3, <1>9, <1>10, <1>18, <2>1 DEF WordValue
  <1>19. CASE h = "C_AluImm"
    <2>1. C_AluImm(code, la, imm) = C_AluImm(code, a, imm)
      BY <1>6, <1>19 DEF WordPair, C_AluImm
    <2> QED BY <1>3, <1>9, <1>10, <1>19, <2>1 DEF WordValue
  <1>20. CASE h = "MulDiv"
    <2>1. lb < D /\ lb \in Nat
      BY <1>1, <1>2, <1>5
    <2>2. ~Kills(code, lb)
      BY <1>2, <1>7 DEF Kills
    <2>3. code = "divw" => (Signed(DoubleBits, lb) = 0 <=> Signed(DoubleBits, b) = 0)
      <3>1. ASSUME code = "divw" PROVE Signed(DoubleBits, lb) = 0 <=> Signed(DoubleBits, b) = 0
        <4>1. Signed(DoubleBits, lb) = 0 <=> lb % Power[WordBits] = 0
          BY <1>2, <2>1, <2>2, <3>1, ZeroDivisor
        <4>2. Signed(DoubleBits, b) = 0 <=> b % Power[WordBits] = 0
          BY <1>2, <1>3, <1>20, <3>1, ZeroDivisor
        <4> QED BY <1>2, <1>5, <1>7, <4>1, <4>2
      <3> QED BY <3>1
    <2>4. MulDivWord(code, la, lb) = MulDivWord(code, a, b)
      <3>1. CASE code = "divw"
        BY <1>2, <1>5, <1>6, <1>7, <2>3, <3>1 DEF MulDivWord
      <3>2. CASE code # "divw"
        BY <1>2, <1>5, <1>6, <1>7, <1>20, <3>2 DEF WordPair, WordDivisions, MulDivWord
      <3> QED BY <3>1, <3>2
    <2> QED BY <1>3, <1>9, <1>10, <1>20, <2>2, <2>4 DEF WordValue
  <1> QED BY <1>11, <1>12, <1>14, <1>15, <1>16, <1>17, <1>18, <1>19, <1>20 DEF WordPair

\* The register of a 64-bit hart takes an extended word as it is.
LEMMA WriteExtended ==
    ASSUME NEW old \in Nat, old < Power[DoubleBits], NEW v, ExtendedWord(v)
    PROVE  /\ Write(DoubleBits, old, v) = v % Power[DoubleBits]
           /\ Write(DoubleBits, old, v) = Int32(Write(DoubleBits, old, v))
  <1>1. PICK x \in Int : v = Int32(x) \/ (v = x /\ x = -1)
    BY DEF ExtendedWord
  <1>2. v \in Int
    BY <1>1, WordResults
  <1>3. Write(DoubleBits, old, v) = v % Power[DoubleBits]
    <2>1. DoubleBits \in 0..64
      BY SizesExist
    <2> QED BY <1>2, <2>1, WriteFacts
  <1>4. v % Power[DoubleBits] = Int32(x)
    <2>1. CASE v = Int32(x)
      <3>1. PICK y \in Int : y = Int32(x) /\ y \in 0..(Power[DoubleBits] - 1)
        BY WordResults
      <3>2. Wrap(y) = y
        BY <3>1, WrapFacts
      <3> QED BY <2>1, <3>1, <3>2 DEF Wrap
    <2>2. CASE v = x /\ x = -1
      BY <2>2, MinusOneWord
    <2> QED BY <1>1, <2>1, <2>2
  <1>5. Int32(Int32(x)) = Int32(x)
    BY WordResults
  <1> QED BY <1>3, <1>4, <1>5

LEMMA WordInv == IInv => WordLaw
  <1> SUFFICES ASSUME IInv, stage = "executed", xlen = 64, op.code \in WordOps
               PROVE  LET h   == Handler(ProcessOp(op.class), op.code)
                          memory == h \in {"Load", "C_Load", "C_LoadSP", "LoadReserved", "Atomic"}
                          low == [in EXCEPT !.a = IF memory THEN @ ELSE @ % Power[WordBits],
                                            !.b = @ % Power[WordBits], !.mem = @ % Power[WordBits]]
                      IN  \/ /\ out.value = Int32(out.value)
                             /\ out.value = Run(op, h, low).value
                          \/ op.code = "c_addiw" /\ Signed(WordBits, in.a) + in.imm < Smallest(WordBits)
    BY DEF WordLaw
  <1>1. PICK h : /\ h = Handler(ProcessOp(op.class), op.code)
                 /\ Handles(64, op.class, h, op.code)
                 /\ in \in Inputs(h, op.code) /\ out = Run(op, h, in) /\ out.end # "SIGFPE"
    BY Executed
  <1>2. WordPair(h, op.code)
    BY <1>1, WordHandler
  <1> DEFINE memory == h \in {"Load", "C_Load", "C_LoadSP", "LoadReserved", "Atomic"}
             low == [in EXCEPT !.a = IF memory THEN @ ELSE @ % Power[WordBits],
                               !.b = @ % Power[WordBits], !.mem = @ % Power[WordBits]]
  <1> SUFFICES ASSUME ~(op.code = "c_addiw" /\ Signed(WordBits, in.a) + in.imm < Smallest(WordBits))
               PROVE  out.value = Int32(out.value) /\ out.value = Run(op, h, low).value
    BY <1>1
  <1>3. /\ in.a \in Values /\ in.b \in Values \cup {0} /\ in.mem \in Values \cup {0}
        /\ in.imm \in ImmediatesOf(h, op.code)
        /\ in = [a |-> in.a, b |-> in.b, imm |-> in.imm, pc |-> in.pc, mem |-> in.mem, reserved |-> in.reserved]
    <2>1. h \notin Elsewhere \cup {"Lui", "Auipc", "Jal", "C_J"}
      BY <1>2 DEF WordPair, Elsewhere
    <2> QED BY <1>1, <2>1 DEF Inputs
  <1>4. /\ in.a \in Nat /\ in.b \in Nat /\ in.mem \in Nat
        /\ in.a < Power[DoubleBits] /\ in.b < Power[DoubleBits]
    <2>1. PICK W \in Nat \ {0}, H \in Nat \ {0}, D \in Nat \ {0} : Sizes(W, H, D)
      BY SizesExist
    <2>2. D = Power[DoubleBits]
      BY <2>1 DEF Sizes
    <2>3. 0 \in Nat /\ 0 < Power[DoubleBits]
      BY <2>1, <2>2
    <2> QED BY <1>3, <2>3, ValueFacts
  <1>5. in.imm \in Int /\ (h = "C_AluImm" => in.imm < Power[WordBits - 1])
    <2>1. PICK H \in Nat \ {0} : H = Power[WordBits - 1]
      BY SizesExist DEF Sizes
    <2>2. Immediates \subseteq Int /\ \A n \in Immediates : n < H
      BY <2>1, ImmediatesAssumption DEF ImmediatesAssumption
    <2>3. ImmediatesOf(h, op.code) \subseteq Int
      BY <2>2, SizesExist DEF ImmediatesOf
    <2>4. h = "C_AluImm" => ImmediatesOf(h, op.code) \subseteq Immediates
      BY <1>2 DEF ImmediatesOf, WordPair, NoImmediate, Elsewhere
    <2> QED BY <1>3, <2>1, <2>2, <2>3, <2>4
  <1>6. h = "MulDiv" => ~Kills(op.code, in.b)
    <2>1. h \in {"Jal", "Jalr"} => op.code \in {"jal", "jalr"}
      BY <1>2 DEF WordPair
    <2> QED BY <1>1, <2>1, RunEnd
  <1>7. h = "C_AluImm" => Signed(WordBits, in.a) + in.imm >= Smallest(WordBits)
    <2>1. h = "C_AluImm" => op.code = "c_addiw"
      BY <1>2 DEF WordPair
    <2>2. in.a \in Int
      BY <1>4
    <2>3. Signed(WordBits, in.a) \in Int
      BY <2>2, SizesExist, SignedFacts
    <2>4. Smallest(WordBits) \in Int
      BY SizesExist DEF Sizes, Smallest
    <2> QED BY <1>5, <2>1, <2>3, <2>4
  <1>8. ExtendedWord(WordValue(h, op.code, in))
    BY <1>2, <1>4, <1>5, <1>6, <1>7, WordValues
  <1>9. Bits = DoubleBits
    BY BitsFacts
  <1>10. out.value = Write(DoubleBits, in.a, WordValue(h, op.code, in))
    BY <1>1, <1>2, <1>6, <1>9, WordRuns
  <1>11. /\ low.a = (IF memory THEN in.a ELSE in.a % Power[WordBits])
         /\ low.b = in.b % Power[WordBits] /\ low.mem = in.mem % Power[WordBits] /\ low.imm = in.imm
    BY <1>3
  <1> HIDE DEF low
  <1>12. /\ WordValue(h, op.code, low) = WordValue(h, op.code, in)
         /\ h = "MulDiv" => ~Kills(op.code, low.b)
    BY <1>2, <1>4, <1>5, <1>6, <1>11, LowWordsOnly
  <1>13. Run(op, h, low).value = Write(DoubleBits, low.a, WordValue(h, op.code, in))
    BY <1>2, <1>9, <1>12, WordRuns
  <1>14. low.a \in Nat /\ low.a < Power[DoubleBits]
    <2>1. PICK W \in Nat \ {0}, H \in Nat \ {0}, D \in Nat \ {0} : Sizes(W, H, D)
      BY SizesExist
    <2>2. W = Power[WordBits] /\ D = Power[DoubleBits] /\ D >= W
      BY <2>1 DEF Sizes
    <2>5. in.a \in Int
      BY <1>4
    <2>3. PICK u \in 0..(W - 1) : u = in.a % W
      BY <2>1, <2>5, DivInt
    <2>4. u \in Nat /\ u < D
      BY <2>1, <2>2, <2>3
    <2> QED BY <1>4, <1>11, <2>2, <2>3, <2>4
  <1> QED BY <1>4, <1>8, <1>10, <1>13, <1>14, WriteExtended

\* On a 64-bit hart every word operation of Executor.cpp but c.addiw depends on the
\* low words of its sources and leaves a sign-extended word.
THEOREM WordOperations == Spec => []WordLaw
  BY Inductive, WordInv, PTL

-----------------------------------------------------------------------------
(* Compressed instructions and what they abbreviate.                       *)

\* A number modulo what a double word counts to keeps its register part.
LEMMA RegisterPart ==
    ASSUME xlen \in {32, 64}, NEW v \in Int
    PROVE  /\ Wrap(v) \in Int /\ Unsigned(Wrap(v)) = Unsigned(v)
           /\ \A old \in Nat : Unsigned(Write(Bits, old, v)) = Unsigned(v)
           /\ Unsigned(v) \in Int /\ Unsigned(v) % Power[Bits] = Unsigned(v)
           /\ Integer(v) \in Int /\ Integer(v) % Power[Bits] = Unsigned(v)
  <1>0. Bits \in 1..64 /\ Bits \in 0..64
    BY BitsFacts
  <1>1. PICK M \in Nat \ {0} : M = Power[Bits]
    BY <1>0, Width
  <1>2. PICK W \in Nat \ {0}, H \in Nat \ {0}, D \in Nat \ {0} : Sizes(W, H, D)
    BY SizesExist
  <1>3. W = Power[WordBits] /\ D = Power[DoubleBits] /\ D = W * W
    BY <1>2 DEF Sizes
  <1>4. PICK k \in Nat \ {0} : D = M * k
    <2>1. CASE xlen = 32
      BY <1>1, <1>2, <1>3, <2>1, BitsFacts
    <2>2. CASE xlen = 64
      <3>1. D = M
        BY <1>1, <1>3, <2>2, BitsFacts
      <3>2. M = M * 1
        BY <1>1
      <3> QED BY <3>1, <3>2
    <2> QED BY <2>1, <2>2
  <1>5. Wrap(v) \in Int /\ Wrap(v) = v % (M * k)
    <2>1. Wrap(v) \in 0..(D - 1)
      BY <1>3, WrapFacts
    <2> QED BY <1>2, <1>3, <1>4, <2>1 DEF Wrap
  <1>6. (v % (M * k)) % M = v % M
    BY Nested
  <1>7. v % M \in 0..(M - 1)
    BY DivInt
  <1>8. (v % M) % M = v % M /\ v % M \in Int
    <2>1. PICK t \in 0..(M - 1) : t = v % M
      BY <1>7
    <2>2. t = M * 0 + t /\ t \in Int
      BY <1>1, <2>1
    <2> QED BY <1>1, <2>1, <2>2, DivOf
  <1>9. ASSUME NEW old \in Nat PROVE Write(Bits, old, v) % M = v % M
    <2>1. PICK bits \in 0..64 : bits = Bits
      BY <1>0
    <2>2. Write(bits, old, v) % Power[bits] = v % Power[bits]
      BY <1>9, <2>1, WriteFacts
    <2> QED BY <1>1, <2>1, <2>2
  <1>10. Integer(v) \in Int /\ Integer(v) % M = v % M
    BY <1>0, <1>1, SignedFacts DEF Integer
  <1> QED BY <1>1, <1>5, <1>6, <1>8, <1>9, <1>10 DEF Unsigned

LEMMA IntegerOfZero ==
    ASSUME xlen \in {32, 64}
    PROVE  Integer(0) = 0
  <1>1. Bits \in 1..64
    BY BitsFacts
  <1>2. PICK H \in Nat \ {0} : H = Power[Bits - 1]
    BY <1>1, Width
  <1>3. -Power[Bits - 1] <= 0 /\ 0 < Power[Bits - 1] /\ 0 \in Int
    BY <1>2
  <1> QED BY <1>1, <1>3, SignedInRange DEF Integer

\* c.addiw sign-extends its sum as it is, addiw the sum as an int.
LEMMA SmallSum ==
    ASSUME NEW x \in Int, Smallest(WordBits) <= x, x < Power[WordBits]
    PROVE  SignExtend(WordBits, x) = Int32(x)
  <1>1. PICK W \in Nat \ {0}, H \in Nat \ {0}, D \in Nat \ {0} : Sizes(W, H, D)
    BY SizesExist
  <1>2. W = Power[WordBits] /\ H = Power[WordBits - 1] /\ D = Power[DoubleBits] /\ W = 2 * H
    BY <1>1 DEF Sizes
  <1>3. -H <= x /\ x < W
    BY <1>2 DEF Smallest
  <1>4. CASE x >= 0
    BY <1>1, <1>2, <1>3, <1>4, WordResults
  <1>5. CASE x < 0
    <2>1. x % W = x + W
      <3>1. PICK n \in Int : n + 1 = 0
        OBVIOUS
      <3>2. PICK y \in 0..(W - 1) : y = x + W
        BY <1>1, <1>2, <1>3, <1>5
      <3>3. x = W * n + y
        BY <1>1, <3>1, <3>2
      <3>4. x % W = y
        BY <1>1, <3>1, <3>2, <3>3, DivOf
      <3> QED BY <3>2, <3>4
    <2>2. x + W >= H
      BY <1>1, <1>2, <1>3
    <2> QED BY <1>2, <2>1, <2>2, Extended
  <1> QED BY <1>4, <1>5

\* The handlers of a compressed instruction and of the one it abbreviates.
CompressedPair(xl, h, code, g) ==
    \/ h = "C_Alu" /\ g = "Alu" /\ (code \in {"c_mv", "c_add", "c_sub", "c_and", "c_or", "c_xor"}
                                    \/ (xl = 64 /\ code \in {"c_addw", "c_subw"}))
    \/ h = "C_AluImm" /\ g = "Lui" /\ code = "c_lui"
    \/ h = "C_AluImm" /\ g = "AluImm" /\ (code \in {"c_li", "c_addi", "c_andi"} \/ (xl = 64 /\ code = "c_addiw"))
    \/ h = "C_AluImm" /\ g = "ShiftImm" /\ code \in {"c_slli", "c_srli", "c_srai"}
    \/ h = "C_ADDI4SPN" /\ g = "AluImm" /\ code = "c_addi4spn"
    \/ h = "C_ADDI16SP" /\ g = "AluImm" /\ code = "c_addi16sp"
    \/ h \in {"C_Load", "C_LoadSP"} /\ g = "Load" /\ code \in {"c_lw", "c_ld", "c_lwsp", "c_ldsp"}
    \/ h \in {"C_Store", "C_StoreSP"} /\ g = "Store" /\ code \in {"c_sw", "c_sd", "c_swsp", "c_sdsp"}
    \/ h = "C_Branch" /\ g = "Branch" /\ code \in {"c_beqz", "c_bnez"}
    \/ h = "C_J" /\ g = "Jal" /\ code \in {"c_j", "c_jal"}
    \/ h = "C_JR" /\ g = "Jalr" /\ code \in {"c_jr", "c_jalr"}

LEMMA CompressedHandlers ==
    ASSUME xlen \in {32, 64}, NEW class, NEW h, NEW code, Handles(xlen, class, h, code), code \in DOMAIN Expansion
    PROVE  class = "C" /\ CompressedPair(xlen, h, code, Handler(ProcessOp("I"), Expansion[code]))
  <1>1. class = "C" /\ HandlesC(xlen, h, code)
    <2>1. code \in {"c_addi", "c_addiw", "c_li", "c_lui", "c_addi16sp", "c_addi4spn", "c_slli", "c_srli",
                    "c_srai", "c_andi", "c_mv", "c_add", "c_sub", "c_xor", "c_or", "c_and", "c_addw",
                    "c_subw", "c_lw", "c_lwsp", "c_ld", "c_ldsp", "c_sw", "c_swsp", "c_sd", "c_sdsp",
                    "c_beqz", "c_bnez", "c_j", "c_jal", "c_jr", "c_jalr"}
      BY DEF Expansion
    <2> QED BY <2>1 DEF Handles, HandlesI, HandlesM, ListedM, HandlesA, AtomicWords, AtomicDoubles,
                       HandlesFp, ProcessRVF, ProcessRVD
  <1>2. PICK c : c = Expansion[code]
    OBVIOUS
  <1>3. \E g : CompressedPair(xlen, h, code, g) /\ HandlesI(xlen, g, c)
    <2>1. CASE h = "C_Alu"
      BY <1>1, <1>2, <2>1 DEF HandlesC, HandlesI, CompressedPair, Expansion
    <2>2. CASE h = "C_AluImm"
      BY <1>1, <1>2, <2>2 DEF HandlesC, HandlesI, CompressedPair, Expansion
    <2>3. CASE h \in {"C_ADDI4SPN", "C_ADDI16SP"}
      BY <1>1, <1>2, <2>3 DEF HandlesC, HandlesI, CompressedPair, Expansion
    <2>4. CASE h \in {"C_Load", "C_LoadSP"}
      BY <1>1, <1>2, <2>4 DEF HandlesC, HandlesI, CompressedPair, Expansion
    <2>5. CASE h \in {"C_Store", "C_StoreSP"}
      BY <1>1, <1>2, <2>5 DEF HandlesC, HandlesI, CompressedPair, Expansion
    <2>6. CASE h = "C_Branch"
      BY <1>1, <1>2, <2>6 DEF HandlesC, HandlesI, CompressedPair, Expansion
    <2>7. CASE h \in {"C_J", "C_JR"}
      BY <1>1, <1>2, <2>7 DEF HandlesC, HandlesI, CompressedPair, Expansion
    <2>8. h # "C_Nop"
      BY <1>1 DEF HandlesC, Expansion
    <2> QED BY <1>1, <2>1, <2>2, <2>3, <2>4, <2>5, <2>6, <2>7, <2>8 DEF HandlesC
  <1>4. PICK g : CompressedPair(xlen, h, code, g) /\ HandlesI(xlen, g, c)
    BY <1>3
  <1>5. PICK f : f = Handler(ProcessOp("I"), c)
    OBVIOUS
  <1>6. HandlesI(xlen, f, c)
    <2>1. Handles(xlen, "I", g, c)
      BY <1>4 DEF Handles
    <2>2. f # "Error" /\ (f = "Error" \/ Handles(xlen, "I", f, c))
      BY <1>5, <2>1, HandlerHandles
    <2> QED BY <2>2 DEF Handles
  <1>7. f = g
    BY <1>4, <1>6 DEF HandlesI
  <1> QED BY <1>1, <1>2, <1>4, <1>5, <1>7

\* The values of the arithmetic ones: the same, or the same to the register.
CompressedValue(h, code, i) ==
    CASE h = "C_Alu"    -> C_Alu(code, i.a, i.b)
      [] h = "C_AluImm" -> C_AluImm(code, i.a, i.imm)
      [] h \in {"C_ADDI4SPN", "C_ADDI16SP"} -> Unsigned(i.a) + i.imm
FullValue(g, code, i) ==
    CASE g = "Lui"      -> i.imm
      [] g = "AluImm"   -> AluImm(code, i.a, i.imm)
      [] g = "ShiftImm" -> ShiftImm(code, i.a, i.imm)
      [] g = "Alu"      -> Alu(code, i.a, i.b)

LEMMA SameAlu ==
    ASSUME xlen \in {32, 64}, NEW code, NEW a \in Int, NEW b \in Int, CompressedPair(xlen, "C_Alu", code, "Alu")
    PROVE  /\ code # "c_mv" => C_Alu(code, a, b) = Alu(Expansion[code], a, b)
           /\ code = "c_mv" => C_Alu(code, a, b) = Alu(Expansion[code], 0, b) /\ C_Alu(code, a, b) \in Int
  <1>1. code \in {"c_mv", "c_add", "c_sub", "c_and", "c_or", "c_xor", "c_addw", "c_subw"}
    BY DEF CompressedPair
  <1>2. CASE code = "c_mv"
    <2>1. C_Alu(code, a, b) = Integer(b) /\ Integer(b) \in Int
      BY <1>2, RegisterPart DEF C_Alu
    <2>2. Alu("add", 0, b) = Integer(0) + Integer(b)
      BY DEF Alu
    <2>3. Expansion[code] = "add"
      BY <1>2 DEF Expansion
    <2> QED BY <1>2, <2>1, <2>2, <2>3, IntegerOfZero
  <1>3. CASE code = "c_add"
    BY <1>3 DEF Expansion, C_Alu, Alu
  <1>4. CASE code = "c_sub"
    BY <1>4 DEF Expansion, C_Alu, Alu
  <1>5. CASE code = "c_and"
    BY <1>5 DEF Expansion, C_Alu, Alu
  <1>6. CASE code = "c_or"
    BY <1>6 DEF Expansion, C_Alu, Alu
  <1>7. CASE code = "c_xor"
    BY <1>7 DEF Expansion, C_Alu, Alu
  <1>8. CASE code = "c_addw"
    BY <1>8 DEF Expansion, C_Alu, Alu
  <1>9. CASE code = "c_subw"
    BY <1>9 DEF Expansion, C_Alu, Alu
  <1> QED BY <1>1, <1>2, <1>3, <1>4, <1>5, <1>6, <1>7, <1>8, <1>9

LEMMA SameShifts ==
    ASSUME xlen \in {32, 64}, NEW code \in {"c_slli", "c_srli", "c_srai"}, NEW a \in Int, NEW n \in Int
    PROVE  C_AluImm(code, a, n) = ShiftImm(Expansion[code], a, n % Bits)
  <1>1. PICK bits \in 1..64 : bits = Bits
    BY BitsFacts
  <1>2. (n % bits) % bits = n % bits
    <2>1. bits \in Nat \ {0}
      BY <1>1
    <2>2. PICK t \in 0..(bits - 1) : t = n % bits
      BY <2>1, DivInt
    <2>3. t = bits * 0 + t /\ t \in Int
      BY <2>1, <2>2
    <2> QED BY <2>1, <2>2, <2>3, DivOf
  <1>3. CASE code = "c_slli"
    BY <1>1, <1>2, <1>3 DEF Expansion, C_AluImm, ShiftImm, Shl
  <1>4. CASE code = "c_srli"
    BY <1>1, <1>2, <1>4 DEF Expansion, C_AluImm, ShiftImm, Shr
  <1>5. CASE code = "c_srai"
    BY <1>1, <1>2, <1>5 DEF Expansion, C_AluImm, ShiftImm, Sar
  <1> QED BY <1>3, <1>4, <1>5

LEMMA SameValues ==
    ASSUME xlen \in {32, 64}, NEW h \in {"C_Alu", "C_AluImm", "C_ADDI4SPN", "C_ADDI16SP"}, NEW code, NEW g,
           CompressedPair(xlen, h, code, g), code \in DOMAIN Expansion,
           NEW i, i.a \in Nat, i.b \in Nat, i.imm \in Int,
           code = "c_addiw" => /\ Signed(WordBits, i.a) + i.imm >= Smallest(WordBits)
                               /\ i.imm < Power[WordBits - 1],
           NEW j, j.b = i.b,
           j.a = (IF code \in {"c_li", "c_mv"} THEN 0 ELSE i.a),
           j.imm = (IF code \in {"c_slli", "c_srli", "c_srai"} THEN i.imm % Bits ELSE i.imm)
    PROVE  LET v == CompressedValue(h, code, i)
               w == FullValue(g, Expansion[code], j)
           IN  \/ v = w /\ j.a = i.a
               \/ v \in Int /\ w \in Int /\ Unsigned(v) = Unsigned(w)
  <1>1. PICK a \in Nat, b \in Nat, imm \in Int : a = i.a /\ b = i.b /\ imm = i.imm
    OBVIOUS
  <1>2. a \in Int /\ b \in Int
    BY <1>1
  <1>3. CASE h = "C_Alu"
    <2>1. g = "Alu"
      BY <1>3 DEF CompressedPair
    <2>2. CompressedValue(h, code, i) = C_Alu(code, a, b)
          /\ FullValue(g, Expansion[code], j) = Alu(Expansion[code], j.a, b)
      BY <1>1, <1>3, <2>1 DEF CompressedValue, FullValue
    <2>3. code \notin {"c_li"}
      BY <1>3 DEF CompressedPair
    <2>4. CASE code = "c_mv"
      <3>1. j.a = 0
        BY <2>4
      <3> QED BY <1>2, <1>3, <2>1, <2>2, <2>4, <3>1, SameAlu
    <2>5. CASE code # "c_mv"
      <3>1. j.a = a
        BY <1>1, <2>3, <2>5
      <3> QED BY <1>1, <1>2, <1>3, <2>1, <2>2, <2>5, <3>1, SameAlu
    <2> QED BY <2>4, <2>5
  <1>4. CASE h \in {"C_ADDI4SPN", "C_ADDI16SP"}
    <2>1. g = "AluImm" /\ Expansion[code] = "addi" /\ code \in {"c_addi4spn", "c_addi16sp"}
      BY <1>4 DEF CompressedPair, Expansion
    <2>2. j.a = a /\ j.imm = imm
      BY <1>1, <2>1
    <2>3. PICK ua \in Int, sa \in Int : ua = Unsigned(a) /\ sa = Integer(a) /\ ua % Power[Bits] = sa % Power[Bits]
      <3>1. Unsigned(a) \in Int /\ Unsigned(a) % Power[Bits] = Unsigned(a)
        BY <1>2, RegisterPart
      <3>2. Integer(a) \in Int /\ Integer(a) % Power[Bits] = Unsigned(a)
        BY <1>2, RegisterPart
      <3> QED BY <3>1, <3>2
    <2>4. CompressedValue(h, code, i) = ua + imm
      BY <1>1, <1>4, <2>3 DEF CompressedValue
    <2>5. FullValue(g, Expansion[code], j) = sa + imm
      BY <2>1, <2>2, <2>3 DEF FullValue, AluImm
    <2>6. (ua + imm) % Power[Bits] = (sa + imm) % Power[Bits]
      <3>1. PICK M \in Nat \ {0} : M = Power[Bits]
        BY BitsFacts, Width
      <3>5. ua \in Int /\ sa \in Int /\ ua % M = sa % M
        BY <2>3, <3>1
      <3>6. M \in Nat \ {0}
        BY <3>1
      <3>2. PICK k \in Int : ua = sa + M * k
        BY <3>5, <3>6, SameRemainder
      <3>3. PICK x \in Int : x = sa + imm /\ ua + imm = x + M * k
        BY <1>1, <3>1, <3>2, <3>5
      <3>4. (x + M * k) % M = x % M
        BY <3>2, <3>3, <3>6, Shifted
      <3> QED BY <3>1, <3>3, <3>4
    <2>7. ua + imm \in Int /\ sa + imm \in Int
      BY <1>1, <2>3
    <2> QED BY <2>4, <2>5, <2>6, <2>7 DEF Unsigned
  <1>5. CASE h = "C_AluImm"
    <2>1. CompressedValue(h, code, i) = C_AluImm(code, a, imm)
      BY <1>1, <1>5 DEF CompressedValue
    <2>2. CASE code = "c_lui"
      <3>1. g = "Lui" /\ j.a = a /\ j.imm = imm
        BY <1>1, <1>5, <2>2 DEF CompressedPair
      <3> QED BY <1>1, <2>1, <2>2, <3>1 DEF FullValue, C_AluImm
    <2>3. CASE code = "c_li"
      <3>1. g = "AluImm" /\ j.a = 0 /\ j.imm = imm /\ Expansion[code] = "addi"
        BY <1>1, <1>5, <2>3 DEF CompressedPair, Expansion
      <3>2. FullValue(g, Expansion[code], j) = Integer(0) + imm
        BY <3>1 DEF FullValue, AluImm
      <3>3. C_AluImm(code, a, imm) = imm
        BY <2>3 DEF C_AluImm
      <3> QED BY <1>1, <2>1, <3>2, <3>3, IntegerOfZero
    <2>4. CASE code \in {"c_addi", "c_andi"}
      <3>1. g = "AluImm" /\ j.a = a /\ j.imm = imm
        BY <1>1, <1>5, <2>4 DEF CompressedPair
      <3>2. AluImm(Expansion[code], a, imm) = C_AluImm(code, a, imm)
        BY <2>4 DEF Expansion, AluImm, C_AluImm
      <3> QED BY <1>1, <2>1, <3>1, <3>2 DEF FullValue
    <2>5. CASE code \in {"c_slli", "c_srli", "c_srai"}
      <3>1. g = "ShiftImm" /\ j.a = a /\ j.imm = imm % Bits
        BY <1>1, <1>5, <2>5 DEF CompressedPair
      <3> QED BY <1>1, <1>2, <2>1, <2>5, <3>1, SameShifts DEF FullValue
    <2>6. CASE code = "c_addiw"
      <3>1. g = "AluImm" /\ j.a = a /\ j.imm = imm /\ Expansion[code] = "addiw"
        BY <1>1, <1>5, <2>6 DEF CompressedPair, Expansion
      <3>2. PICK x \in Int : x = Signed(WordBits, a) + imm /\ Smallest(WordBits) <= x /\ x < Power[WordBits]
        <4>1. PICK W \in Nat \ {0}, H \in Nat \ {0} : W = Power[WordBits] /\ H = Power[WordBits - 1] /\ W = 2 * H
          BY SizesExist DEF Sizes
        <4>2. PICK s \in Int : s = Signed(WordBits, a) /\ s < H
          BY <1>2, <4>1, SizesExist, SignedFacts
        <4>3. Smallest(WordBits) = -H
          BY <4>1 DEF Smallest
        <4>4. s + imm >= -H /\ imm < H
          BY <1>1, <2>6, <4>1, <4>2, <4>3
        <4>5. s + imm \in Int /\ -H <= s + imm /\ s + imm < W
          BY <1>1, <4>1, <4>2, <4>4
        <4> QED BY <4>1, <4>2, <4>3, <4>5
      <3>3. C_AluImm(code, a, imm) = SignExtend(WordBits, x)
        BY <2>6, <3>2 DEF C_AluImm
      <3>4. AluImm("addiw", a, imm) = SignExtend(WordBits, Int32(x))
        BY <3>2 DEF AluImm
      <3>5. SignExtend(WordBits, x) = SignExtend(WordBits, Int32(x))
        BY <3>2, SmallSum, WordResults
      <3> QED BY <1>1, <2>1, <3>1, <3>3, <3>4, <3>5 DEF FullValue
    <2> QED BY <1>5, <2>2, <2>3, <2>4, <2>5, <2>6 DEF CompressedPair
  <1> QED BY <1>3, <1>4, <1>5

\* What CompressedAgrees asks of the two runs: w of the compressed instruction and v
\* of the one it abbreviates.
Agrees(w, v, jump, next) ==
    /\ Unsigned(w.value) = Unsigned(v.value) \/ jump
    /\ w.mem = v.mem
    /\ w.accesses = v.accesses
    /\ Unsigned(w.pc) = Unsigned(next)
    /\ w.link # -1 => Unsigned(w.link + 2) = Unsigned(v.link)

Fields(w, value, link, pc, mem, accesses) ==
    w.value = value /\ w.link = link /\ w.pc = pc /\ w.mem = mem /\ w.accesses = accesses

\* Before either of them runs.
LEMMA BothStepped ==
    ASSUME xlen \in {32, 64}, NEW o, o.class = "C", NEW f, f.class = "I",
           NEW i, NEW j, i.a \in Nat, i.pc \in Nat, j.mem = i.mem, j.pc = i.pc
    PROVE  LET r == Stepped(o, i)
               s == Stepped(f, j)
           IN  /\ r = [value |-> i.a, link |-> -1, pc |-> Wrap(i.pc + 2), mem |-> i.mem,
                       accesses |-> {}, end |-> "done"]
               /\ s = [value |-> j.a, link |-> -1, pc |-> Wrap(i.pc + 4), mem |-> i.mem,
                       accesses |-> {}, end |-> "done"]
               /\ Unsigned(Wrap(i.pc + 2)) = Unsigned(i.pc + 2)
  <1>1. i.pc + 2 \in Int
    OBVIOUS
  <1>2. Unsigned(Wrap(i.pc + 2)) = Unsigned(i.pc + 2)
    BY <1>1, RegisterPart
  <1> QED BY <1>2 DEF Stepped

LEMMA ArithmeticAgrees ==
    ASSUME xlen \in {32, 64}, NEW o, o.class = "C", NEW f, f.class = "I", f.code = Expansion[o.code],
           o.code \in DOMAIN Expansion,
           NEW h \in {"C_Alu", "C_AluImm", "C_ADDI4SPN", "C_ADDI16SP"}, NEW g, CompressedPair(xlen, h, o.code, g),
           NEW i, NEW j, i.a \in Nat, i.b \in Nat, i.imm \in Int, i.pc \in Nat,
           o.code = "c_addiw" => /\ Signed(WordBits, i.a) + i.imm >= Smallest(WordBits)
                                 /\ i.imm < Power[WordBits - 1],
           j.mem = i.mem, j.pc = i.pc, j.b = i.b,
           j.a = (IF o.code \in {"c_li", "c_mv"} THEN 0 ELSE i.a),
           j.imm = (IF o.code \in {"c_slli", "c_srli", "c_srai"} THEN i.imm % Bits ELSE i.imm)
    PROVE  Agrees(Run(o, h, i), Run(f, g, j), FALSE, i.pc + 2)
  <1> DEFINE r == Stepped(o, i)
             s == Stepped(f, j)
             v == CompressedValue(h, o.code, i)
             w == FullValue(g, f.code, j)
  <1>1. /\ r = [value |-> i.a, link |-> -1, pc |-> Wrap(i.pc + 2), mem |-> i.mem, accesses |-> {}, end |-> "done"]
        /\ s = [value |-> j.a, link |-> -1, pc |-> Wrap(i.pc + 4), mem |-> i.mem, accesses |-> {}, end |-> "done"]
        /\ Unsigned(Wrap(i.pc + 2)) = Unsigned(i.pc + 2)
    BY BothStepped
  <1>2. (v = w /\ j.a = i.a) \/ (v \in Int /\ w \in Int /\ Unsigned(v) = Unsigned(w))
    BY SameValues
  <1>3. Run(o, h, i) = Result(r, i, v)
    <2>1. h \in {"C_Alu", "C_AluImm", "C_ADDI4SPN", "C_ADDI16SP"}
      OBVIOUS
    <2> HIDE DEF r
    <2> QED BY <2>1 DEF Run, r, v, CompressedValue
  <1>4. Run(f, g, j) = Result(s, j, w)
    <2>1. g \in {"Lui", "AluImm", "ShiftImm", "Alu"}
      BY DEF CompressedPair
    <2> HIDE DEF s
    <2> QED BY <2>1 DEF Run, s, w, FullValue
  <1> HIDE DEF r, s, v, w
  <1>5. \A x : Fields(Result(r, i, x), Write(Bits, i.a, x), -1, Wrap(i.pc + 2), i.mem, {})
    BY <1>1 DEF Result, Fields
  <1>6. \A x : Fields(Result(s, j, x), Write(Bits, j.a, x), -1, Wrap(i.pc + 4), i.mem, {})
    BY <1>1 DEF Result, Fields
  <1>7. Unsigned(Write(Bits, i.a, v)) = Unsigned(Write(Bits, j.a, w))
    <2>1. CASE v = w /\ j.a = i.a
      BY <2>1
    <2>2. CASE v \in Int /\ w \in Int /\ Unsigned(v) = Unsigned(w)
      <3>1. j.a \in Nat
        OBVIOUS
      <3>2. Unsigned(Write(Bits, i.a, v)) = Unsigned(v)
        BY <2>2, RegisterPart
      <3>3. Unsigned(Write(Bits, j.a, w)) = Unsigned(w)
        BY <2>2, <3>1, RegisterPart
      <3> QED BY <2>2, <3>2, <3>3
    <2> QED BY <1>2, <2>1, <2>2
  <1>8. PICK p, q : p = Run(o, h, i) /\ q = Run(f, g, j)
    OBVIOUS
  <1>9. Fields(p, Write(Bits, i.a, v), -1, Wrap(i.pc + 2), i.mem, {})
    BY <1>3, <1>5, <1>8
  <1>10. Fields(q, Write(Bits, j.a, w), -1, Wrap(i.pc + 4), i.mem, {})
    BY <1>4, <1>6, <1>8
  <1>11. Agrees(p, q, FALSE, i.pc + 2)
    BY <1>1, <1>7, <1>9, <1>10 DEF Agrees, Fields
  <1> QED BY <1>8, <1>11

LEMMA SizesAgree ==
    ASSUME NEW code \in {"c_lw", "c_ld", "c_lwsp", "c_ldsp", "c_sw", "c_sd", "c_swsp", "c_sdsp"}
    PROVE  /\ SizeOf(Expansion[code]) = SizeOf(code)
           /\ code \notin FpMoves /\ Expansion[code] \notin FpMoves
           /\ \A mem : LoadValue(Expansion[code], mem) = LoadValue(code, mem)
  <1>1. SizeOf(Expansion[code]) = SizeOf(code)
    BY DEF Expansion, SizeOf
  <1>2. code \notin {"lbu", "lhu", "lwu"} /\ Expansion[code] \notin {"lbu", "lhu", "lwu"}
    BY DEF Expansion
  <1>3. code \notin FpMoves /\ Expansion[code] \notin FpMoves
    BY DEF Expansion, FpMoves
  <1> QED BY <1>1, <1>2, <1>3 DEF LoadValue

LEMMA AccessAgrees ==
    ASSUME xlen \in {32, 64}, NEW o, o.class = "C", NEW f, f.class = "I", f.code = Expansion[o.code],
           NEW h, NEW g, CompressedPair(xlen, h, o.code, g),
           g \in {"Load", "Store"},
           NEW i, NEW j, i.a \in Nat, i.pc \in Nat,
           j.mem = i.mem, j.pc = i.pc, j.a = i.a, j.b = i.b, j.imm = i.imm
    PROVE  Agrees(Run(o, h, i), Run(f, g, j), FALSE, i.pc + 2)
  <1> DEFINE r == Stepped(o, i)
             s == Stepped(f, j)
  <1>1. /\ r = [value |-> i.a, link |-> -1, pc |-> Wrap(i.pc + 2), mem |-> i.mem, accesses |-> {}, end |-> "done"]
        /\ s = [value |-> j.a, link |-> -1, pc |-> Wrap(i.pc + 4), mem |-> i.mem, accesses |-> {}, end |-> "done"]
        /\ Unsigned(Wrap(i.pc + 2)) = Unsigned(i.pc + 2)
    BY BothStepped
  <1>2. o.code \in {"c_lw", "c_ld", "c_lwsp", "c_ldsp", "c_sw", "c_sd", "c_swsp", "c_sdsp"}
    BY DEF CompressedPair
  <1>3. Address(j) = Address(i)
    BY DEF Address
  <1>4. CASE g = "Load"
    <2>1. Run(o, h, i) = Load(o, i, r) /\ Run(f, g, j) = Load(f, j, s)
      <3>1. h \in {"C_Load", "C_LoadSP"}
        BY <1>4 DEF CompressedPair
      <3> HIDE DEF r, s
      <3>2. Run(o, h, i) = Load(o, i, r)
        BY <1>2, <3>1, SizesAgree DEF Run, r
      <3>3. Run(f, g, j) = Load(f, j, s)
        BY <1>2, <1>4, SizesAgree DEF Run, s
      <3> QED BY <3>2, <3>3
    <2>2. PICK x : x = Write(Bits, i.a, LoadValue(o.code, i.mem))
      OBVIOUS
    <2>3. LoadValue(f.code, j.mem) = LoadValue(o.code, i.mem)
      BY <1>2, SizesAgree
    <2> HIDE DEF r, s
    <2>6. PICK t : t = {<<"Load", Address(i)>>}
      OBVIOUS
    <2>7. Load(o, i, r) = [[r EXCEPT !.value = x] EXCEPT !.accesses = t]
          /\ Load(f, j, s) = [[s EXCEPT !.value = x] EXCEPT !.accesses = t]
      BY <1>3, <2>2, <2>3, <2>6 DEF Load, Result
    <2>4. Fields(Load(o, i, r), x, -1, Wrap(i.pc + 2), i.mem, t)
      BY <1>1, <2>7 DEF Fields
    <2>5. Fields(Load(f, j, s), x, -1, Wrap(i.pc + 4), i.mem, t)
      BY <1>1, <2>7 DEF Fields
    <2>8. PICK p, q : p = Run(o, h, i) /\ q = Run(f, g, j)
      OBVIOUS
    <2>9. Fields(p, x, -1, Wrap(i.pc + 2), i.mem, t) /\ Fields(q, x, -1, Wrap(i.pc + 4), i.mem, t)
      BY <2>1, <2>4, <2>5, <2>8
    <2>10. Agrees(p, q, FALSE, i.pc + 2)
      BY <1>1, <2>9 DEF Agrees, Fields
    <2> QED BY <2>8, <2>10
  <1>5. CASE g = "Store"
    <2>1. Run(o, h, i) = Store(o, i, r) /\ Run(f, g, j) = Store(f, j, s)
      <3>1. h \in {"C_Store", "C_StoreSP"}
        BY <1>5 DEF CompressedPair
      <3> HIDE DEF r, s
      <3>2. Run(o, h, i) = Store(o, i, r)
        BY <3>1 DEF Run, r
      <3>3. Run(f, g, j) = Store(f, j, s)
        BY <1>5 DEF Run, s
      <3> QED BY <3>2, <3>3
    <2>2. PICK x : x = Write(SizeOf(o.code), i.mem, i.b)
      OBVIOUS
    <2>3. SizeOf(f.code) = SizeOf(o.code)
      BY <1>2, SizesAgree
    <2> HIDE DEF r, s
    <2>6. PICK t : t = {<<"Store", Address(i)>>}
      OBVIOUS
    <2>7. Store(o, i, r) = [r EXCEPT !.mem = x, !.accesses = t]
          /\ Store(f, j, s) = [s EXCEPT !.mem = x, !.accesses = t]
      BY <1>3, <2>2, <2>3, <2>6 DEF Store
    <2>4. Fields(Store(o, i, r), i.a, -1, Wrap(i.pc + 2), x, t)
      BY <1>1, <2>7 DEF Fields
    <2>5. Fields(Store(f, j, s), i.a, -1, Wrap(i.pc + 4), x, t)
      BY <1>1, <2>7 DEF Fields
    <2>8. PICK p, q : p = Run(o, h, i) /\ q = Run(f, g, j)
      OBVIOUS
    <2>9. Fields(p, i.a, -1, Wrap(i.pc + 2), x, t) /\ Fields(q, i.a, -1, Wrap(i.pc + 4), x, t)
      BY <2>1, <2>4, <2>5, <2>8
    <2>10. Agrees(p, q, FALSE, i.pc + 2)
      BY <1>1, <2>9 DEF Agrees, Fields
    <2> QED BY <2>8, <2>10
  <1> QED BY <1>4, <1>5

LEMMA BranchAgrees ==
    ASSUME xlen \in {32, 64}, NEW o, o.class = "C", NEW f, f.class = "I", f.code = Expansion[o.code],
           o.code \in {"c_beqz", "c_bnez"},
           NEW i, NEW j, i.a \in Nat, i.b = 0, i.pc \in Nat, i.imm \in Int,
           j.mem = i.mem, j.pc = i.pc, j.a = i.a, j.b = i.b, j.imm = i.imm
    PROVE  LET next == IF ~Taken(f.code, i.a, 0) THEN i.pc + 2 ELSE Run(f, "Branch", j).pc
           IN  Agrees(Run(o, "C_Branch", i), Run(f, "Branch", j), TRUE, next)
  <1> DEFINE r == Stepped(o, i)
             s == Stepped(f, j)
  <1>1. /\ r = [value |-> i.a, link |-> -1, pc |-> Wrap(i.pc + 2), mem |-> i.mem, accesses |-> {}, end |-> "done"]
        /\ s = [value |-> j.a, link |-> -1, pc |-> Wrap(i.pc + 4), mem |-> i.mem, accesses |-> {}, end |-> "done"]
        /\ Unsigned(Wrap(i.pc + 2)) = Unsigned(i.pc + 2)
    BY BothStepped
  <1>2. Run(o, "C_Branch", i) = C_Branch(o, i, r)
    BY DEF Run, r
  <1>3. Run(f, "Branch", j) = Branch(f, j, s)
    BY DEF Run, s
  <1> HIDE DEF r, s
  <1>4. PICK t : t = Taken(f.code, i.a, 0)
    OBVIOUS
  <1>5. t <=> (o.code = "c_beqz") = (Integer(i.a) = 0)
    <2>1. CASE o.code = "c_beqz"
      <3>1. f.code = "beq"
        BY <2>1 DEF Expansion
      <3>2. Taken("beq", i.a, 0) = (Integer(i.a) = Integer(0))
        BY DEF Taken
      <3> QED BY <1>4, <2>1, <3>1, <3>2, IntegerOfZero
    <2>2. CASE o.code = "c_bnez"
      <3>1. f.code = "bne"
        BY <2>2 DEF Expansion
      <3>2. Taken("bne", i.a, 0) = (Integer(i.a) # Integer(0))
        BY DEF Taken
      <3> QED BY <1>4, <2>2, <3>1, <3>2, IntegerOfZero
    <2> QED BY <2>1, <2>2
  <1>6. C_Branch(o, i, r) = IF t THEN JumpTo(r, i.pc + i.imm) ELSE r
    BY <1>5 DEF C_Branch
  <1>7. Branch(f, j, s) = IF t THEN JumpTo(s, i.pc + i.imm) ELSE s
    BY <1>4 DEF Branch
  <1>8. PICK p, q : p = Run(o, "C_Branch", i) /\ q = Run(f, "Branch", j)
    OBVIOUS
  <1>9. CASE t
    <2>1. Fields(JumpTo(r, i.pc + i.imm), i.a, -1, Wrap(i.pc + i.imm), i.mem, {})
      BY <1>1 DEF JumpTo, Fields
    <2>2. Fields(JumpTo(s, i.pc + i.imm), i.a, -1, Wrap(i.pc + i.imm), i.mem, {})
      BY <1>1 DEF JumpTo, Fields
    <2>3. Fields(p, i.a, -1, Wrap(i.pc + i.imm), i.mem, {}) /\ Fields(q, i.a, -1, Wrap(i.pc + i.imm), i.mem, {})
      BY <1>2, <1>3, <1>6, <1>7, <1>8, <1>9, <2>1, <2>2
    <2>4. Agrees(p, q, TRUE, q.pc)
      BY <2>3 DEF Agrees, Fields
    <2> QED BY <1>4, <1>8, <1>9, <2>4
  <1>10. CASE ~t
    <2>1. p = r /\ q = s
      BY <1>2, <1>3, <1>6, <1>7, <1>8, <1>10
    <2>2. Agrees(p, q, TRUE, i.pc + 2)
      BY <1>1, <2>1 DEF Agrees
    <2> QED BY <1>4, <1>8, <1>10, <2>2
  <1> QED BY <1>9, <1>10

LEMMA LinkAgrees ==
    ASSUME xlen \in {32, 64}, NEW pc \in Nat
    PROVE  Unsigned(Write(Bits, 0, pc + 2) + 2) = Unsigned(Write(Bits, 0, pc + 4))
  <1>1. PICK M \in Nat \ {0} : M = Power[Bits]
    BY BitsFacts, Width
  <1>2. Bits \in 0..64 /\ 0 \in Nat /\ pc + 2 \in Int /\ pc + 4 \in Int /\ M \in Nat \ {0}
    BY <1>1, BitsFacts
  <1>3. Write(Bits, 0, pc + 2) \in Nat /\ Write(Bits, 0, pc + 2) % Power[Bits] = (pc + 2) % Power[Bits]
    BY <1>2, WriteFacts, ZenonT(60)
  <1>4. PICK w \in Int, x \in Int : w = Write(Bits, 0, pc + 2) /\ x = pc + 2 /\ w % M = x % M
    BY <1>1, <1>2, <1>3
  <1>5. PICK k \in Int : w = x + M * k
    BY <1>2, <1>4, SameRemainder
  <1>6. PICK y \in Int : y = pc + 4 /\ w + 2 = y + M * k
    BY <1>4, <1>5
  <1>7. (y + M * k) % M = y % M
    BY <1>2, <1>5, <1>6, Shifted
  <1>8. Unsigned(Write(Bits, 0, pc + 4)) = Unsigned(pc + 4)
    BY <1>2, RegisterPart
  <1> QED BY <1>1, <1>4, <1>6, <1>7, <1>8 DEF Unsigned

\* jalr computes its target from the signed register, c.jr and c.jalr from the unsigned.
LEMMA TargetAgrees ==
    ASSUME xlen \in {32, 64}, NEW a \in Int
    PROVE  /\ Unsigned(a) - (Unsigned(a) % 2) \in Int /\ Integer(a) - (Integer(a) % 2) \in Int
           /\ Unsigned(Unsigned(a) - (Unsigned(a) % 2)) = Unsigned(Integer(a) - (Integer(a) % 2))
  <1>11. PICK bits \in 1..64 : bits = Bits
    BY BitsFacts
  <1>1. PICK M \in Nat \ {0}, H \in Nat \ {0} : M = Power[Bits] /\ M = 2 * H
    <2>1. Power[bits] \in Nat \ {0} /\ Power[bits - 1] \in Nat \ {0} /\ Power[bits] = 2 * Power[bits - 1]
      BY <1>11, Width
    <2> QED BY <1>11, <2>1
  <1>2. PICK u \in Int, s \in Int : u = Unsigned(a) /\ s = Integer(a) /\ u % M = s % M
    <2>1. Unsigned(a) \in Int /\ Unsigned(a) % Power[Bits] = Unsigned(a)
      BY RegisterPart
    <2>2. Integer(a) \in Int /\ Integer(a) % Power[Bits] = Unsigned(a)
      BY RegisterPart
    <2> QED BY <1>1, <2>1, <2>2
  <1>3. M \in Nat \ {0} /\ u \in Int /\ s \in Int /\ u % M = s % M
    BY <1>1, <1>2
  <1>4. PICK k \in Int : u = s + M * k
    BY <1>3, SameRemainder
  <1>5. PICK n \in Int : n = H * k
    BY <1>1, <1>4
  <1>6. u = s + 2 * n
    BY <1>1, <1>2, <1>4, <1>5
  <1>7. u % 2 = s % 2 /\ s % 2 \in Int
    BY <1>3, <1>5, <1>6
  <1>8. PICK y \in Int : y = s - (s % 2) /\ u - (u % 2) = y + M * k
    BY <1>3, <1>4, <1>7
  <1>9. (y + M * k) % M = y % M
    BY <1>3, <1>4, <1>8, Shifted
  <1>10. y + M * k \in Int
    BY <1>3, <1>4, <1>8
  <1> QED BY <1>1, <1>2, <1>8, <1>9, <1>10 DEF Unsigned

LEMMA JumpAgrees ==
    ASSUME xlen \in {32, 64}, NEW o, o.class = "C", NEW f, f.class = "I", f.code = Expansion[o.code],
           NEW h, NEW g, CompressedPair(xlen, h, o.code, g), g \in {"Jal", "Jalr"},
           NEW i, NEW j, i.a \in Nat, i.pc \in Nat, i.imm \in Int, g = "Jalr" => i.imm = 0,
           j.mem = i.mem, j.pc = i.pc, j.a = i.a, j.imm = i.imm
    PROVE  Agrees(Run(o, h, i), Run(f, g, j), TRUE, Run(f, g, j).pc)
  <1> DEFINE r == Stepped(o, i)
             s == Stepped(f, j)
  <1>1. /\ r = [value |-> i.a, link |-> -1, pc |-> Wrap(i.pc + 2), mem |-> i.mem, accesses |-> {}, end |-> "done"]
        /\ s = [value |-> j.a, link |-> -1, pc |-> Wrap(i.pc + 4), mem |-> i.mem, accesses |-> {}, end |-> "done"]
    BY BothStepped
  <1>2. PICK low, full : low = Write(Bits, 0, i.pc + 2) /\ full = Write(Bits, 0, i.pc + 4)
    OBVIOUS
  <1>3. Unsigned(low + 2) = Unsigned(full)
    BY <1>2, LinkAgrees
  <1>4. \A t, l : /\ Fields(JumpTo([r EXCEPT !.link = l], t), i.a, l, Wrap(t), i.mem, {})
                  /\ Fields(JumpTo([s EXCEPT !.link = l], t), i.a, l, Wrap(t), i.mem, {})
    BY <1>1 DEF JumpTo, Fields
  <1>5. r.link = -1
    BY <1>1
  <1>6. PICK p, q : p = Run(o, h, i) /\ q = Run(f, g, j)
    OBVIOUS
  <1>7. CASE g = "Jal"
    <2>1. h = "C_J" /\ o.code \in {"c_j", "c_jal"} /\ f.code = "jal"
      BY <1>7 DEF CompressedPair, Expansion
    <2>2. PICK l : l = (IF o.code = "c_jal" THEN low ELSE -1)
      OBVIOUS
    <2>3. p = C_J(o, i, r) /\ q = Jump(f, j, s)
      BY <1>6, <1>7, <2>1 DEF Run, r, s
    <2> HIDE DEF r, s
    <2>4. C_J(o, i, r) = JumpTo([r EXCEPT !.link = l], i.pc + i.imm)
      BY <1>2, <1>5, <2>2 DEF C_J
    <2>5. Jump(f, j, s) = JumpTo([s EXCEPT !.link = full], i.pc + i.imm)
      BY <1>2, <2>1 DEF Jump
    <2>6. Fields(p, i.a, l, Wrap(i.pc + i.imm), i.mem, {}) /\ Fields(q, i.a, full, Wrap(i.pc + i.imm), i.mem, {})
      <3>1. p = JumpTo([r EXCEPT !.link = l], i.pc + i.imm) /\ q = JumpTo([s EXCEPT !.link = full], i.pc + i.imm)
        BY <2>3, <2>4, <2>5
      <3> QED BY <1>4, <3>1, Zenon
    <2>7. Agrees(p, q, TRUE, q.pc)
      BY <1>3, <2>2, <2>6 DEF Agrees, Fields
    <2> QED BY <1>6, <2>7
  <1>8. CASE g = "Jalr"
    <2>1. h = "C_JR" /\ o.code \in {"c_jr", "c_jalr"} /\ f.code = "jalr"
      BY <1>8 DEF CompressedPair, Expansion
    <2>2. PICK l : l = (IF o.code = "c_jalr" THEN low ELSE -1)
      OBVIOUS
    <2>3. p = C_JR(o, i, r) /\ q = Jump(f, j, s)
      BY <1>6, <1>8, <2>1 DEF Run, r, s
    <2> HIDE DEF r, s
    <2>4. i.a \in Int
      OBVIOUS
    <2>5. PICK t \in Int, u \in Int : /\ t = Unsigned(i.a) - (Unsigned(i.a) % 2)
                                      /\ u = Integer(i.a) - (Integer(i.a) % 2) /\ Unsigned(t) = Unsigned(u)
      BY <2>4, TargetAgrees
    <2>6. Unsigned(Wrap(t)) = Unsigned(Wrap(u))
      BY <2>5, RegisterPart
    <2>7. C_JR(o, i, r) = JumpTo([r EXCEPT !.link = l], t)
      BY <1>2, <1>5, <2>2, <2>5 DEF C_JR
    <2>8. Jump(f, j, s) = JumpTo([s EXCEPT !.link = full], u)
      <3>1. PICK n \in Int : n = Integer(i.a)
        BY <2>4, RegisterPart
      <3>2. Integer(j.a) + j.imm = n
        BY <1>8, <3>1
      <3> QED BY <1>2, <2>1, <2>5, <3>1, <3>2 DEF Jump
    <2>9. Fields(p, i.a, l, Wrap(t), i.mem, {}) /\ Fields(q, i.a, full, Wrap(u), i.mem, {})
      BY <1>4, <2>3, <2>7, <2>8
    <2>10. Agrees(p, q, TRUE, q.pc)
      BY <1>3, <2>2, <2>6, <2>9 DEF Agrees, Fields
    <2> QED BY <1>6, <2>10
  <1> QED BY <1>7, <1>8

\* The inputs of a compressed instruction.
LEMMA CompressedInputs ==
    ASSUME xlen \in {32, 64}, NEW h, NEW code, NEW g, CompressedPair(xlen, h, code, g), NEW i \in Inputs(h, code)
    PROVE  /\ i.a \in Nat /\ i.b \in Nat /\ i.imm \in Int /\ i.pc \in Nat
           /\ code = "c_addiw" => i.imm < Power[WordBits - 1]
           /\ h = "C_Branch" => i.b = 0
           /\ h = "C_JR" => i.imm = 0
           /\ i = [a |-> i.a, b |-> i.b, imm |-> i.imm, pc |-> i.pc, mem |-> i.mem, reserved |-> i.reserved]
  <1>1. PICK W \in Nat \ {0}, H \in Nat \ {0}, D \in Nat \ {0} : Sizes(W, H, D)
    BY SizesExist
  <1>2. H = Power[WordBits - 1] /\ D = Power[DoubleBits]
    BY <1>1 DEF Sizes
  <1>3. /\ i.a \in Values \cup {0} /\ i.b \in Values \cup {0} /\ i.imm \in ImmediatesOf(h, code)
        /\ i.pc \in Pcs \cup Some(Pcs) /\ (h \notin TwoSources => i.b = 0)
        /\ i = [a |-> i.a, b |-> i.b, imm |-> i.imm, pc |-> i.pc, mem |-> i.mem, reserved |-> i.reserved]
    BY DEF Inputs
  <1>4. i.a \in Nat /\ i.b \in Nat
    <2>1. 0 \in Nat
      OBVIOUS
    <2> QED BY <1>3, <2>1, ValueFacts
  <1>5. i.pc \in Nat
    <2>1. Some(Pcs) \subseteq Pcs
      BY PcsAssumption DEF PcsAssumption, Some
    <2>2. Pcs \subseteq 0..(D - 1)
      BY <1>2, PcsAssumption DEF PcsAssumption, DoubleBits
    <2>3. i.pc \in 0..(D - 1)
      BY <1>3, <2>1, <2>2
    <2> QED BY <1>1, <2>3
  <1>6. Immediates \subseteq Int /\ \A n \in Immediates : n < H
    BY <1>1, <1>2, ImmediatesAssumption DEF ImmediatesAssumption
  <1>7. i.imm \in Int
    <2>1. ImmediatesOf(h, code) \subseteq Int
      BY <1>6, SizesExist DEF ImmediatesOf
    <2> QED BY <1>3, <2>1
  <1>8. ASSUME code = "c_addiw" PROVE i.imm < Power[WordBits - 1]
    <2>1. h = "C_AluImm"
      BY <1>8 DEF CompressedPair
    <2>2. ImmediatesOf(h, code) \subseteq Immediates
      BY <1>8, <2>1 DEF ImmediatesOf, NoImmediate, Elsewhere
    <2> QED BY <1>2, <1>3, <1>6, <2>2
  <1>9. h = "C_Branch" => i.b = 0
    BY <1>3 DEF TwoSources
  <1>10. h = "C_JR" => i.imm = 0
    <2>1. h = "C_JR" => code \in {"c_jr", "c_jalr"}
      BY DEF CompressedPair
    <2>2. h = "C_JR" => h \in NoImmediate \cup Elsewhere
      BY DEF NoImmediate
    <2>3. code \in {"c_jr", "c_jalr"} => code \notin {"c_srli", "c_srai"}
      OBVIOUS
    <2>4. h = "C_JR" => ImmediatesOf(h, code) = {0}
      BY <2>1, <2>2, <2>3 DEF ImmediatesOf
    <2> QED BY <1>3, <2>4
  <1> QED BY <1>3, <1>4, <1>5, <1>7, <1>8, <1>9, <1>10

LEMMA CompressedInv == IInv => CompressedAgrees
  <1> SUFFICES ASSUME IInv, stage = "executed", op.code \in DOMAIN Expansion
               PROVE  LET full == [class |-> "I", code |-> Expansion[op.code]]
                          a    == IF op.code \in {"c_li", "c_mv"} THEN 0 ELSE in.a
                          imm  == IF op.code \in {"c_slli", "c_srli", "c_srai"} THEN in.imm % Bits ELSE in.imm
                          want == Run(full, Handler(ProcessOp("I"), full.code), [in EXCEPT !.a = a, !.imm = imm])
                          jump == op.code \in {"c_beqz", "c_bnez", "c_j", "c_jal", "c_jr", "c_jalr"}
                          next == IF ~jump \/ (op.code \in {"c_beqz", "c_bnez"} /\ ~Taken(full.code, in.a, 0))
                                  THEN in.pc + 2 ELSE want.pc
                      IN  \/ /\ Unsigned(out.value) = Unsigned(want.value) \/ jump
                             /\ out.mem = want.mem
                             /\ out.accesses = want.accesses
                             /\ Unsigned(out.pc) = Unsigned(next)
                             /\ out.link # -1 => Unsigned(out.link + 2) = Unsigned(want.link)
                          \/ op.code = "c_addiw" /\ Signed(WordBits, in.a) + in.imm < Smallest(WordBits)
    BY DEF CompressedAgrees
  <1>1. PICK h : /\ xlen \in {32, 64} /\ Handles(xlen, op.class, h, op.code)
                 /\ in \in Inputs(h, op.code) /\ out = Run(op, h, in)
    BY Executed
  <1>2. PICK code : code = op.code
    OBVIOUS
  <1>3. PICK full : full = [class |-> "I", code |-> Expansion[code]]
    OBVIOUS
  <1>4. full.class = "I" /\ full.code = Expansion[code]
    BY <1>3
  <1>5. PICK g : g = Handler(ProcessOp("I"), full.code)
    OBVIOUS
  <1>6. op.class = "C" /\ CompressedPair(xlen, h, code, g)
    BY <1>1, <1>2, <1>4, <1>5, CompressedHandlers
  <1>7. /\ in.a \in Nat /\ in.b \in Nat /\ in.imm \in Int /\ in.pc \in Nat
        /\ code = "c_addiw" => in.imm < Power[WordBits - 1]
        /\ h = "C_Branch" => in.b = 0
        /\ h = "C_JR" => in.imm = 0
        /\ in = [a |-> in.a, b |-> in.b, imm |-> in.imm, pc |-> in.pc, mem |-> in.mem, reserved |-> in.reserved]
    BY <1>1, <1>2, <1>6, CompressedInputs
  <1>8. PICK a : a = IF code \in {"c_li", "c_mv"} THEN 0 ELSE in.a
    OBVIOUS
  <1>9. PICK imm : imm = IF code \in {"c_slli", "c_srli", "c_srai"} THEN in.imm % Bits ELSE in.imm
    OBVIOUS
  <1>10. PICK j : j = [in EXCEPT !.a = a, !.imm = imm]
    OBVIOUS
  <1>11. j.a = a /\ j.imm = imm /\ j.b = in.b /\ j.mem = in.mem /\ j.pc = in.pc
    BY <1>7, <1>10
  <1>12. PICK want : want = Run(full, g, j)
    OBVIOUS
  <1> DEFINE jump == code \in {"c_beqz", "c_bnez", "c_j", "c_jal", "c_jr", "c_jalr"}
             next == IF ~jump \/ (code \in {"c_beqz", "c_bnez"} /\ ~Taken(full.code, in.a, 0))
                     THEN in.pc + 2 ELSE want.pc
  <1> SUFFICES ASSUME ~(code = "c_addiw" /\ Signed(WordBits, in.a) + in.imm < Smallest(WordBits))
               PROVE  Agrees(out, want, jump, next)
    BY <1>2, <1>3, <1>5, <1>8, <1>9, <1>10, <1>12 DEF Agrees
  <1>13. code \in DOMAIN Expansion
    BY <1>2
  <1>14. CASE h \in {"C_Alu", "C_AluImm", "C_ADDI4SPN", "C_ADDI16SP"}
    <2>1. ~jump
      BY <1>6, <1>14 DEF CompressedPair
    <2>2. code = "c_addiw" => Signed(WordBits, in.a) + in.imm >= Smallest(WordBits)
      <3>1. in.a \in Int /\ in.imm \in Int
        BY <1>7
      <3>2. Signed(WordBits, in.a) \in Int
        BY <3>1, SizesExist, SignedFacts
      <3>3. Smallest(WordBits) \in Int
        BY SizesExist DEF Sizes, Smallest
      <3> QED BY <3>1, <3>2, <3>3
    <2>3. Agrees(Run(op, h, in), Run(full, g, j), FALSE, in.pc + 2)
      <3>1. /\ xlen \in {32, 64}
            /\ op.class = "C" /\ full.class = "I" /\ full.code = Expansion[op.code] /\ op.code \in DOMAIN Expansion
            /\ CompressedPair(xlen, h, op.code, g)
        BY <1>1, <1>2, <1>4, <1>6, <1>13
      <3>2. /\ in.a \in Nat /\ in.b \in Nat /\ in.imm \in Int /\ in.pc \in Nat
            /\ op.code = "c_addiw" => /\ Signed(WordBits, in.a) + in.imm >= Smallest(WordBits)
                                      /\ in.imm < Power[WordBits - 1]
        BY <1>2, <1>7, <2>2
      <3>3. /\ j.mem = in.mem /\ j.pc = in.pc /\ j.b = in.b
            /\ j.a = (IF op.code \in {"c_li", "c_mv"} THEN 0 ELSE in.a)
            /\ j.imm = (IF op.code \in {"c_slli", "c_srli", "c_srai"} THEN in.imm % Bits ELSE in.imm)
        BY <1>2, <1>8, <1>9, <1>11
      <3> QED BY <1>14, <3>1, <3>2, <3>3, ArithmeticAgrees
    <2> QED BY <1>1, <1>12, <2>1, <2>3 DEF Agrees
  <1>15. CASE h \in {"C_Load", "C_LoadSP", "C_Store", "C_StoreSP"}
    <2>1. /\ g \in {"Load", "Store"}
          /\ code \in {"c_lw", "c_ld", "c_lwsp", "c_ldsp", "c_sw", "c_sd", "c_swsp", "c_sdsp"}
      BY <1>6, <1>15 DEF CompressedPair
    <2>2. ~jump /\ a = in.a /\ imm = in.imm
      BY <1>8, <1>9, <2>1
    <2>3. Agrees(Run(op, h, in), Run(full, g, j), FALSE, in.pc + 2)
      BY <1>1, <1>2, <1>4, <1>6, <1>7, <1>11, <2>1, <2>2, AccessAgrees
    <2> QED BY <1>1, <1>12, <2>2, <2>3 DEF Agrees
  <1>16. CASE h = "C_Branch"
    <2>1. g = "Branch" /\ code \in {"c_beqz", "c_bnez"}
      BY <1>6, <1>16 DEF CompressedPair
    <2>2. jump /\ a = in.a /\ imm = in.imm
      BY <1>8, <1>9, <2>1
    <2>3. next = IF ~Taken(full.code, in.a, 0) THEN in.pc + 2 ELSE Run(full, "Branch", j).pc
      BY <1>12, <2>1
    <2> HIDE DEF next
    <2>4. Agrees(Run(op, "C_Branch", in), Run(full, "Branch", j), TRUE, next)
      BY <1>1, <1>2, <1>4, <1>6, <1>7, <1>11, <1>16, <2>1, <2>2, <2>3, BranchAgrees
    <2> QED BY <1>1, <1>12, <1>16, <2>1, <2>2, <2>4 DEF Agrees
  <1>17. CASE h \in {"C_J", "C_JR"}
    <2>1. /\ g \in {"Jal", "Jalr"} /\ code \in {"c_j", "c_jal", "c_jr", "c_jalr"}
          /\ g = "Jalr" => h = "C_JR"
      BY <1>6, <1>17 DEF CompressedPair
    <2>2. jump /\ a = in.a /\ imm = in.imm /\ next = want.pc
      BY <1>8, <1>9, <2>1
    <2> HIDE DEF next
    <2>3. Agrees(Run(op, h, in), Run(full, g, j), TRUE, Run(full, g, j).pc)
      BY <1>1, <1>2, <1>4, <1>6, <1>7, <1>11, <2>1, <2>2, JumpAgrees
    <2> QED BY <1>1, <1>12, <2>2, <2>3 DEF Agrees
  <1> QED BY <1>6, <1>14, <1>15, <1>16, <1>17 DEF CompressedPair

\* The handlers of compressed instructions in Executor.cpp do what the handlers of the
\* instructions they abbreviate do, on both widths, but for c.addiw below the
\* smallest word.
THEOREM CompressedAbbreviates == Spec => []CompressedAgrees
  BY Inductive, CompressedInv, PTL

-----------------------------------------------------------------------------
(* The operand formats.                                                    *)

Multiples(m) == {m * n : n \in Int}

LEMMA MultiplesFacts ==
    ASSUME NEW m \in Nat \ {0}
    PROVE  /\ Multiples(m) \subseteq Int /\ 0 \in Multiples(m)
           /\ \A x, y \in Multiples(m) : x + y \in Multiples(m) /\ x - y \in Multiples(m)
           /\ \A x \in Multiples(m), n \in Int : x * n \in Multiples(m)
           /\ \A x \in Multiples(m) : x % m = 0
  <1>1. Multiples(m) \subseteq Int
    BY DEF Multiples
  <1>2. 0 \in Multiples(m)
    <2>1. 0 = m * 0 /\ 0 \in Int
      OBVIOUS
    <2> QED BY <2>1 DEF Multiples
  <1>3. ASSUME NEW x \in Multiples(m), NEW y \in Multiples(m)
        PROVE  x + y \in Multiples(m) /\ x - y \in Multiples(m)
    <2>1. PICK a \in Int, b \in Int : x = m * a /\ y = m * b
      BY DEF Multiples
    <2>2. x + y = m * (a + b) /\ x - y = m * (a - b)
      BY <2>1
    <2>3. a + b \in Int /\ a - b \in Int
      BY <2>1
    <2> QED BY <2>2, <2>3 DEF Multiples
  <1>4. ASSUME NEW x \in Multiples(m), NEW n \in Int PROVE x * n \in Multiples(m)
    <2>1. PICK a \in Int : x = m * a
      BY DEF Multiples
    <2>2. x * n = m * (a * n) /\ a * n \in Int
      BY <2>1
    <2> QED BY <2>2 DEF Multiples
  <1>5. ASSUME NEW x \in Multiples(m) PROVE x % m = 0
    <2>1. PICK a \in Int : x = m * a
      BY DEF Multiples
    <2>2. x = m * a + 0 /\ x \in Int
      BY <2>1
    <2>3. 0 \in 0..(m - 1)
      OBVIOUS
    <2> QED BY <2>2, <2>3, DivOf
  <1> QED BY <1>1, <1>2, <1>3, <1>4, <1>5

\* A number shifted far enough.
LEMMA PowerMultiple ==
    ASSUME NEW e \in 0..64, NEW s \in e..64
    PROVE  Power[e] \in Nat \ {0} /\ Power[s] \in Multiples(Power[e])
  <1>1. s - e \in 0..(64 - e) /\ s - e \in 0..64 /\ e + (s - e) = s
    OBVIOUS
  <1>2. PICK n : n = s - e
    OBVIOUS
  <1>3. Power[e + n] = Power[e] * Power[n]
    BY <1>1, <1>2, PowerSum
  <1>4. Power[e] \in Nat \ {0} /\ Power[n] \in Int
    BY <1>1, <1>2, PowerDef
  <1> QED BY <1>1, <1>2, <1>3, <1>4 DEF Multiples

\* The pieces of a layout lie in the word, and none is shifted by less than e.
ShiftedFrom(pieces, e) ==
    \A k \in DOMAIN pieces : pieces[k][1] \in 0..31 /\ pieces[k][2] \in 0..32 /\ pieces[k][3] \in e..64

LEMMA PieceMultiple ==
    ASSUME NEW insn \in Nat \X Nat, NEW pieces, NEW k, NEW e \in 0..64, ShiftedFrom(pieces, e)
    PROVE  Piece(pieces, k, insn) \in Multiples(Power[e])
  <1>1. CASE k \in DOMAIN pieces
    <2>1. pieces[k][1] \in 0..31 /\ pieces[k][2] \in 0..32 /\ pieces[k][3] \in e..64
      BY <1>1 DEF ShiftedFrom
    <2>2. PICK lsb \in 0..31, width \in 0..32, s \in e..64 :
              lsb = pieces[k][1] /\ width = pieces[k][2] /\ s = pieces[k][3]
      BY <2>1
    <2>3. Pick(insn, lsb, width) \in Nat
      BY <2>2, PickField
    <2>4. PICK n \in Nat : n = Pick(insn, lsb, width)
      BY <2>3
    <2>5. Power[e] \in Nat \ {0} /\ Power[s] \in Multiples(Power[e])
      BY PowerMultiple
    <2>6. Power[s] \in Int /\ n \in Int
      <3>1. Power[s] \in Nat \ {0}
        BY PowerDef
      <3> QED BY <2>4, <3>1
    <2>7. Power[s] * n \in Multiples(Power[e])
      BY <2>5, <2>6, MultiplesFacts
    <2>8. n * Power[s] = Power[s] * n
      BY <2>6
    <2>9. Piece(pieces, k, insn) = n * Power[s]
      BY <1>1, <2>2, <2>4 DEF Piece
    <2> QED BY <2>7, <2>8, <2>9
  <1>2. CASE k \notin DOMAIN pieces
    <2>1. Power[e] \in Nat \ {0}
      BY PowerDef
    <2> QED BY <1>2, <2>1, MultiplesFacts DEF Piece
  <1> QED BY <1>1, <1>2

\* An immediate is a multiple of what its lowest piece stands for.
LEMMA ImmediateMultiple ==
    ASSUME NEW insn \in Nat \X Nat, NEW format, NEW e \in 0..64, ShiftedFrom(Layout[format], e),
           format \in DOMAIN SignWidth => SignWidth[format] \in (e + 1)..64,
           format \in DOMAIN ZeroWidth => ZeroWidth[format] \in e..64
    PROVE  Immediate(format, insn) % Power[e] = 0
  <1>1. PICK m \in Nat \ {0} : m = Power[e]
    BY PowerDef
  <1> DEFINE part(k) == Piece(Layout[format], k, insn)
  <1>2. \A k : part(k) \in Multiples(m)
    BY <1>1, PieceMultiple
  <1> DEFINE M == Multiples(m)
  <1>3. \A x, y \in M : x + y \in M /\ x - y \in M
    BY MultiplesFacts
  <1>4. PICK value : value = part(1) + part(2) + part(3) + part(4) + part(5) + part(6) + part(7) + part(8)
    OBVIOUS
  <1>5. value \in M
    <2> HIDE DEF part
    <2>1. PICK p1, p2, p3, p4, p5, p6, p7, p8 \in M :
             /\ p1 = part(1) /\ p2 = part(2) /\ p3 = part(3) /\ p4 = part(4)
             /\ p5 = part(5) /\ p6 = part(6) /\ p7 = part(7) /\ p8 = part(8)
      BY <1>2
    <2> HIDE DEF M
    <2>2. p1 + p2 \in M
      BY <1>3
    <2>3. p1 + p2 + p3 \in M
      BY <1>3, <2>2
    <2>4. p1 + p2 + p3 + p4 \in M
      BY <1>3, <2>3
    <2>5. p1 + p2 + p3 + p4 + p5 \in M
      BY <1>3, <2>4
    <2>6. p1 + p2 + p3 + p4 + p5 + p6 \in M
      BY <1>3, <2>5
    <2>7. p1 + p2 + p3 + p4 + p5 + p6 + p7 \in M
      BY <1>3, <2>6
    <2>8. p1 + p2 + p3 + p4 + p5 + p6 + p7 + p8 \in M
      BY <1>3, <2>7
    <2> QED BY <1>4, <2>1, <2>8
  <1>6. Immediate(format, insn) = CASE format \in DOMAIN SignWidth -> SignExtended(SignWidth[format], value)
                                    [] format \in DOMAIN ZeroWidth -> value % Power[ZeroWidth[format]]
                                    [] OTHER -> 0
    BY <1>4 DEF Immediate
  <1>7. Immediate(format, insn) \in M
    <2> HIDE DEF part
    <2>1. CASE format \in DOMAIN SignWidth
      <3>1. PICK w \in e..64 : w = SignWidth[format]
        BY <2>1
      <3>2. Power[w] \in M
        BY <1>1, PowerMultiple
      <3>3. Immediate(format, insn) = SignExtended(w, value)
        <4>1. format \notin DOMAIN ZeroWidth
          BY <2>1 DEF SignWidth, ZeroWidth
        <4> QED BY <1>6, <2>1, <3>1, <4>1
      <3> HIDE DEF M
      <3> QED BY <1>3, <1>5, <3>2, <3>3 DEF SignExtended
    <2>2. CASE format \in DOMAIN ZeroWidth
      <3>1. PICK w \in e..64 : w = ZeroWidth[format]
        BY <2>2
      <3>2. Power[w] \in M
        BY <1>1, PowerMultiple
      <3>3. Immediate(format, insn) = value % Power[w]
        <4>1. format \notin DOMAIN SignWidth
          BY <2>2 DEF SignWidth, ZeroWidth
        <4> QED BY <1>6, <2>2, <3>1, <4>1
      <3>4. PICK p \in Nat \ {0} : p = Power[w]
        BY PowerDef
      <3>5. value \in Int
        BY <1>5, MultiplesFacts
      <3>6. value = p * (value \div p) + (value % p) /\ value \div p \in Int /\ value % p \in Int
        <4>1. value \div p \in Int /\ value % p \in 0..(p - 1) /\ value = p * (value \div p) + (value % p)
          BY <3>4, <3>5, DivInt
        <4> QED BY <3>4, <4>1
      <3>7. PICK q \in Int, r \in Int : q = value \div p /\ r = value % p
        BY <3>6
      <3>8. r = value - p * q
        BY <3>4, <3>5, <3>6, <3>7
      <3>9. p * q \in M
        BY <3>2, <3>4, <3>7, MultiplesFacts
      <3> QED BY <1>3, <1>5, <3>3, <3>4, <3>7, <3>8, <3>9
    <2>3. CASE format \notin DOMAIN SignWidth /\ format \notin DOMAIN ZeroWidth
      BY <1>6, <2>3, MultiplesFacts
    <2> QED BY <2>1, <2>2, <2>3
  <1> QED BY <1>1, <1>7, MultiplesFacts

LEMMA LayoutOf ==
    /\ DOMAIN Layout = {"I", "S", "B", "U", "J", "ShiftImm_32", "ShiftImm_64", "Csr", "CsrImm",
                        "CI", "CI_AluImm", "CI_Shift", "CI_ADDI16SP",
                        "CI_LoadSP4", "CI_LoadSP8", "CI_LUI", "CSS4", "CSS8", "CIW",
                        "CL4", "CL8", "CS4", "CS8", "CB", "CJ",
                        "R", "R4", "Fence", "CR", "CR_Alu", "None"}
    /\ \A f \in DOMAIN Layout32 : Layout[f] = Layout32[f]
    /\ \A f \in DOMAIN LayoutCI : Layout[f] = LayoutCI[f]
    /\ \A f \in DOMAIN LayoutStack : Layout[f] = LayoutStack[f]
    /\ \A f \in DOMAIN LayoutMemory : Layout[f] = LayoutMemory[f]
    /\ \A f \in DOMAIN LayoutJump : Layout[f] = LayoutJump[f]
    /\ \A f \in DOMAIN NoLayout : Layout[f] = <<>>
  <1>1. /\ DOMAIN Layout32 = {"I", "S", "B", "U", "J", "ShiftImm_32", "ShiftImm_64", "Csr", "CsrImm"}
        /\ DOMAIN LayoutCI = {"CI", "CI_AluImm", "CI_Shift", "CI_ADDI16SP"}
        /\ DOMAIN LayoutStack = {"CI_LoadSP4", "CI_LoadSP8", "CI_LUI", "CSS4", "CSS8", "CIW"}
        /\ DOMAIN LayoutMemory = {"CL4", "CL8", "CS4", "CS8"}
        /\ DOMAIN LayoutJump = {"CB", "CJ"}
        /\ DOMAIN NoLayout = {"R", "R4", "Fence", "CR", "CR_Alu", "None"}
        /\ \A f \in DOMAIN NoLayout : NoLayout[f] = <<>>
    BY DEF Layout32, LayoutCI, LayoutStack, LayoutMemory, LayoutJump, NoLayout
  <1>2. /\ DOMAIN Layout = UNION {DOMAIN Layout32, DOMAIN LayoutCI, DOMAIN LayoutStack, DOMAIN LayoutMemory,
                                 DOMAIN LayoutJump, DOMAIN NoLayout}
        /\ \A f \in DOMAIN Layout :
               Layout[f] = CASE f \in DOMAIN Layout32 -> Layout32[f]
                             [] f \in DOMAIN LayoutCI -> LayoutCI[f]
                             [] f \in DOMAIN LayoutStack -> LayoutStack[f]
                             [] f \in DOMAIN LayoutMemory -> LayoutMemory[f]
                             [] f \in DOMAIN LayoutJump -> LayoutJump[f]
                             [] f \in DOMAIN NoLayout -> NoLayout[f]
    BY DEF Layout
  <1>3. DOMAIN Layout = UNION {{"I", "S", "B", "U", "J", "ShiftImm_32", "ShiftImm_64", "Csr", "CsrImm"},
                               {"CI", "CI_AluImm", "CI_Shift", "CI_ADDI16SP"},
                               {"CI_LoadSP4", "CI_LoadSP8", "CI_LUI", "CSS4", "CSS8", "CIW"},
                               {"CL4", "CL8", "CS4", "CS8"}, {"CB", "CJ"},
                               {"R", "R4", "Fence", "CR", "CR_Alu", "None"}}
    BY <1>1, <1>2
  <1> QED BY <1>1, <1>2, <1>3

\* WellFormed, for pieces, register fields, width and sign of a format.
Good(pieces, fields, top, signed) ==
    LET used == UNION {Targets(pieces[k]) : k \in DOMAIN pieces}
    IN  /\ \A j, k \in DOMAIN pieces : j # k =>
              /\ BitsOf(pieces[j]) \cap BitsOf(pieces[k]) = {}
              /\ Targets(pieces[j]) \cap Targets(pieces[k]) = {}
        /\ \A k \in DOMAIN pieces : \A g \in fields : BitsOf(pieces[k]) \cap BitsOf(g) = {}
        /\ \A g1, g2 \in fields : g1 = g2 \/ BitsOf(g1) \cap BitsOf(g2) = {}
        /\ pieces # <<>> => \E low \in used : used = low..(top - 1)
        /\ signed => \E k \in DOMAIN pieces :
              top - 1 \in Targets(pieces[k]) /\ pieces[k][1] + pieces[k][2] - 1 \in {12, 31}

LEMMA WellFormedGood ==
    ASSUME NEW f \in DOMAIN Layout
    PROVE  WellFormed[f] <=> Good(Layout[f], ToSet(Registers[f]),
                                  IF f \in DOMAIN SignWidth THEN SignWidth[f] ELSE ZeroWidth[f],
                                  f \in DOMAIN SignWidth)
  BY DEF WellFormed, Good

\* The bits of an immediate that its pieces fill.
Used(pieces) == UNION {Targets(pieces[k]) : k \in DOMAIN pieces}

LEMMA UsedBy ==
    /\ \A a : Used(<<a>>) = Targets(a)
    /\ \A a, b : Used(<<a, b>>) = Targets(a) \cup Targets(b)
    /\ \A a, b, c : Used(<<a, b, c>>) = Targets(a) \cup Targets(b) \cup Targets(c)
    /\ \A a, b, c, d : Used(<<a, b, c, d>>) = Targets(a) \cup Targets(b) \cup Targets(c) \cup Targets(d)
    /\ \A a, b, c, d, e : Used(<<a, b, c, d, e>>) = Targets(a) \cup Targets(b) \cup Targets(c)
                                                    \cup Targets(d) \cup Targets(e)
    /\ \A a, b, c, d, e, f, g, h :
          Used(<<a, b, c, d, e, f, g, h>>) = Targets(a) \cup Targets(b) \cup Targets(c) \cup Targets(d)
                                             \cup Targets(e) \cup Targets(f) \cup Targets(g) \cup Targets(h)
  <1>1. \A a : Used(<<a>>) = Targets(a)
    BY DEF Used
  <1>2. \A a, b : Used(<<a, b>>) = Targets(a) \cup Targets(b)
    BY DEF Used
  <1>3. \A a, b, c : Used(<<a, b, c>>) = Targets(a) \cup Targets(b) \cup Targets(c)
    BY DEF Used
  <1>4. \A a, b, c, d : Used(<<a, b, c, d>>) = Targets(a) \cup Targets(b) \cup Targets(c) \cup Targets(d)
    BY DEF Used
  <1>5. \A a, b, c, d, e : Used(<<a, b, c, d, e>>) = Targets(a) \cup Targets(b) \cup Targets(c)
                                                     \cup Targets(d) \cup Targets(e)
    BY DEF Used
  <1>6. \A a, b, c, d, e, f, g, h :
          Used(<<a, b, c, d, e, f, g, h>>) = Targets(a) \cup Targets(b) \cup Targets(c) \cup Targets(d)
                                             \cup Targets(e) \cup Targets(f) \cup Targets(g) \cup Targets(h)
    BY DEF Used
  <1> QED BY <1>1, <1>2, <1>3, <1>4, <1>5, <1>6

\* Every layout, with the fields of its registers, its width and its sign.
LEMMA FormatsGood ==
    /\ Good(<< <<20, 12, 0>> >>, {<<7, 5>>, <<15, 5>>}, 12, TRUE)
    /\ Good(<< <<25, 7, 5>>, <<7, 5, 0>> >>, {<<15, 5>>, <<20, 5>>}, 12, TRUE)
    /\ Good(<< <<31, 1, 12>>, <<25, 6, 5>>, <<8, 4, 1>>, <<7, 1, 11>> >>, {<<15, 5>>,
             <<20, 5>>}, 13, TRUE)
    /\ Good(<< <<12, 20, 0>> >>, {<<7, 5>>}, 20, TRUE)
    /\ Good(<< <<31, 1, 20>>, <<21, 10, 1>>, <<20, 1, 11>>, <<12, 8, 12>> >>, {<<7, 5>>}, 21, TRUE)
    /\ Good(<< <<20, 5, 0>> >>, {<<7, 5>>, <<15, 5>>}, 5, FALSE)
    /\ Good(<< <<20, 6, 0>> >>, {<<7, 5>>, <<15, 5>>}, 6, FALSE)
    /\ Good(<< <<20, 12, 0>> >>, {<<7, 5>>, <<15, 5>>}, 12, FALSE)
    /\ Good(<< <<12, 1, 5>>, <<2, 5, 0>> >>, {<<7, 5>>}, 6, TRUE)
    /\ Good(<< <<12, 1, 5>>, <<2, 5, 0>> >>, {<<7, 3>>}, 6, TRUE)
    /\ Good(<< <<12, 1, 5>>, <<2, 5, 0>> >>, {<<7, 3>>}, 6, FALSE)
    /\ Good(<< <<12, 1, 9>>, <<6, 1, 4>>, <<5, 1, 6>>, <<3, 2, 7>>, <<2, 1, 5>> >>, {<<7, 5>>}, 10, TRUE)
    /\ Good(<< <<12, 1, 5>>, <<4, 3, 2>>, <<2, 2, 6>> >>, {<<7, 5>>}, 8, FALSE)
    /\ Good(<< <<12, 1, 5>>, <<5, 2, 3>>, <<2, 3, 6>> >>, {<<7, 5>>}, 9, FALSE)
    /\ Good(<< <<12, 1, 17>>, <<2, 5, 12>> >>, {<<7, 5>>}, 18, TRUE)
    /\ Good(<< <<9, 4, 2>>, <<7, 2, 6>> >>, {<<2, 5>>}, 8, FALSE)
    /\ Good(<< <<10, 3, 3>>, <<7, 3, 6>> >>, {<<2, 5>>}, 9, FALSE)
    /\ Good(<< <<11, 2, 4>>, <<7, 4, 6>>, <<6, 1, 2>>, <<5, 1, 3>> >>, {<<2, 3>>}, 10, FALSE)
    /\ Good(<< <<10, 3, 3>>, <<6, 1, 2>>, <<5, 1, 6>> >>, {<<2, 3>>, <<7, 3>>}, 7, FALSE)
    /\ Good(<< <<10, 3, 3>>, <<5, 2, 6>> >>, {<<2, 3>>, <<7, 3>>}, 8, FALSE)
    /\ Good(<< <<12, 1, 8>>, <<10, 2, 3>>, <<5, 2, 6>>, <<3, 2, 1>>, <<2, 1, 5>> >>, {<<7, 3>>}, 9, TRUE)
    /\ Good(<< <<12, 1, 11>>, <<11, 1, 4>>, <<9, 2, 8>>, <<8, 1, 10>>, <<7, 1, 6>>, <<6, 1, 7>>,
             <<3, 3, 1>>, <<2, 1, 5>> >>, {}, 12, TRUE)
  <1>1. Good(<< <<20, 12, 0>> >>, {<<7, 5>>, <<15, 5>>}, 12, TRUE)
    <2> DEFINE p == << <<20, 12, 0>> >>
    <2>1. Used(p) = 0..11
      <3>1. Targets(<<20, 12, 0>>) = 0..11
        BY DEF Targets
      <3>2. Used(p) = (0..11)
        BY <3>1, UsedBy
      <3> QED BY <3>2
    <2>2. 0 \in 0..11
      OBVIOUS
    <2>3. \E low \in Used(p) : Used(p) = low..11
      BY <2>1, <2>2, Zenon
    <2> QED BY <2>1, <2>3 DEF Good, Used, BitsOf, Targets
  <1>2. Good(<< <<25, 7, 5>>, <<7, 5, 0>> >>, {<<15, 5>>, <<20, 5>>}, 12, TRUE)
    <2> DEFINE p == << <<25, 7, 5>>, <<7, 5, 0>> >>
    <2>1. Used(p) = 0..11
      <3>1. Targets(<<25, 7, 5>>) = 5..11 /\ Targets(<<7, 5, 0>>) = 0..4
        BY DEF Targets
      <3>2. Used(p) = (5..11) \cup (0..4)
        BY <3>1, UsedBy
      <3> QED BY <3>2
    <2>2. 0 \in 0..11
      OBVIOUS
    <2>3. \E low \in Used(p) : Used(p) = low..11
      BY <2>1, <2>2, Zenon
    <2> QED BY <2>1, <2>3 DEF Good, Used, BitsOf, Targets
  <1>3. Good(<< <<31, 1, 12>>, <<25, 6, 5>>, <<8, 4, 1>>, <<7, 1, 11>> >>, {<<15, 5>>,
            <<20, 5>>}, 13, TRUE)
    <2> DEFINE p == << <<31, 1, 12>>, <<25, 6, 5>>, <<8, 4, 1>>, <<7, 1, 11>> >>
    <2>1. Used(p) = 1..12
      <3>1. Targets(<<31, 1, 12>>) = 12..12 /\ Targets(<<25, 6, 5>>) = 5..10
            /\ Targets(<<8, 4, 1>>) = 1..4 /\ Targets(<<7, 1, 11>>) = 11..11
        BY DEF Targets
      <3>2. Used(p) = (12..12) \cup (5..10) \cup (1..4) \cup (11..11)
        BY <3>1, UsedBy
      <3> QED BY <3>2
    <2>2. 1 \in 1..12
      OBVIOUS
    <2>3. \E low \in Used(p) : Used(p) = low..12
      BY <2>1, <2>2, Zenon
    <2> QED BY <2>1, <2>3 DEF Good, Used, BitsOf, Targets
  <1>4. Good(<< <<12, 20, 0>> >>, {<<7, 5>>}, 20, TRUE)
    <2> DEFINE p == << <<12, 20, 0>> >>
    <2>1. Used(p) = 0..19
      <3>1. Targets(<<12, 20, 0>>) = 0..19
        BY DEF Targets
      <3>2. Used(p) = (0..19)
        BY <3>1, UsedBy
      <3> QED BY <3>2
    <2>2. 0 \in 0..19
      OBVIOUS
    <2>3. \E low \in Used(p) : Used(p) = low..19
      BY <2>1, <2>2, Zenon
    <2> QED BY <2>1, <2>3 DEF Good, Used, BitsOf, Targets
  <1>5. Good(<< <<31, 1, 20>>, <<21, 10, 1>>, <<20, 1, 11>>, <<12, 8, 12>> >>, {<<7, 5>>}, 21, TRUE)
    <2> DEFINE p == << <<31, 1, 20>>, <<21, 10, 1>>, <<20, 1, 11>>, <<12, 8, 12>> >>
    <2>1. Used(p) = 1..20
      <3>1. Targets(<<31, 1, 20>>) = 20..20 /\ Targets(<<21, 10, 1>>) = 1..10
            /\ Targets(<<20, 1, 11>>) = 11..11 /\ Targets(<<12, 8, 12>>) = 12..19
        BY DEF Targets
      <3>2. Used(p) = (20..20) \cup (1..10) \cup (11..11) \cup (12..19)
        BY <3>1, UsedBy
      <3> QED BY <3>2
    <2>2. 1 \in 1..20
      OBVIOUS
    <2>3. \E low \in Used(p) : Used(p) = low..20
      BY <2>1, <2>2, Zenon
    <2> QED BY <2>1, <2>3 DEF Good, Used, BitsOf, Targets
  <1>6. Good(<< <<20, 5, 0>> >>, {<<7, 5>>, <<15, 5>>}, 5, FALSE)
    <2> DEFINE p == << <<20, 5, 0>> >>
    <2>1. Used(p) = 0..4
      <3>1. Targets(<<20, 5, 0>>) = 0..4
        BY DEF Targets
      <3>2. Used(p) = (0..4)
        BY <3>1, UsedBy
      <3> QED BY <3>2
    <2>2. 0 \in 0..4
      OBVIOUS
    <2>3. \E low \in Used(p) : Used(p) = low..4
      BY <2>1, <2>2, Zenon
    <2> QED BY <2>1, <2>3 DEF Good, Used, BitsOf, Targets
  <1>7. Good(<< <<20, 6, 0>> >>, {<<7, 5>>, <<15, 5>>}, 6, FALSE)
    <2> DEFINE p == << <<20, 6, 0>> >>
    <2>1. Used(p) = 0..5
      <3>1. Targets(<<20, 6, 0>>) = 0..5
        BY DEF Targets
      <3>2. Used(p) = (0..5)
        BY <3>1, UsedBy
      <3> QED BY <3>2
    <2>2. 0 \in 0..5
      OBVIOUS
    <2>3. \E low \in Used(p) : Used(p) = low..5
      BY <2>1, <2>2, Zenon
    <2> QED BY <2>1, <2>3 DEF Good, Used, BitsOf, Targets
  <1>8. Good(<< <<20, 12, 0>> >>, {<<7, 5>>, <<15, 5>>}, 12, FALSE)
    <2> DEFINE p == << <<20, 12, 0>> >>
    <2>1. Used(p) = 0..11
      <3>1. Targets(<<20, 12, 0>>) = 0..11
        BY DEF Targets
      <3>2. Used(p) = (0..11)
        BY <3>1, UsedBy
      <3> QED BY <3>2
    <2>2. 0 \in 0..11
      OBVIOUS
    <2>3. \E low \in Used(p) : Used(p) = low..11
      BY <2>1, <2>2, Zenon
    <2> QED BY <2>1, <2>3 DEF Good, Used, BitsOf, Targets
  <1>9. Good(<< <<12, 1, 5>>, <<2, 5, 0>> >>, {<<7, 5>>}, 6, TRUE)
    <2> DEFINE p == << <<12, 1, 5>>, <<2, 5, 0>> >>
    <2>1. Used(p) = 0..5
      <3>1. Targets(<<12, 1, 5>>) = 5..5 /\ Targets(<<2, 5, 0>>) = 0..4
        BY DEF Targets
      <3>2. Used(p) = (5..5) \cup (0..4)
        BY <3>1, UsedBy
      <3> QED BY <3>2
    <2>2. 0 \in 0..5
      OBVIOUS
    <2>3. \E low \in Used(p) : Used(p) = low..5
      BY <2>1, <2>2, Zenon
    <2> QED BY <2>1, <2>3 DEF Good, Used, BitsOf, Targets
  <1>10. Good(<< <<12, 1, 5>>, <<2, 5, 0>> >>, {<<7, 3>>}, 6, TRUE)
    <2> DEFINE p == << <<12, 1, 5>>, <<2, 5, 0>> >>
    <2>1. Used(p) = 0..5
      <3>1. Targets(<<12, 1, 5>>) = 5..5 /\ Targets(<<2, 5, 0>>) = 0..4
        BY DEF Targets
      <3>2. Used(p) = (5..5) \cup (0..4)
        BY <3>1, UsedBy
      <3> QED BY <3>2
    <2>2. 0 \in 0..5
      OBVIOUS
    <2>3. \E low \in Used(p) : Used(p) = low..5
      BY <2>1, <2>2, Zenon
    <2> QED BY <2>1, <2>3 DEF Good, Used, BitsOf, Targets
  <1>11. Good(<< <<12, 1, 5>>, <<2, 5, 0>> >>, {<<7, 3>>}, 6, FALSE)
    <2> DEFINE p == << <<12, 1, 5>>, <<2, 5, 0>> >>
    <2>1. Used(p) = 0..5
      <3>1. Targets(<<12, 1, 5>>) = 5..5 /\ Targets(<<2, 5, 0>>) = 0..4
        BY DEF Targets
      <3>2. Used(p) = (5..5) \cup (0..4)
        BY <3>1, UsedBy
      <3> QED BY <3>2
    <2>2. 0 \in 0..5
      OBVIOUS
    <2>3. \E low \in Used(p) : Used(p) = low..5
      BY <2>1, <2>2, Zenon
    <2> QED BY <2>1, <2>3 DEF Good, Used, BitsOf, Targets
  <1>12. Good(<< <<12, 1, 9>>, <<6, 1, 4>>, <<5, 1, 6>>, <<3, 2, 7>>,
            <<2, 1, 5>> >>, {<<7, 5>>}, 10, TRUE)
    <2> DEFINE p == << <<12, 1, 9>>, <<6, 1, 4>>, <<5, 1, 6>>, <<3, 2, 7>>, <<2, 1, 5>> >>
    <2>1. Used(p) = 4..9
      <3>1. Targets(<<12, 1, 9>>) = 9..9 /\ Targets(<<6, 1, 4>>) = 4..4
            /\ Targets(<<5, 1, 6>>) = 6..6 /\ Targets(<<3, 2, 7>>) = 7..8 /\ Targets(<<2, 1, 5>>) = 5..5
        BY DEF Targets
      <3>2. Used(p) = (9..9) \cup (4..4) \cup (6..6) \cup (7..8) \cup (5..5)
        BY <3>1, UsedBy
      <3> QED BY <3>2
    <2>2. 4 \in 4..9
      OBVIOUS
    <2>3. \E low \in Used(p) : Used(p) = low..9
      BY <2>1, <2>2, Zenon
    <2> QED BY <2>1, <2>3 DEF Good, Used, BitsOf, Targets
  <1>13. Good(<< <<12, 1, 5>>, <<4, 3, 2>>, <<2, 2, 6>> >>, {<<7, 5>>}, 8, FALSE)
    <2> DEFINE p == << <<12, 1, 5>>, <<4, 3, 2>>, <<2, 2, 6>> >>
    <2>1. Used(p) = 2..7
      <3>1. Targets(<<12, 1, 5>>) = 5..5 /\ Targets(<<4, 3, 2>>) = 2..4 /\ Targets(<<2, 2, 6>>) = 6..7
        BY DEF Targets
      <3>2. Used(p) = (5..5) \cup (2..4) \cup (6..7)
        BY <3>1, UsedBy
      <3> QED BY <3>2
    <2>2. 2 \in 2..7
      OBVIOUS
    <2>3. \E low \in Used(p) : Used(p) = low..7
      BY <2>1, <2>2, Zenon
    <2> QED BY <2>1, <2>3 DEF Good, Used, BitsOf, Targets
  <1>14. Good(<< <<12, 1, 5>>, <<5, 2, 3>>, <<2, 3, 6>> >>, {<<7, 5>>}, 9, FALSE)
    <2> DEFINE p == << <<12, 1, 5>>, <<5, 2, 3>>, <<2, 3, 6>> >>
    <2>1. Used(p) = 3..8
      <3>1. Targets(<<12, 1, 5>>) = 5..5 /\ Targets(<<5, 2, 3>>) = 3..4 /\ Targets(<<2, 3, 6>>) = 6..8
        BY DEF Targets
      <3>2. Used(p) = (5..5) \cup (3..4) \cup (6..8)
        BY <3>1, UsedBy
      <3> QED BY <3>2
    <2>2. 3 \in 3..8
      OBVIOUS
    <2>3. \E low \in Used(p) : Used(p) = low..8
      BY <2>1, <2>2, Zenon
    <2> QED BY <2>1, <2>3 DEF Good, Used, BitsOf, Targets
  <1>15. Good(<< <<12, 1, 17>>, <<2, 5, 12>> >>, {<<7, 5>>}, 18, TRUE)
    <2> DEFINE p == << <<12, 1, 17>>, <<2, 5, 12>> >>
    <2>1. Used(p) = 12..17
      <3>1. Targets(<<12, 1, 17>>) = 17..17 /\ Targets(<<2, 5, 12>>) = 12..16
        BY DEF Targets
      <3>2. Used(p) = (17..17) \cup (12..16)
        BY <3>1, UsedBy
      <3> QED BY <3>2
    <2>2. 12 \in 12..17
      OBVIOUS
    <2>3. \E low \in Used(p) : Used(p) = low..17
      BY <2>1, <2>2, Zenon
    <2> QED BY <2>1, <2>3 DEF Good, Used, BitsOf, Targets
  <1>16. Good(<< <<9, 4, 2>>, <<7, 2, 6>> >>, {<<2, 5>>}, 8, FALSE)
    <2> DEFINE p == << <<9, 4, 2>>, <<7, 2, 6>> >>
    <2>1. Used(p) = 2..7
      <3>1. Targets(<<9, 4, 2>>) = 2..5 /\ Targets(<<7, 2, 6>>) = 6..7
        BY DEF Targets
      <3>2. Used(p) = (2..5) \cup (6..7)
        BY <3>1, UsedBy
      <3> QED BY <3>2
    <2>2. 2 \in 2..7
      OBVIOUS
    <2>3. \E low \in Used(p) : Used(p) = low..7
      BY <2>1, <2>2, Zenon
    <2> QED BY <2>1, <2>3 DEF Good, Used, BitsOf, Targets
  <1>17. Good(<< <<10, 3, 3>>, <<7, 3, 6>> >>, {<<2, 5>>}, 9, FALSE)
    <2> DEFINE p == << <<10, 3, 3>>, <<7, 3, 6>> >>
    <2>1. Used(p) = 3..8
      <3>1. Targets(<<10, 3, 3>>) = 3..5 /\ Targets(<<7, 3, 6>>) = 6..8
        BY DEF Targets
      <3>2. Used(p) = (3..5) \cup (6..8)
        BY <3>1, UsedBy
      <3> QED BY <3>2
    <2>2. 3 \in 3..8
      OBVIOUS
    <2>3. \E low \in Used(p) : Used(p) = low..8
      BY <2>1, <2>2, Zenon
    <2> QED BY <2>1, <2>3 DEF Good, Used, BitsOf, Targets
  <1>18. Good(<< <<11, 2, 4>>, <<7, 4, 6>>, <<6, 1, 2>>, <<5, 1, 3>> >>, {<<2, 3>>}, 10, FALSE)
    <2> DEFINE p == << <<11, 2, 4>>, <<7, 4, 6>>, <<6, 1, 2>>, <<5, 1, 3>> >>
    <2>1. Used(p) = 2..9
      <3>1. Targets(<<11, 2, 4>>) = 4..5 /\ Targets(<<7, 4, 6>>) = 6..9
            /\ Targets(<<6, 1, 2>>) = 2..2 /\ Targets(<<5, 1, 3>>) = 3..3
        BY DEF Targets
      <3>2. Used(p) = (4..5) \cup (6..9) \cup (2..2) \cup (3..3)
        BY <3>1, UsedBy
      <3> QED BY <3>2
    <2>2. 2 \in 2..9
      OBVIOUS
    <2>3. \E low \in Used(p) : Used(p) = low..9
      BY <2>1, <2>2, Zenon
    <2> QED BY <2>1, <2>3 DEF Good, Used, BitsOf, Targets
  <1>19. Good(<< <<10, 3, 3>>, <<6, 1, 2>>, <<5, 1, 6>> >>, {<<2, 3>>, <<7, 3>>}, 7, FALSE)
    <2> DEFINE p == << <<10, 3, 3>>, <<6, 1, 2>>, <<5, 1, 6>> >>
    <2>1. Used(p) = 2..6
      <3>1. Targets(<<10, 3, 3>>) = 3..5 /\ Targets(<<6, 1, 2>>) = 2..2 /\ Targets(<<5, 1, 6>>) = 6..6
        BY DEF Targets
      <3>2. Used(p) = (3..5) \cup (2..2) \cup (6..6)
        BY <3>1, UsedBy
      <3> QED BY <3>2
    <2>2. 2 \in 2..6
      OBVIOUS
    <2>3. \E low \in Used(p) : Used(p) = low..6
      BY <2>1, <2>2, Zenon
    <2> QED BY <2>1, <2>3 DEF Good, Used, BitsOf, Targets
  <1>20. Good(<< <<10, 3, 3>>, <<5, 2, 6>> >>, {<<2, 3>>, <<7, 3>>}, 8, FALSE)
    <2> DEFINE p == << <<10, 3, 3>>, <<5, 2, 6>> >>
    <2>1. Used(p) = 3..7
      <3>1. Targets(<<10, 3, 3>>) = 3..5 /\ Targets(<<5, 2, 6>>) = 6..7
        BY DEF Targets
      <3>2. Used(p) = (3..5) \cup (6..7)
        BY <3>1, UsedBy
      <3> QED BY <3>2
    <2>2. 3 \in 3..7
      OBVIOUS
    <2>3. \E low \in Used(p) : Used(p) = low..7
      BY <2>1, <2>2, Zenon
    <2> QED BY <2>1, <2>3 DEF Good, Used, BitsOf, Targets
  <1>21. Good(<< <<12, 1, 8>>, <<10, 2, 3>>, <<5, 2, 6>>, <<3, 2, 1>>,
            <<2, 1, 5>> >>, {<<7, 3>>}, 9, TRUE)
    <2> DEFINE p == << <<12, 1, 8>>, <<10, 2, 3>>, <<5, 2, 6>>, <<3, 2, 1>>, <<2, 1, 5>> >>
    <2>1. Used(p) = 1..8
      <3>1. Targets(<<12, 1, 8>>) = 8..8 /\ Targets(<<10, 2, 3>>) = 3..4
            /\ Targets(<<5, 2, 6>>) = 6..7 /\ Targets(<<3, 2, 1>>) = 1..2 /\ Targets(<<2, 1, 5>>) = 5..5
        BY DEF Targets
      <3>2. Used(p) = (8..8) \cup (3..4) \cup (6..7) \cup (1..2) \cup (5..5)
        BY <3>1, UsedBy
      <3> QED BY <3>2
    <2>2. 1 \in 1..8
      OBVIOUS
    <2>3. \E low \in Used(p) : Used(p) = low..8
      BY <2>1, <2>2, Zenon
    <2> QED BY <2>1, <2>3 DEF Good, Used, BitsOf, Targets
  <1>22. Good(<< <<12, 1, 11>>, <<11, 1, 4>>, <<9, 2, 8>>, <<8, 1, 10>>, <<7, 1, 6>>, <<6, 1, 7>>,
            <<3, 3, 1>>, <<2, 1, 5>> >>, {}, 12, TRUE)
    <2> DEFINE p == << <<12, 1, 11>>, <<11, 1, 4>>, <<9, 2, 8>>, <<8, 1, 10>>, <<7, 1, 6>>,
                     <<6, 1, 7>>, <<3, 3, 1>>, <<2, 1, 5>> >>
    <2>1. Used(p) = 1..11
      <3>1. Targets(<<12, 1, 11>>) = 11..11 /\ Targets(<<11, 1, 4>>) = 4..4
            /\ Targets(<<9, 2, 8>>) = 8..9 /\ Targets(<<8, 1, 10>>) = 10..10
            /\ Targets(<<7, 1, 6>>) = 6..6 /\ Targets(<<6, 1, 7>>) = 7..7
            /\ Targets(<<3, 3, 1>>) = 1..3 /\ Targets(<<2, 1, 5>>) = 5..5
        BY DEF Targets
      <3>2. Used(p) = (11..11) \cup (4..4) \cup (8..9) \cup (10..10) \cup (6..6) \cup (7..7)
                      \cup (1..3) \cup (5..5)
        BY <3>1, UsedBy
      <3> QED BY <3>2
    <2>2. 1 \in 1..11
      OBVIOUS
    <2>3. \E low \in Used(p) : Used(p) = low..11
      BY <2>1, <2>2, Zenon
    <2> QED BY <2>1, <2>3 DEF Good, Used, BitsOf, Targets
  <1> QED BY <1>1, <1>2, <1>3, <1>4, <1>5, <1>6, <1>7, <1>8, <1>9, <1>10, <1>11, <1>12, <1>13, <1>14,
             <1>15, <1>16, <1>17, <1>18, <1>19, <1>20, <1>21, <1>22

\* What the tables say of a format.
Row(f, pieces, fields, top, signed) ==
    /\ f \in DOMAIN Layout /\ Layout[f] = pieces
    /\ ToSet(Registers[f]) = fields
    /\ f \in DOMAIN SignWidth <=> signed
    /\ top = IF f \in DOMAIN SignWidth THEN SignWidth[f] ELSE ZeroWidth[f]

LEMMA Rows ==
    /\ Row("I", << <<20, 12, 0>> >>, {<<7, 5>>, <<15, 5>>}, 12, TRUE)
    /\ Row("S", << <<25, 7, 5>>, <<7, 5, 0>> >>, {<<15, 5>>, <<20, 5>>}, 12, TRUE)
    /\ Row("B", << <<31, 1, 12>>, <<25, 6, 5>>, <<8, 4, 1>>, <<7, 1, 11>> >>, {<<15, 5>>,
             <<20, 5>>}, 13, TRUE)
    /\ Row("U", << <<12, 20, 0>> >>, {<<7, 5>>}, 20, TRUE)
    /\ Row("J", << <<31, 1, 20>>, <<21, 10, 1>>, <<20, 1, 11>>, <<12, 8, 12>> >>, {<<7, 5>>}, 21, TRUE)
    /\ Row("ShiftImm_32", << <<20, 5, 0>> >>, {<<7, 5>>, <<15, 5>>}, 5, FALSE)
    /\ Row("ShiftImm_64", << <<20, 6, 0>> >>, {<<7, 5>>, <<15, 5>>}, 6, FALSE)
    /\ Row("Csr", << <<20, 12, 0>> >>, {<<7, 5>>, <<15, 5>>}, 12, FALSE)
    /\ Row("CsrImm", << <<20, 12, 0>> >>, {<<7, 5>>, <<15, 5>>}, 12, FALSE)
    /\ Row("CI", << <<12, 1, 5>>, <<2, 5, 0>> >>, {<<7, 5>>}, 6, TRUE)
    /\ Row("CI_AluImm", << <<12, 1, 5>>, <<2, 5, 0>> >>, {<<7, 3>>}, 6, TRUE)
    /\ Row("CI_Shift", << <<12, 1, 5>>, <<2, 5, 0>> >>, {<<7, 3>>}, 6, FALSE)
    /\ Row("CI_ADDI16SP", << <<12, 1, 9>>, <<6, 1, 4>>, <<5, 1, 6>>, <<3, 2, 7>>,
             <<2, 1, 5>> >>, {<<7, 5>>}, 10, TRUE)
    /\ Row("CI_LoadSP4", << <<12, 1, 5>>, <<4, 3, 2>>, <<2, 2, 6>> >>, {<<7, 5>>}, 8, FALSE)
    /\ Row("CI_LoadSP8", << <<12, 1, 5>>, <<5, 2, 3>>, <<2, 3, 6>> >>, {<<7, 5>>}, 9, FALSE)
    /\ Row("CI_LUI", << <<12, 1, 17>>, <<2, 5, 12>> >>, {<<7, 5>>}, 18, TRUE)
    /\ Row("CSS4", << <<9, 4, 2>>, <<7, 2, 6>> >>, {<<2, 5>>}, 8, FALSE)
    /\ Row("CSS8", << <<10, 3, 3>>, <<7, 3, 6>> >>, {<<2, 5>>}, 9, FALSE)
    /\ Row("CIW", << <<11, 2, 4>>, <<7, 4, 6>>, <<6, 1, 2>>, <<5, 1, 3>> >>, {<<2, 3>>}, 10, FALSE)
    /\ Row("CL4", << <<10, 3, 3>>, <<6, 1, 2>>, <<5, 1, 6>> >>, {<<2, 3>>, <<7, 3>>}, 7, FALSE)
    /\ Row("CS4", << <<10, 3, 3>>, <<6, 1, 2>>, <<5, 1, 6>> >>, {<<2, 3>>, <<7, 3>>}, 7, FALSE)
    /\ Row("CL8", << <<10, 3, 3>>, <<5, 2, 6>> >>, {<<2, 3>>, <<7, 3>>}, 8, FALSE)
    /\ Row("CS8", << <<10, 3, 3>>, <<5, 2, 6>> >>, {<<2, 3>>, <<7, 3>>}, 8, FALSE)
    /\ Row("CB", << <<12, 1, 8>>, <<10, 2, 3>>, <<5, 2, 6>>, <<3, 2, 1>>,
             <<2, 1, 5>> >>, {<<7, 3>>}, 9, TRUE)
    /\ Row("CJ", << <<12, 1, 11>>, <<11, 1, 4>>, <<9, 2, 8>>, <<8, 1, 10>>, <<7, 1, 6>>, <<6, 1, 7>>,
             <<3, 3, 1>>, <<2, 1, 5>> >>, {}, 12, TRUE)
  <1>1. Row("I", << <<20, 12, 0>> >>, {<<7, 5>>, <<15, 5>>}, 12, TRUE)
    <2>1. "I" \in DOMAIN Layout32 /\ "I" \in DOMAIN Layout
      BY LayoutOf DEF Layout32
    <2>2. Layout["I"] = << <<20, 12, 0>> >>
      BY <2>1, LayoutOf DEF Layout32
    <2>3. ToSet(Registers["I"]) = {<<7, 5>>, <<15, 5>>}
      BY DEF ToSet, Registers
    <2> QED BY <2>1, <2>2, <2>3 DEF Row, SignWidth, ZeroWidth
  <1>2. Row("S", << <<25, 7, 5>>, <<7, 5, 0>> >>, {<<15, 5>>, <<20, 5>>}, 12, TRUE)
    <2>1. "S" \in DOMAIN Layout32 /\ "S" \in DOMAIN Layout
      BY LayoutOf DEF Layout32
    <2>2. Layout["S"] = << <<25, 7, 5>>, <<7, 5, 0>> >>
      BY <2>1, LayoutOf DEF Layout32
    <2>3. ToSet(Registers["S"]) = {<<15, 5>>, <<20, 5>>}
      BY DEF ToSet, Registers
    <2> QED BY <2>1, <2>2, <2>3 DEF Row, SignWidth, ZeroWidth
  <1>3. Row("B", << <<31, 1, 12>>, <<25, 6, 5>>, <<8, 4, 1>>, <<7, 1, 11>> >>, {<<15, 5>>,
             <<20, 5>>}, 13, TRUE)
    <2>1. "B" \in DOMAIN Layout32 /\ "B" \in DOMAIN Layout
      BY LayoutOf DEF Layout32
    <2>2. Layout["B"] = << <<31, 1, 12>>, <<25, 6, 5>>, <<8, 4, 1>>, <<7, 1, 11>> >>
      BY <2>1, LayoutOf DEF Layout32
    <2>3. ToSet(Registers["B"]) = {<<15, 5>>, <<20, 5>>}
      BY DEF ToSet, Registers
    <2> QED BY <2>1, <2>2, <2>3 DEF Row, SignWidth, ZeroWidth
  <1>4. Row("U", << <<12, 20, 0>> >>, {<<7, 5>>}, 20, TRUE)
    <2>1. "U" \in DOMAIN Layout32 /\ "U" \in DOMAIN Layout
      BY LayoutOf DEF Layout32
    <2>2. Layout["U"] = << <<12, 20, 0>> >>
      BY <2>1, LayoutOf DEF Layout32
    <2>3. ToSet(Registers["U"]) = {<<7, 5>>}
      BY DEF ToSet, Registers
    <2> QED BY <2>1, <2>2, <2>3 DEF Row, SignWidth, ZeroWidth
  <1>5. Row("J", << <<31, 1, 20>>, <<21, 10, 1>>, <<20, 1, 11>>, <<12, 8, 12>> >>, {<<7, 5>>}, 21, TRUE)
    <2>1. "J" \in DOMAIN Layout32 /\ "J" \in DOMAIN Layout
      BY LayoutOf DEF Layout32
    <2>2. Layout["J"] = << <<31, 1, 20>>, <<21, 10, 1>>, <<20, 1, 11>>, <<12, 8, 12>> >>
      BY <2>1, LayoutOf DEF Layout32
    <2>3. ToSet(Registers["J"]) = {<<7, 5>>}
      BY DEF ToSet, Registers
    <2> QED BY <2>1, <2>2, <2>3 DEF Row, SignWidth, ZeroWidth
  <1>6. Row("ShiftImm_32", << <<20, 5, 0>> >>, {<<7, 5>>, <<15, 5>>}, 5, FALSE)
    <2>1. "ShiftImm_32" \in DOMAIN Layout32 /\ "ShiftImm_32" \in DOMAIN Layout
      BY LayoutOf DEF Layout32
    <2>2. Layout["ShiftImm_32"] = << <<20, 5, 0>> >>
      BY <2>1, LayoutOf DEF Layout32
    <2>3. ToSet(Registers["ShiftImm_32"]) = {<<7, 5>>, <<15, 5>>}
      BY DEF ToSet, Registers
    <2> QED BY <2>1, <2>2, <2>3 DEF Row, SignWidth, ZeroWidth
  <1>7. Row("ShiftImm_64", << <<20, 6, 0>> >>, {<<7, 5>>, <<15, 5>>}, 6, FALSE)
    <2>1. "ShiftImm_64" \in DOMAIN Layout32 /\ "ShiftImm_64" \in DOMAIN Layout
      BY LayoutOf DEF Layout32
    <2>2. Layout["ShiftImm_64"] = << <<20, 6, 0>> >>
      BY <2>1, LayoutOf DEF Layout32
    <2>3. ToSet(Registers["ShiftImm_64"]) = {<<7, 5>>, <<15, 5>>}
      BY DEF ToSet, Registers
    <2> QED BY <2>1, <2>2, <2>3 DEF Row, SignWidth, ZeroWidth
  <1>8. Row("Csr", << <<20, 12, 0>> >>, {<<7, 5>>, <<15, 5>>}, 12, FALSE)
    <2>1. "Csr" \in DOMAIN Layout32 /\ "Csr" \in DOMAIN Layout
      BY LayoutOf DEF Layout32
    <2>2. Layout["Csr"] = << <<20, 12, 0>> >>
      BY <2>1, LayoutOf DEF Layout32
    <2>3. ToSet(Registers["Csr"]) = {<<7, 5>>, <<15, 5>>}
      BY DEF ToSet, Registers
    <2> QED BY <2>1, <2>2, <2>3 DEF Row, SignWidth, ZeroWidth
  <1>9. Row("CsrImm", << <<20, 12, 0>> >>, {<<7, 5>>, <<15, 5>>}, 12, FALSE)
    <2>1. "CsrImm" \in DOMAIN Layout32 /\ "CsrImm" \in DOMAIN Layout
      BY LayoutOf DEF Layout32
    <2>2. Layout["CsrImm"] = << <<20, 12, 0>> >>
      BY <2>1, LayoutOf DEF Layout32
    <2>3. ToSet(Registers["CsrImm"]) = {<<7, 5>>, <<15, 5>>}
      BY DEF ToSet, Registers
    <2> QED BY <2>1, <2>2, <2>3 DEF Row, SignWidth, ZeroWidth
  <1>10. Row("CI", << <<12, 1, 5>>, <<2, 5, 0>> >>, {<<7, 5>>}, 6, TRUE)
    <2>1. "CI" \in DOMAIN LayoutCI /\ "CI" \in DOMAIN Layout
      BY LayoutOf DEF LayoutCI
    <2>2. Layout["CI"] = << <<12, 1, 5>>, <<2, 5, 0>> >>
      BY <2>1, LayoutOf DEF LayoutCI
    <2>3. ToSet(Registers["CI"]) = {<<7, 5>>}
      BY DEF ToSet, Registers
    <2> QED BY <2>1, <2>2, <2>3 DEF Row, SignWidth, ZeroWidth
  <1>11. Row("CI_AluImm", << <<12, 1, 5>>, <<2, 5, 0>> >>, {<<7, 3>>}, 6, TRUE)
    <2>1. "CI_AluImm" \in DOMAIN LayoutCI /\ "CI_AluImm" \in DOMAIN Layout
      BY LayoutOf DEF LayoutCI
    <2>2. Layout["CI_AluImm"] = << <<12, 1, 5>>, <<2, 5, 0>> >>
      BY <2>1, LayoutOf DEF LayoutCI
    <2>3. ToSet(Registers["CI_AluImm"]) = {<<7, 3>>}
      BY DEF ToSet, Registers
    <2> QED BY <2>1, <2>2, <2>3 DEF Row, SignWidth, ZeroWidth
  <1>12. Row("CI_Shift", << <<12, 1, 5>>, <<2, 5, 0>> >>, {<<7, 3>>}, 6, FALSE)
    <2>1. "CI_Shift" \in DOMAIN LayoutCI /\ "CI_Shift" \in DOMAIN Layout
      BY LayoutOf DEF LayoutCI
    <2>2. Layout["CI_Shift"] = << <<12, 1, 5>>, <<2, 5, 0>> >>
      BY <2>1, LayoutOf DEF LayoutCI
    <2>3. ToSet(Registers["CI_Shift"]) = {<<7, 3>>}
      BY DEF ToSet, Registers
    <2> QED BY <2>1, <2>2, <2>3 DEF Row, SignWidth, ZeroWidth
  <1>13. Row("CI_ADDI16SP", << <<12, 1, 9>>, <<6, 1, 4>>, <<5, 1, 6>>, <<3, 2, 7>>,
             <<2, 1, 5>> >>, {<<7, 5>>}, 10, TRUE)
    <2>1. "CI_ADDI16SP" \in DOMAIN LayoutCI /\ "CI_ADDI16SP" \in DOMAIN Layout
      BY LayoutOf DEF LayoutCI
    <2>2. Layout["CI_ADDI16SP"] = << <<12, 1, 9>>, <<6, 1, 4>>, <<5, 1, 6>>, <<3, 2, 7>>, <<2, 1, 5>> >>
      BY <2>1, LayoutOf DEF LayoutCI
    <2>3. ToSet(Registers["CI_ADDI16SP"]) = {<<7, 5>>}
      BY DEF ToSet, Registers
    <2> QED BY <2>1, <2>2, <2>3 DEF Row, SignWidth, ZeroWidth
  <1>14. Row("CI_LoadSP4", << <<12, 1, 5>>, <<4, 3, 2>>, <<2, 2, 6>> >>, {<<7, 5>>}, 8, FALSE)
    <2>1. "CI_LoadSP4" \in DOMAIN LayoutStack /\ "CI_LoadSP4" \in DOMAIN Layout
      BY LayoutOf DEF LayoutStack
    <2>2. Layout["CI_LoadSP4"] = << <<12, 1, 5>>, <<4, 3, 2>>, <<2, 2, 6>> >>
      BY <2>1, LayoutOf DEF LayoutStack
    <2>3. ToSet(Registers["CI_LoadSP4"]) = {<<7, 5>>}
      BY DEF ToSet, Registers
    <2> QED BY <2>1, <2>2, <2>3 DEF Row, SignWidth, ZeroWidth
  <1>15. Row("CI_LoadSP8", << <<12, 1, 5>>, <<5, 2, 3>>, <<2, 3, 6>> >>, {<<7, 5>>}, 9, FALSE)
    <2>1. "CI_LoadSP8" \in DOMAIN LayoutStack /\ "CI_LoadSP8" \in DOMAIN Layout
      BY LayoutOf DEF LayoutStack
    <2>2. Layout["CI_LoadSP8"] = << <<12, 1, 5>>, <<5, 2, 3>>, <<2, 3, 6>> >>
      BY <2>1, LayoutOf DEF LayoutStack
    <2>3. ToSet(Registers["CI_LoadSP8"]) = {<<7, 5>>}
      BY DEF ToSet, Registers
    <2> QED BY <2>1, <2>2, <2>3 DEF Row, SignWidth, ZeroWidth
  <1>16. Row("CI_LUI", << <<12, 1, 17>>, <<2, 5, 12>> >>, {<<7, 5>>}, 18, TRUE)
    <2>1. "CI_LUI" \in DOMAIN LayoutStack /\ "CI_LUI" \in DOMAIN Layout
      BY LayoutOf DEF LayoutStack
    <2>2. Layout["CI_LUI"] = << <<12, 1, 17>>, <<2, 5, 12>> >>
      BY <2>1, LayoutOf DEF LayoutStack
    <2>3. ToSet(Registers["CI_LUI"]) = {<<7, 5>>}
      BY DEF ToSet, Registers
    <2> QED BY <2>1, <2>2, <2>3 DEF Row, SignWidth, ZeroWidth
  <1>17. Row("CSS4", << <<9, 4, 2>>, <<7, 2, 6>> >>, {<<2, 5>>}, 8, FALSE)
    <2>1. "CSS4" \in DOMAIN LayoutStack /\ "CSS4" \in DOMAIN Layout
      BY LayoutOf DEF LayoutStack
    <2>2. Layout["CSS4"] = << <<9, 4, 2>>, <<7, 2, 6>> >>
      BY <2>1, LayoutOf DEF LayoutStack
    <2>3. ToSet(Registers["CSS4"]) = {<<2, 5>>}
      BY DEF ToSet, Registers
    <2> QED BY <2>1, <2>2, <2>3 DEF Row, SignWidth, ZeroWidth
  <1>18. Row("CSS8", << <<10, 3, 3>>, <<7, 3, 6>> >>, {<<2, 5>>}, 9, FALSE)
    <2>1. "CSS8" \in DOMAIN LayoutStack /\ "CSS8" \in DOMAIN Layout
      BY LayoutOf DEF LayoutStack
    <2>2. Layout["CSS8"] = << <<10, 3, 3>>, <<7, 3, 6>> >>
      BY <2>1, LayoutOf DEF LayoutStack
    <2>3. ToSet(Registers["CSS8"]) = {<<2, 5>>}
      BY DEF ToSet, Registers
    <2> QED BY <2>1, <2>2, <2>3 DEF Row, SignWidth, ZeroWidth
  <1>19. Row("CIW", << <<11, 2, 4>>, <<7, 4, 6>>, <<6, 1, 2>>, <<5, 1, 3>> >>, {<<2, 3>>}, 10, FALSE)
    <2>1. "CIW" \in DOMAIN LayoutStack /\ "CIW" \in DOMAIN Layout
      BY LayoutOf DEF LayoutStack
    <2>2. Layout["CIW"] = << <<11, 2, 4>>, <<7, 4, 6>>, <<6, 1, 2>>, <<5, 1, 3>> >>
      BY <2>1, LayoutOf DEF LayoutStack
    <2>3. ToSet(Registers["CIW"]) = {<<2, 3>>}
      BY DEF ToSet, Registers
    <2> QED BY <2>1, <2>2, <2>3 DEF Row, SignWidth, ZeroWidth
  <1>20. Row("CL4", << <<10, 3, 3>>, <<6, 1, 2>>, <<5, 1, 6>> >>, {<<2, 3>>, <<7, 3>>}, 7, FALSE)
    <2>1. "CL4" \in DOMAIN LayoutMemory /\ "CL4" \in DOMAIN Layout
      BY LayoutOf DEF LayoutMemory
    <2>2. Layout["CL4"] = << <<10, 3, 3>>, <<6, 1, 2>>, <<5, 1, 6>> >>
      BY <2>1, LayoutOf DEF LayoutMemory
    <2>3. ToSet(Registers["CL4"]) = {<<2, 3>>, <<7, 3>>}
      BY DEF ToSet, Registers
    <2> QED BY <2>1, <2>2, <2>3 DEF Row, SignWidth, ZeroWidth
  <1>21. Row("CS4", << <<10, 3, 3>>, <<6, 1, 2>>, <<5, 1, 6>> >>, {<<2, 3>>, <<7, 3>>}, 7, FALSE)
    <2>1. "CS4" \in DOMAIN LayoutMemory /\ "CS4" \in DOMAIN Layout
      BY LayoutOf DEF LayoutMemory
    <2>2. Layout["CS4"] = << <<10, 3, 3>>, <<6, 1, 2>>, <<5, 1, 6>> >>
      BY <2>1, LayoutOf DEF LayoutMemory
    <2>3. ToSet(Registers["CS4"]) = {<<2, 3>>, <<7, 3>>}
      BY DEF ToSet, Registers
    <2> QED BY <2>1, <2>2, <2>3 DEF Row, SignWidth, ZeroWidth
  <1>22. Row("CL8", << <<10, 3, 3>>, <<5, 2, 6>> >>, {<<2, 3>>, <<7, 3>>}, 8, FALSE)
    <2>1. "CL8" \in DOMAIN LayoutMemory /\ "CL8" \in DOMAIN Layout
      BY LayoutOf DEF LayoutMemory
    <2>2. Layout["CL8"] = << <<10, 3, 3>>, <<5, 2, 6>> >>
      BY <2>1, LayoutOf DEF LayoutMemory
    <2>3. ToSet(Registers["CL8"]) = {<<2, 3>>, <<7, 3>>}
      BY DEF ToSet, Registers
    <2> QED BY <2>1, <2>2, <2>3 DEF Row, SignWidth, ZeroWidth
  <1>23. Row("CS8", << <<10, 3, 3>>, <<5, 2, 6>> >>, {<<2, 3>>, <<7, 3>>}, 8, FALSE)
    <2>1. "CS8" \in DOMAIN LayoutMemory /\ "CS8" \in DOMAIN Layout
      BY LayoutOf DEF LayoutMemory
    <2>2. Layout["CS8"] = << <<10, 3, 3>>, <<5, 2, 6>> >>
      BY <2>1, LayoutOf DEF LayoutMemory
    <2>3. ToSet(Registers["CS8"]) = {<<2, 3>>, <<7, 3>>}
      BY DEF ToSet, Registers
    <2> QED BY <2>1, <2>2, <2>3 DEF Row, SignWidth, ZeroWidth
  <1>24. Row("CB", << <<12, 1, 8>>, <<10, 2, 3>>, <<5, 2, 6>>, <<3, 2, 1>>,
             <<2, 1, 5>> >>, {<<7, 3>>}, 9, TRUE)
    <2>1. "CB" \in DOMAIN LayoutJump /\ "CB" \in DOMAIN Layout
      BY LayoutOf DEF LayoutJump
    <2>2. Layout["CB"] = << <<12, 1, 8>>, <<10, 2, 3>>, <<5, 2, 6>>, <<3, 2, 1>>, <<2, 1, 5>> >>
      BY <2>1, LayoutOf DEF LayoutJump
    <2>3. ToSet(Registers["CB"]) = {<<7, 3>>}
      BY DEF ToSet, Registers
    <2> QED BY <2>1, <2>2, <2>3 DEF Row, SignWidth, ZeroWidth
  <1>25. Row("CJ", << <<12, 1, 11>>, <<11, 1, 4>>, <<9, 2, 8>>, <<8, 1, 10>>, <<7, 1, 6>>,
             <<6, 1, 7>>, <<3, 3, 1>>, <<2, 1, 5>> >>, {}, 12, TRUE)
    <2>1. "CJ" \in DOMAIN LayoutJump /\ "CJ" \in DOMAIN Layout
      BY LayoutOf DEF LayoutJump
    <2>2. Layout["CJ"] = << <<12, 1, 11>>, <<11, 1, 4>>, <<9, 2, 8>>, <<8, 1, 10>>, <<7, 1, 6>>, <<6, 1, 7>>,
                    <<3, 3, 1>>, <<2, 1, 5>> >>
      BY <2>1, LayoutOf DEF LayoutJump
    <2>3. ToSet(Registers["CJ"]) = {}
      BY DEF ToSet, Registers
    <2> QED BY <2>1, <2>2, <2>3 DEF Row, SignWidth, ZeroWidth
  <1> QED BY <1>1, <1>2, <1>3, <1>4, <1>5, <1>6, <1>7, <1>8, <1>9, <1>10, <1>11, <1>12, <1>13, <1>14,
             <1>15, <1>16, <1>17, <1>18, <1>19, <1>20, <1>21, <1>22, <1>23, <1>24, <1>25

LEMMA WellFormedRow ==
    ASSUME NEW f, NEW pieces, NEW fields, NEW top
    PROVE  /\ Row(f, pieces, fields, top, TRUE) /\ Good(pieces, fields, top, TRUE) => WellFormed[f]
           /\ Row(f, pieces, fields, top, FALSE) /\ Good(pieces, fields, top, FALSE) => WellFormed[f]
  <1>1. ASSUME Row(f, pieces, fields, top, TRUE), Good(pieces, fields, top, TRUE) PROVE WellFormed[f]
    BY <1>1, WellFormedGood DEF Row
  <1>2. ASSUME Row(f, pieces, fields, top, FALSE), Good(pieces, fields, top, FALSE) PROVE WellFormed[f]
    <2>1. f \in DOMAIN Layout /\ f \notin DOMAIN SignWidth /\ Layout[f] = pieces
          /\ ToSet(Registers[f]) = fields /\ top = ZeroWidth[f]
      BY <1>2 DEF Row
    <2>2. Good(pieces, fields, ZeroWidth[f], f \in DOMAIN SignWidth)
      BY <1>2, <2>1 DEF Good
    <2>3. (IF f \in DOMAIN SignWidth THEN SignWidth[f] ELSE ZeroWidth[f]) = ZeroWidth[f]
      BY <2>1
    <2> QED BY <2>1, <2>2, <2>3, WellFormedGood
  <1> QED BY <1>1, <1>2

LEMMA FormatsWellFormed == \A f \in DOMAIN Layout : WellFormed[f]
  <1>1. WellFormed["I"]
    BY Rows, FormatsGood, WellFormedRow, Zenon
  <1>2. WellFormed["S"]
    BY Rows, FormatsGood, WellFormedRow, Zenon
  <1>3. WellFormed["B"]
    BY Rows, FormatsGood, WellFormedRow, Zenon
  <1>4. WellFormed["U"]
    BY Rows, FormatsGood, WellFormedRow, Zenon
  <1>5. WellFormed["J"]
    BY Rows, FormatsGood, WellFormedRow, Zenon
  <1>6. WellFormed["ShiftImm_32"]
    BY Rows, FormatsGood, WellFormedRow, Zenon
  <1>7. WellFormed["ShiftImm_64"]
    BY Rows, FormatsGood, WellFormedRow, Zenon
  <1>8. WellFormed["Csr"]
    BY Rows, FormatsGood, WellFormedRow, Zenon
  <1>9. WellFormed["CsrImm"]
    BY Rows, FormatsGood, WellFormedRow, Zenon
  <1>10. WellFormed["CI"]
    BY Rows, FormatsGood, WellFormedRow, Zenon
  <1>11. WellFormed["CI_AluImm"]
    BY Rows, FormatsGood, WellFormedRow, Zenon
  <1>12. WellFormed["CI_Shift"]
    BY Rows, FormatsGood, WellFormedRow, Zenon
  <1>13. WellFormed["CI_ADDI16SP"]
    BY Rows, FormatsGood, WellFormedRow, Zenon
  <1>14. WellFormed["CI_LoadSP4"]
    BY Rows, FormatsGood, WellFormedRow, Zenon
  <1>15. WellFormed["CI_LoadSP8"]
    BY Rows, FormatsGood, WellFormedRow, Zenon
  <1>16. WellFormed["CI_LUI"]
    BY Rows, FormatsGood, WellFormedRow, Zenon
  <1>17. WellFormed["CSS4"]
    BY Rows, FormatsGood, WellFormedRow, Zenon
  <1>18. WellFormed["CSS8"]
    BY Rows, FormatsGood, WellFormedRow, Zenon
  <1>19. WellFormed["CIW"]
    BY Rows, FormatsGood, WellFormedRow, Zenon
  <1>20. WellFormed["CL4"]
    BY Rows, FormatsGood, WellFormedRow, Zenon
  <1>21. WellFormed["CS4"]
    BY Rows, FormatsGood, WellFormedRow, Zenon
  <1>22. WellFormed["CL8"]
    BY Rows, FormatsGood, WellFormedRow, Zenon
  <1>23. WellFormed["CS8"]
    BY Rows, FormatsGood, WellFormedRow, Zenon
  <1>24. WellFormed["CB"]
    BY Rows, FormatsGood, WellFormedRow, Zenon
  <1>25. WellFormed["CJ"]
    BY Rows, FormatsGood, WellFormedRow, Zenon
  <1>26. \A f \in DOMAIN NoLayout : WellFormed[f]
    <2>1. DOMAIN NoLayout = {"R", "R4", "Fence", "CR", "CR_Alu", "None"}
      BY DEF NoLayout
    <2>2. ASSUME NEW f \in DOMAIN NoLayout, NEW fields, fields = ToSet(Registers[f]),
                 \A g1, g2 \in fields : g1 = g2 \/ BitsOf(g1) \cap BitsOf(g2) = {}
          PROVE  WellFormed[f]
      <3>1. f \in DOMAIN Layout /\ Layout[f] = <<>> /\ f \notin DOMAIN SignWidth
        BY <2>1, LayoutOf DEF SignWidth
      <3>2. PICK top : top = IF f \in DOMAIN SignWidth THEN SignWidth[f] ELSE ZeroWidth[f]
        OBVIOUS
      <3>3. Good(<<>>, fields, top, FALSE)
        BY <2>2 DEF Good
      <3>4. Row(f, <<>>, fields, top, FALSE)
        BY <2>2, <3>1, <3>2 DEF Row
      <3> QED BY <3>3, <3>4, WellFormedRow
    <2>3. WellFormed["R"]
      <3>1. ToSet(Registers["R"]) = {<<7, 5>>, <<15, 5>>, <<20, 5>>}
        BY DEF ToSet, Registers
      <3>2. \A g1, g2 \in {<<7, 5>>, <<15, 5>>, <<20, 5>>} : g1 = g2 \/ BitsOf(g1) \cap BitsOf(g2) = {}
        BY DEF BitsOf
      <3> QED BY <2>1, <2>2, <3>1, <3>2
    <2>4. WellFormed["R4"]
      <3>1. ToSet(Registers["R4"]) = {<<7, 5>>, <<15, 5>>, <<20, 5>>, <<27, 5>>}
        BY DEF ToSet, Registers
      <3>2. \A g1, g2 \in {<<7, 5>>, <<15, 5>>, <<20, 5>>, <<27, 5>>} : g1 = g2 \/ BitsOf(g1) \cap BitsOf(g2) = {}
        BY DEF BitsOf
      <3> QED BY <2>1, <2>2, <3>1, <3>2
    <2>5. WellFormed["Fence"]
      <3>1. ToSet(Registers["Fence"]) = {<<20, 4>>, <<24, 4>>}
        BY DEF ToSet, Registers
      <3>2. \A g1, g2 \in {<<20, 4>>, <<24, 4>>} : g1 = g2 \/ BitsOf(g1) \cap BitsOf(g2) = {}
        BY DEF BitsOf
      <3> QED BY <2>1, <2>2, <3>1, <3>2
    <2>6. WellFormed["CR"]
      <3>1. ToSet(Registers["CR"]) = {<<2, 5>>, <<7, 5>>}
        BY DEF ToSet, Registers
      <3>2. \A g1, g2 \in {<<2, 5>>, <<7, 5>>} : g1 = g2 \/ BitsOf(g1) \cap BitsOf(g2) = {}
        BY DEF BitsOf
      <3> QED BY <2>1, <2>2, <3>1, <3>2
    <2>7. WellFormed["CR_Alu"]
      <3>1. ToSet(Registers["CR_Alu"]) = {<<2, 3>>, <<7, 3>>}
        BY DEF ToSet, Registers
      <3>2. \A g1, g2 \in {<<2, 3>>, <<7, 3>>} : g1 = g2 \/ BitsOf(g1) \cap BitsOf(g2) = {}
        BY DEF BitsOf
      <3> QED BY <2>1, <2>2, <3>1, <3>2
    <2>8. WellFormed["None"]
      <3>1. ToSet(Registers["None"]) = {}
        BY DEF ToSet, Registers
      <3>2. \A g1, g2 \in {} : g1 = g2 \/ BitsOf(g1) \cap BitsOf(g2) = {}
        BY DEF BitsOf
      <3> QED BY <2>1, <2>2, <3>1, <3>2
    <2> QED BY <2>1, <2>3, <2>4, <2>5, <2>6, <2>7, <2>8
  <1>27. ASSUME NEW f \in DOMAIN Layout, f \notin DOMAIN NoLayout
         PROVE  f \in {"I", "S", "B", "U", "J", "ShiftImm_32", "ShiftImm_64", "Csr", "CsrImm",
                       "CI", "CI_AluImm", "CI_Shift", "CI_ADDI16SP",
                       "CI_LoadSP4", "CI_LoadSP8", "CI_LUI", "CSS4", "CSS8", "CIW",
                       "CL4", "CL8", "CS4", "CS8", "CB", "CJ"}
    BY <1>27, LayoutOf DEF NoLayout
  <1> QED BY <1>26, <1>27, <1>1, <1>2, <1>3, <1>4, <1>5, <1>6, <1>7, <1>8, <1>9, <1>10, <1>11, <1>12,
             <1>13, <1>14, <1>15, <1>16, <1>17, <1>18, <1>19, <1>20, <1>21, <1>22, <1>23, <1>24, <1>25

\* The exponent of the unit of an offset, by the format.
UnitOf(format) ==
    CASE format \in {"B", "J", "CB", "CJ"} -> 1
      [] format \in {"CL4", "CS4", "CI_LoadSP4", "CSS4", "CIW"} -> 2
      [] format \in {"CL8", "CS8", "CI_LoadSP8", "CSS8"} -> 3
      [] format = "CI_ADDI16SP" -> 4
      [] format = "CI_LUI" -> 12

WithUnit == {"B", "J", "CB", "CJ", "CL4", "CS4", "CI_LoadSP4", "CSS4", "CIW",
             "CL8", "CS8", "CI_LoadSP8", "CSS8", "CI_ADDI16SP", "CI_LUI"}

\* An offset is a multiple of the unit of its format.
LEMMA OffsetMultiple ==
    ASSUME NEW insn \in Nat \X Nat, NEW format \in WithUnit
    PROVE  Immediate(format, insn) % Power[UnitOf(format)] = 0
  <1> DEFINE e == UnitOf(format)
  <1>1. e \in 0..64
    BY DEF WithUnit, UnitOf
  <1>2. ShiftedFrom(Layout[format], e)
    <2>0. ASSUME NEW f, NEW pieces, NEW fields, NEW top, NEW signed, Row(f, pieces, fields, top, signed)
          PROVE  Layout[f] = pieces
      BY <2>0 DEF Row
    <2>1. CASE format = "B"
      <3>1. Layout["B"] = << <<31, 1, 12>>, <<25, 6, 5>>, <<8, 4, 1>>, <<7, 1, 11>> >>
        BY <2>0, Rows, Zenon
      <3>2. e = 1
        BY <2>1 DEF UnitOf
      <3> HIDE DEF e
      <3> QED BY <2>1, <3>1, <3>2 DEF ShiftedFrom
    <2>2. CASE format = "J"
      <3>1. Layout["J"] = << <<31, 1, 20>>, <<21, 10, 1>>, <<20, 1, 11>>, <<12, 8, 12>> >>
        BY <2>0, Rows, Zenon
      <3>2. e = 1
        BY <2>2 DEF UnitOf
      <3> HIDE DEF e
      <3> QED BY <2>2, <3>1, <3>2 DEF ShiftedFrom
    <2>3. CASE format = "CB"
      <3>1. Layout["CB"] = << <<12, 1, 8>>, <<10, 2, 3>>, <<5, 2, 6>>, <<3, 2, 1>>, <<2, 1, 5>> >>
        BY <2>0, Rows, Zenon
      <3>2. e = 1
        BY <2>3 DEF UnitOf
      <3> HIDE DEF e
      <3> QED BY <2>3, <3>1, <3>2 DEF ShiftedFrom
    <2>4. CASE format = "CJ"
      <3>1. Layout["CJ"] = << <<12, 1, 11>>, <<11, 1, 4>>, <<9, 2, 8>>, <<8, 1, 10>>, <<7, 1, 6>>, <<6, 1, 7>>,
              <<3, 3, 1>>, <<2, 1, 5>> >>
        BY <2>0, Rows, Zenon
      <3>2. e = 1
        BY <2>4 DEF UnitOf
      <3> HIDE DEF e
      <3> QED BY <2>4, <3>1, <3>2 DEF ShiftedFrom
    <2>5. CASE format = "CL4"
      <3>1. Layout["CL4"] = << <<10, 3, 3>>, <<6, 1, 2>>, <<5, 1, 6>> >>
        BY <2>0, Rows, Zenon
      <3>2. e = 2
        BY <2>5 DEF UnitOf
      <3> HIDE DEF e
      <3> QED BY <2>5, <3>1, <3>2 DEF ShiftedFrom
    <2>6. CASE format = "CS4"
      <3>1. Layout["CS4"] = << <<10, 3, 3>>, <<6, 1, 2>>, <<5, 1, 6>> >>
        BY <2>0, Rows, Zenon
      <3>2. e = 2
        BY <2>6 DEF UnitOf
      <3> HIDE DEF e
      <3> QED BY <2>6, <3>1, <3>2 DEF ShiftedFrom
    <2>7. CASE format = "CI_LoadSP4"
      <3>1. Layout["CI_LoadSP4"] = << <<12, 1, 5>>, <<4, 3, 2>>, <<2, 2, 6>> >>
        BY <2>0, Rows, Zenon
      <3>2. e = 2
        BY <2>7 DEF UnitOf
      <3> HIDE DEF e
      <3> QED BY <2>7, <3>1, <3>2 DEF ShiftedFrom
    <2>8. CASE format = "CSS4"
      <3>1. Layout["CSS4"] = << <<9, 4, 2>>, <<7, 2, 6>> >>
        BY <2>0, Rows, Zenon
      <3>2. e = 2
        BY <2>8 DEF UnitOf
      <3> HIDE DEF e
      <3> QED BY <2>8, <3>1, <3>2 DEF ShiftedFrom
    <2>9. CASE format = "CIW"
      <3>1. Layout["CIW"] = << <<11, 2, 4>>, <<7, 4, 6>>, <<6, 1, 2>>, <<5, 1, 3>> >>
        BY <2>0, Rows, Zenon
      <3>2. e = 2
        BY <2>9 DEF UnitOf
      <3> HIDE DEF e
      <3> QED BY <2>9, <3>1, <3>2 DEF ShiftedFrom
    <2>10. CASE format = "CL8"
      <3>1. Layout["CL8"] = << <<10, 3, 3>>, <<5, 2, 6>> >>
        BY <2>0, Rows, Zenon
      <3>2. e = 3
        BY <2>10 DEF UnitOf
      <3> HIDE DEF e
      <3> QED BY <2>10, <3>1, <3>2 DEF ShiftedFrom
    <2>11. CASE format = "CS8"
      <3>1. Layout["CS8"] = << <<10, 3, 3>>, <<5, 2, 6>> >>
        BY <2>0, Rows, Zenon
      <3>2. e = 3
        BY <2>11 DEF UnitOf
      <3> HIDE DEF e
      <3> QED BY <2>11, <3>1, <3>2 DEF ShiftedFrom
    <2>12. CASE format = "CI_LoadSP8"
      <3>1. Layout["CI_LoadSP8"] = << <<12, 1, 5>>, <<5, 2, 3>>, <<2, 3, 6>> >>
        BY <2>0, Rows, Zenon
      <3>2. e = 3
        BY <2>12 DEF UnitOf
      <3> HIDE DEF e
      <3> QED BY <2>12, <3>1, <3>2 DEF ShiftedFrom
    <2>13. CASE format = "CSS8"
      <3>1. Layout["CSS8"] = << <<10, 3, 3>>, <<7, 3, 6>> >>
        BY <2>0, Rows, Zenon
      <3>2. e = 3
        BY <2>13 DEF UnitOf
      <3> HIDE DEF e
      <3> QED BY <2>13, <3>1, <3>2 DEF ShiftedFrom
    <2>14. CASE format = "CI_ADDI16SP"
      <3>1. Layout["CI_ADDI16SP"] = << <<12, 1, 9>>, <<6, 1, 4>>, <<5, 1, 6>>, <<3, 2, 7>>, <<2, 1, 5>> >>
        BY <2>0, Rows, Zenon
      <3>2. e = 4
        BY <2>14 DEF UnitOf
      <3> HIDE DEF e
      <3> QED BY <2>14, <3>1, <3>2 DEF ShiftedFrom
    <2>15. CASE format = "CI_LUI"
      <3>1. Layout["CI_LUI"] = << <<12, 1, 17>>, <<2, 5, 12>> >>
        BY <2>0, Rows, Zenon
      <3>2. e = 12
        BY <2>15 DEF UnitOf
      <3> HIDE DEF e
      <3> QED BY <2>15, <3>1, <3>2 DEF ShiftedFrom
    <2> QED BY <2>1, <2>2, <2>3, <2>4, <2>5, <2>6, <2>7, <2>8, <2>9, <2>10, <2>11, <2>12, <2>13, <2>14,
               <2>15 DEF WithUnit
  <1>3. format \in DOMAIN SignWidth => SignWidth[format] \in (e + 1)..64
    BY DEF WithUnit, UnitOf, SignWidth
  <1>4. format \in DOMAIN ZeroWidth => ZeroWidth[format] \in e..64
    BY DEF WithUnit, UnitOf, ZeroWidth
  <1> HIDE DEF e
  <1>5. Immediate(format, insn) % Power[e] = 0
    BY <1>1, <1>2, <1>3, <1>4, ImmediateMultiple
  <1> QED BY <1>5 DEF e

LEMMA UnitPowers == Power[1] = 2 /\ Power[2] = 4 /\ Power[3] = 8 /\ Power[4] = 16 /\ Power[12] = 4096
  <1>1. \A n \in 0..63 : Power[n + 1] = 2 * Power[n]
    BY PowerDef
  <1>2. Power[3 + 1] = 2 * Power[3]
    BY <1>1
  <1>3. Power[4] = 16
    BY <1>2, SmallPowers
  <1>4. 4 \in 0..64 /\ 4 \in 0..(64 - 4) /\ 8 \in 0..64 /\ 4 \in 0..(64 - 8)
    OBVIOUS
  <1>5. Power[4 + 4] = Power[4] * Power[4] /\ Power[8 + 4] = Power[8] * Power[4]
    BY <1>4, PowerSum
  <1>6. 4 + 4 = 8 /\ 8 + 4 = 12
    OBVIOUS
  <1>7. Power[8] = 256
    BY <1>3, <1>5, <1>6
  <1>8. Power[12] = 4096
    BY <1>3, <1>5, <1>6, <1>7
  <1> QED BY <1>3, <1>8, SmallPowers

\* An operation on a unit has the format of the unit.
LEMMA ScaleOf ==
    ASSUME NEW xl, NEW class, NEW code \in DOMAIN Scale, NEW format, Listed(xl, class, code, format)
    PROVE  format \in WithUnit /\ Scale[code] = Power[UnitOf(format)]
  <1> DEFINE Codes == {"c_lw", "c_lwsp", "c_flw", "c_flwsp", "c_sw", "c_swsp", "c_fsw", "c_fswsp",
                       "c_ld", "c_ldsp", "c_fld", "c_fldsp", "c_sd", "c_sdsp", "c_fsd", "c_fsdsp",
                       "c_addi4spn", "c_addi16sp", "c_j", "c_jal", "c_beqz", "c_bnez", "c_lui"}
             Long == {"beq", "bne", "blt", "bge", "bltu", "bgeu"}
  <1>1. code \in Codes \cup Long \cup {"jal"}
    BY DEF Scale
  <1>2. CASE class = "I"
    <2>1. ListedI(xl, code, format)
      BY <1>2 DEF Listed
    <2>2. (format = "J" /\ code = "jal") \/ (format = "B" /\ code \in Long)
      BY <1>1, <2>1 DEF ListedI
    <2>3. format \in WithUnit /\ UnitOf(format) = 1 /\ Scale[code] = 2
      BY <2>2 DEF WithUnit, UnitOf, Scale
    <2> QED BY <2>3, UnitPowers
  <1>3. CASE class \in {"M", "A", "F", "D"}
    <2>1. CASE class = "M"
      BY <1>1, <2>1 DEF Listed, ListedM
    <2>2. CASE class = "A"
      BY <1>1, <2>2 DEF Listed, ListedA, AtomicWords, AtomicDoubles
    <2>3. CASE class = "F"
      BY <1>1, <2>3 DEF Listed, ListedF, ProcessRVF
    <2>4. CASE class = "D"
      BY <1>1, <2>4 DEF Listed, ListedD, ProcessRVD
    <2> QED BY <1>3, <2>1, <2>2, <2>3, <2>4
  <1>4. CASE class = "C"
    <2>1. ListedC(xl, code, format)
      BY <1>4 DEF Listed
    <2>2. code \in Codes
      BY <1>1, <2>1 DEF ListedC
    <2>3. \/ format \in {"CB", "CJ"} /\ code \in {"c_j", "c_jal", "c_beqz", "c_bnez"}
          \/ format \in {"CL4", "CS4", "CI_LoadSP4", "CSS4", "CIW"}
             /\ code \in {"c_lw", "c_lwsp", "c_flw", "c_flwsp", "c_sw", "c_swsp", "c_fsw", "c_fswsp", "c_addi4spn"}
          \/ format \in {"CL8", "CS8", "CI_LoadSP8", "CSS8"}
             /\ code \in {"c_ld", "c_ldsp", "c_fld", "c_fldsp", "c_sd", "c_sdsp", "c_fsd", "c_fsdsp"}
          \/ format = "CI_ADDI16SP" /\ code = "c_addi16sp"
          \/ format = "CI_LUI" /\ code = "c_lui"
      BY <2>1, <2>2 DEF ListedC
    <2>4. format \in WithUnit
          /\ \/ UnitOf(format) = 1 /\ Scale[code] = 2
             \/ UnitOf(format) = 2 /\ Scale[code] = 4
             \/ UnitOf(format) = 3 /\ Scale[code] = 8
             \/ UnitOf(format) = 4 /\ Scale[code] = 16
             \/ UnitOf(format) = 12 /\ Scale[code] = 4096
      BY <2>3 DEF WithUnit, UnitOf, Scale
    <2> QED BY <2>4, UnitPowers
  <1> QED BY <1>2, <1>3, <1>4 DEF Listed

\* The formats of the listed operations are formats of the layouts.
LEMMA ListedFormats ==
    ASSUME NEW xl, NEW class, NEW code, NEW format, Listed(xl, class, code, format)
    PROVE  format \in DOMAIN Layout
  <1>1. format \in {"I", "S", "B", "U", "J", "ShiftImm_32", "ShiftImm_64", "Csr", "CsrImm",
                    "CI", "CI_AluImm", "CI_Shift", "CI_ADDI16SP",
                    "CI_LoadSP4", "CI_LoadSP8", "CI_LUI", "CSS4", "CSS8", "CIW",
                    "CL4", "CL8", "CS4", "CS8", "CB", "CJ",
                    "R", "R4", "Fence", "CR", "CR_Alu", "None"}
    BY DEF Listed, ListedI, ListedM, ListedA, ListedF, ListedD, ListedC
  <1> QED BY <1>1, LayoutOf

LEMMA FormatsInit == Init => FormatsPartition
  BY DEF Init, FormatsPartition

LEMMA FormatsNext == IInv /\ FormatsPartition /\ [Next]_vars => FormatsPartition'
  <1> SUFFICES ASSUME IInv, FormatsPartition, [Next]_vars PROVE FormatsPartition'
    OBVIOUS
  <1>1. CASE DecodeInsn
    <2>1. PICK insn \in Nat \X Nat : op' = Decode(xlen, insn)
      BY <1>1, WordsAreWords DEF DecodeInsn
    <2>2. SUFFICES ASSUME stage' = "decoded"
                   PROVE  /\ WellFormed[op'.format]
                          /\ op'.code \in DOMAIN Scale => op'.imm % Scale[op'.code] = 0
      BY DEF FormatsPartition
    <2>3. op'.code # "unknown" /\ xlen \in {32, 64}
      BY <1>1, <2>2 DEF DecodeInsn, IInv
    <2>4. Listed(xlen, op'.class, op'.code, op'.format)
      BY <2>1, <2>3, DecodeListed
    <2>5. op'.imm = Immediate(op'.format, insn)
      <3> DEFINE found == CASE Extension(insn) = "C" -> DecodeC(xlen, insn)
                            [] Extension(insn) = "M" -> DecodeM(xlen, insn)
                            [] Extension(insn) = "A" -> DecodeA(xlen, insn)
                            [] Extension(insn) = "F" -> DecodeF(xlen, insn)
                            [] Extension(insn) = "D" -> DecodeD(insn)
                            [] Extension(insn) = "I" -> DecodeI(xlen, insn)
      <3>1. Decode(xlen, insn) = [class |-> Extension(insn), code |-> found[1], format |-> found[2],
                                  imm |-> Immediate(found[2], insn)]
        BY DEF Decode
      <3> HIDE DEF found
      <3> QED BY <2>1, <3>1
    <2>6. op'.format \in DOMAIN Layout
      BY <2>4, ListedFormats
    <2>7. ASSUME op'.code \in DOMAIN Scale PROVE op'.imm % Scale[op'.code] = 0
      <3>1. op'.format \in WithUnit /\ Scale[op'.code] = Power[UnitOf(op'.format)]
        BY <2>4, <2>7, ScaleOf
      <3> QED BY <2>5, <3>1, OffsetMultiple
    <2> QED BY <2>6, <2>7, FormatsWellFormed
  <1>2. CASE PreCheck \/ Error \/ Execute \/ PostCheck \/ Trapped
    <2>1. stage' # "decoded"
      BY <1>2 DEF PreCheck, Error, Execute, PostCheck, Trapped
    <2> QED BY <2>1 DEF FormatsPartition
  <1>3. CASE UNCHANGED vars
    BY <1>3 DEF vars, FormatsPartition
  <1> QED BY <1>1, <1>2, <1>3 DEF Next

\* Every operand format of DecoderImpl.cpp uses each bit once and fills its
\* width, and offsets are multiples of what they address, whatever the word.
THEOREM FormatsPartitioned == Spec => []FormatsPartition
  <1>1. IInv /\ FormatsPartition /\ [Next]_vars => FormatsPartition'
    BY FormatsNext
  <1> QED BY <1>1, FormatsInit, Inductive, PTL DEF Spec
=============================================================================
