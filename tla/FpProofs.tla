------------------------------ MODULE FpProofs ------------------------------
(***************************************************************************)
(* Proofs about Fp for all formats, register contents and rounding modes:  *)
(* types, that no register written by F or D is lost, that flags have a    *)
(* cause, and that minimum, maximum and class are those of the references. *)
(*                                                                         *)
(* NothingLost is inductive together with TypeOK.  An action either leaves *)
(* fs and unsaved alone, or marks and makes dirty in one step, or writes   *)
(* something that is not a mark, or empties unsaved.                       *)
(***************************************************************************)
EXTENDS Fp, TLAPS

IInv == TypeOK /\ NothingLost

\* What SoftFloat's comparison raises are flags of fcsr.
LEMMA LeQuietRaisesFlags ==
    ASSUME NEW fmt, NEW x, NEW y PROVE LeQuietRaises(fmt, x, y) \in SUBSET Flags
  BY DEF LeQuietRaises, Flags

\* The handlers that write a register and note it (Computes, MinMax, ConvertFp,
\* ConvertSign, Load) preserve the invariant.
LEMMA MarkedWrite ==
    ASSUME IInv, Fd, NotifyFpDirty, WriteRegister("marked"),
           soft' \in SUBSET Flags, fflags' \in SUBSET Flags
    PROVE  IInv'
  BY DEF IInv, TypeOK, NothingLost, Fd, Begin, NotifyFpDirty, WriteRegister, Dirty

\* A step that keeps FS and the registers, and stores flags of SoftFloat.
LEMMA FlagsOnly ==
    ASSUME IInv, UNCHANGED <<fs, unsaved, frm, running>>,
           soft' \in SUBSET Flags, fflags' \in SUBSET Flags
    PROVE  IInv'
  BY DEF IInv, TypeOK, NothingLost, Dirty

LEMMA ComputesStep ==
    ASSUME IInv, NEW op, Computes(op) PROVE IInv'
  <1>1. PICK field \in RoundModes, raised \in SUBSET Flags :
            Fd /\ Raise(raised) /\ UpdateFpCsr /\ NotifyFpDirty /\ WriteRegister("marked")
    BY DEF Computes
  <1>2. soft' \in SUBSET Flags /\ fflags' \in SUBSET Flags
    BY <1>1 DEF Raise, UpdateFpCsr
  <1> QED BY <1>1, <1>2, MarkedWrite

LEMMA MinMaxStep ==
    ASSUME IInv, NEW fmt, NEW x, NEW y, MinMax(fmt, x, y) PROVE IInv'
  <1>1. Fd /\ Raise(LeQuietRaises(fmt, x, y)) /\ UpdateFpCsr /\ NotifyFpDirty /\ WriteRegister("marked")
    BY DEF MinMax
  <1>2. soft' \in SUBSET Flags /\ fflags' \in SUBSET Flags
    BY <1>1, LeQuietRaisesFlags DEF Raise, UpdateFpCsr
  <1> QED BY <1>1, <1>2, MarkedWrite

\* Every step of the unit keeps the types and the marks.
LEMMA NextPreserves == IInv /\ [Next]_vars => IInv'
  <1> SUFFICES ASSUME IInv, [Next]_vars PROVE IInv'
    OBVIOUS
  <1> USE RoundModesAssumption
  <1>0. soft \in SUBSET Flags /\ fflags \in SUBSET Flags
    BY DEF IInv, TypeOK
  <1>1. CASE Illegal
    BY <1>0, <1>1, FlagsOnly DEF Illegal
  <1>2. CASE MulAdd
    BY <1>2, ComputesStep DEF MulAdd
  <1>3. CASE Compute
    BY <1>3, ComputesStep DEF Compute
  <1>4. CASE BadRound
    BY <1>4 DEF BadRound, IInv, TypeOK, NothingLost
  <1>5. CASE MinMaxSingle
    <2>1. PICK x, y \in Boxes : MinMax(Single, UnboxFloat(Single, x), UnboxFloat(Single, y))
      BY <1>5 DEF MinMaxSingle
    <2> QED BY <2>1, MinMaxStep
  <1>6. CASE MinMaxDouble
    <2>1. PICK x, y \in Doubles : MinMax(Double, x, y)
      BY <1>6 DEF MinMaxDouble
    <2> QED BY <2>1, MinMaxStep
  <1>7. CASE Compare
    <2>1. PICK raised \in SUBSET {"NV"} : Fd /\ Raise(raised) /\ UpdateFpCsr /\ UNCHANGED <<fs, unsaved>>
      BY <1>7 DEF Compare
    <2>2. raised \in SUBSET Flags
      BY DEF Flags
    <2> QED BY <2>1, <2>2, FlagsOnly DEF Fd, Raise, UpdateFpCsr
  <1>8. CASE ConvertToInt
    <2>1. PICK raised \in SUBSET Flags : Fd /\ Raise(raised) /\ UpdateFpCsr /\ UNCHANGED <<fs, unsaved>>
      BY <1>8 DEF ConvertToInt
    <2> QED BY <2>1, FlagsOnly DEF Fd, Raise, UpdateFpCsr
  <1>9. CASE ConvertFp
    <2>1. PICK raised \in SUBSET Flags :
              Fd /\ Raise(raised) /\ UpdateFpCsr /\ NotifyFpDirty /\ WriteRegister("marked")
      BY <1>9 DEF ConvertFp
    <2> QED BY <2>1, MarkedWrite DEF Raise, UpdateFpCsr
  <1>10. CASE ConvertSign
    BY <1>0, <1>10, MarkedWrite DEF ConvertSign, UpdateFpCsr
  <1>11. CASE Class
    BY <1>0, <1>11, FlagsOnly DEF Class, Fd
  <1>12. CASE MoveToInt
    BY <1>0, <1>12, FlagsOnly DEF MoveToInt, Fd
  <1>13. CASE Load
    BY <1>0, <1>13, MarkedWrite DEF Load
  <1>14. CASE C_Load
    BY <1>14 DEF C_Load, WriteRegister, IInv, TypeOK, NothingLost
  <1>15. CASE WriteFpCsr
    BY <1>15 DEF WriteFpCsr, IInv, TypeOK, NothingLost
  <1>16. CASE WriteUstatus
    BY <1>16 DEF WriteUstatus, IInv, TypeOK, NothingLost, Off
  <1>17. CASE Switch
    BY <1>17 DEF Switch, IInv, TypeOK, NothingLost
  <1>18. CASE EndOfCycle
    BY <1>0, <1>18, FlagsOnly DEF EndOfCycle
  <1>19. CASE UNCHANGED vars
    BY <1>0, <1>19, FlagsOnly DEF vars
  <1> QED
    BY <1>1, <1>2, <1>3, <1>4, <1>5, <1>6, <1>7, <1>8, <1>9, <1>10, <1>11, <1>12, <1>13, <1>14,
       <1>15, <1>16, <1>17, <1>18, <1>19 DEF Next

LEMMA Inductive == Spec => []IInv
  <1>1. Init => IInv
    BY DEF Init, IInv, TypeOK, NothingLost, Flags, Off, Dirty
  <1> QED BY <1>1, NextPreserves, PTL DEF Spec

\* The status field, fcsr and SoftFloat's flags keep their types.
THEOREM FpTypeCorrect == Spec => []TypeOK
  <1>1. IInv => TypeOK BY DEF IInv
  <1> QED BY <1>1, Inductive, PTL

\* Whatever the order of instructions and switches, a register written by an
\* instruction of F or D is found dirty by the next switch.
THEOREM FpNothingLost == Spec => []NothingLost
  <1>1. IInv => NothingLost BY DEF IInv
  <1> QED BY <1>1, Inductive, PTL

Caused == \A flag \in fflags' \ fflags : flag \in instr'.raised \/ instr'.op \in {"csr", "sign"}

\* A flag appears in fcsr only with an instruction that raised it, a write by
\* software, or a sign injection.
THEOREM FpFlagsHaveACause == Spec => FlagsHaveACause
  <1>1. ASSUME Next PROVE Caused
    <2>1. ASSUME NEW op, Computes(op) PROVE Caused
      BY <2>1 DEF Computes, Raise, UpdateFpCsr, Finish, Caused
    <2>2. ASSUME NEW fmt, NEW x, NEW y, MinMax(fmt, x, y) PROVE Caused
      BY <2>2 DEF MinMax, UpdateFpCsr, Caused
    <2>3. CASE MulAdd \/ Compute
      BY <2>1, <2>3 DEF MulAdd, Compute
    <2>4. CASE MinMaxSingle \/ MinMaxDouble
      BY <2>2, <2>4 DEF MinMaxSingle, MinMaxDouble
    <2>5. CASE Compare \/ ConvertToInt \/ ConvertFp
      BY <2>5 DEF Compare, ConvertToInt, ConvertFp, Raise, UpdateFpCsr, Finish, Caused
    <2>6. CASE ConvertSign \/ WriteFpCsr
      BY <2>6 DEF ConvertSign, WriteFpCsr, Finish, Caused
    <2>7. CASE Illegal \/ BadRound \/ Class \/ MoveToInt \/ Load \/ C_Load \/ WriteUstatus \/ Switch \/ EndOfCycle
      BY <2>7 DEF Illegal, BadRound, Class, MoveToInt, Load, C_Load, WriteUstatus, Switch, EndOfCycle, Caused
    <2> QED BY <1>1, <2>3, <2>4, <2>5, <2>6, <2>7 DEF Next
  <1>2. [Next]_vars => [Caused]_vars
    BY <1>1
  <1> QED BY <1>2, PTL DEF Spec, FlagsHaveACause, Caused
-----------------------------------------------------------------------------
(* A bit pattern as a sign and a magnitude: each test of the library is a   *)
(* range of magnitudes.                                                     *)

Magnitude(fmt, v) == v % Magnitudes(fmt)
Infinity(fmt) == MaxExponent(fmt) * fmt.f

LEMMA Division ==
    ASSUME NEW n \in Nat, NEW p \in Nat \ {0}
    PROVE  n \div p \in Nat /\ n % p \in 0..(p - 1) /\ n = p * (n \div p) + (n % p)
  OBVIOUS

LEMMA DivisionUnique ==
    ASSUME NEW p \in Nat, NEW q \in Nat, NEW r \in 0..(p - 1),
           NEW s \in Nat, NEW t \in 0..(p - 1), p * q + r = p * s + t
    PROVE  q = s /\ r = t
  OBVIOUS

LEMMA Products == \A x, y \in Nat : x * y \in Nat /\ (x > 0 /\ y > 0 => x * y >= x /\ x * y >= y)
  OBVIOUS

\* The magnitude is the exponent times the number of fractions, and the fraction.
LEMMA MagnitudeOfFields ==
    ASSUME NEW E \in Nat \ {0}, NEW F \in Nat \ {0}, NEW v \in Nat
    PROVE  v % (E * F) = ((v \div F) % E) * F + (v % F)
  <1>1. PICK q, r \in Nat : q = v \div F /\ r = v % F /\ r < F /\ v = F * q + r
    BY Division
  <1>2. PICK p, x \in Nat : p = q \div E /\ x = q % E /\ x < E /\ q = E * p + x
    BY Division
  <1>3. E * F \in Nat \ {0}
    BY Products
  <1>4. PICK s, t \in Nat : s = v \div (E * F) /\ t = v % (E * F) /\ t < E * F /\ v = (E * F) * s + t
    BY <1>3, Division
  <1>5. x * F + r \in Nat /\ x * F + r < E * F
    <2>1. (x + 1) * F <= E * F
      BY <1>2
    <2> QED BY <2>1, <1>1, Products
  <1>6. v = (E * F) * p + (x * F + r)
    <2>1. v = F * (E * p + x) + r
      BY <1>1, <1>2
    <2> QED BY <2>1
  <1>7. t = x * F + r
    <2>1. PICK M \in Nat, m \in Nat : M = E * F /\ m = x * F + r
      BY <1>3, <1>5
    <2>2. M * s + t = M * p + m
      BY <2>1, <1>4, <1>6
    <2>3. t \in 0..(M - 1) /\ m \in 0..(M - 1)
      BY <2>1, <1>4, <1>5
    <2>4. t = m
      BY <2>2, <2>3, DivisionUnique
    <2> QED BY <2>1, <2>4
  <1> QED BY <1>1, <1>2, <1>4, <1>7

\* What the tests of a pattern say of its magnitude.
Ranges(fmt, v) ==
    /\ Infinity(fmt) \in Nat /\ fmt.f \in Nat \ {0, 1} /\ Infinity(fmt) >= fmt.f
    /\ GetSign(fmt, v) \in {0, 1}
    /\ Magnitude(fmt, v) \in Nat
    /\ IsZero(fmt, v)      <=> Magnitude(fmt, v) = 0
    /\ IsSubNormal(fmt, v) <=> Magnitude(fmt, v) \in 1..(fmt.f - 1)
    /\ IsNormal(fmt, v)    <=> Magnitude(fmt, v) \in fmt.f..(Infinity(fmt) - 1)
    /\ IsInf(fmt, v)       <=> Magnitude(fmt, v) = Infinity(fmt)
    /\ IsNan(fmt, v)       <=> Magnitude(fmt, v) > Infinity(fmt)

LEMMA RangesHold ==
    ASSUME NEW fmt, IsFormat(fmt), NEW v \in Nat
    PROVE  Ranges(fmt, v)
  <1>1. PICK E, F \in Nat \ {0, 1} : E = fmt.e /\ F = fmt.f
    BY DEF IsFormat
  <1>2. PICK x \in 0..(E - 1) : x = GetExponent(fmt, v)
    BY <1>1, Division DEF GetExponent
  <1>3. PICK r \in 0..(F - 1) : r = GetFraction(fmt, v)
    BY <1>1, Division DEF GetFraction
  <1>4. PICK last \in Nat : last = (E - 1) * F /\ last >= F /\ last = Infinity(fmt)
    BY <1>1 DEF Infinity, MaxExponent
  <1>5. PICK m \in Nat : m = x * F + r /\ m = Magnitude(fmt, v)
    <2>1. x * F + r \in Nat
      BY <1>1, <1>2, <1>3
    <2> QED BY <2>1, <1>1, <1>2, <1>3, MagnitudeOfFields DEF Magnitude, Magnitudes, GetExponent, GetFraction
  <1>6. /\ x = 0 => m = r
        /\ x >= 1 => m >= F
        /\ x = E - 1 => m = last + r
        /\ x < E - 1 => m < last
    <2>1. ASSUME x >= 1 PROVE x * F >= F
      BY <2>1
    <2>2. ASSUME x < E - 1 PROVE m < last
      <3>1. (x + 1) * F <= (E - 1) * F
        BY <2>2
      <3>2. (x + 1) * F = x * F + F
        OBVIOUS
      <3>3. x * F \in Nat
        OBVIOUS
      <3> QED BY <3>1, <3>2, <3>3, <1>4, <1>5
    <2>3. x * F \in Nat
      OBVIOUS
    <2> QED BY <2>1, <2>2, <2>3, <1>4, <1>5
  <1>7. GetSign(fmt, v) \in {0, 1}
    <2>1. Magnitudes(fmt) \in Nat \ {0}
      BY <1>1, Products DEF Magnitudes
    <2>2. v \div Magnitudes(fmt) \in Nat
      BY <2>1, Division
    <2> QED BY <2>2 DEF GetSign
  <1>8. IsZero(fmt, v) <=> m = 0
    BY <1>2, <1>3, <1>6 DEF IsZero
  <1>9. IsSubNormal(fmt, v) <=> m \in 1..(F - 1)
    BY <1>2, <1>3, <1>6 DEF IsSubNormal
  <1>10. MaxExponent(fmt) = E - 1
    BY <1>1 DEF MaxExponent
  <1>11. IsNormal(fmt, v) <=> m \in F..(last - 1)
    BY <1>2, <1>3, <1>6, <1>10 DEF IsNormal
  <1>12. IsInf(fmt, v) <=> m = last
    BY <1>2, <1>3, <1>6, <1>10 DEF IsInf
  <1>13. IsNan(fmt, v) <=> m > last
    BY <1>2, <1>3, <1>6, <1>10 DEF IsNan
  <1> QED BY <1>1, <1>4, <1>5, <1>7, <1>8, <1>9, <1>11, <1>12, <1>13 DEF Ranges

\* Sign and magnitude make the pattern.
LEMMA SignAndMagnitude ==
    ASSUME NEW fmt, IsFormat(fmt), NEW v \in 0..(Patterns(fmt) - 1)
    PROVE  v = GetSign(fmt, v) * Magnitudes(fmt) + Magnitude(fmt, v)
  <1>1. PICK M \in Nat \ {0} : M = Magnitudes(fmt)
    BY Products DEF Magnitudes, IsFormat
  <1>2. PICK q, m \in Nat : q = v \div M /\ m = v % M /\ m < M /\ v = M * q + m
    <2>1. v \in Nat
      BY <1>1 DEF Patterns
    <2>2. v \div M \in Nat /\ v % M \in 0..(M - 1) /\ v = M * (v \div M) + (v % M)
      BY <2>1, Division
    <2> QED BY <2>2
  <1>3. q \in {0, 1}
    <2>1. v < 2 * M
      BY <1>1 DEF Patterns
    <2>2. ASSUME q >= 2 PROVE M * q >= 2 * M
      BY <2>2
    <2> QED BY <2>1, <2>2, <1>2
  <1>4. GetSign(fmt, v) = q
    <2>1. q % 2 = q
      BY <1>3
    <2> QED BY <2>1, <1>1, <1>2 DEF GetSign
  <1> QED BY <1>1, <1>2, <1>3, <1>4 DEF Magnitude

-----------------------------------------------------------------------------
(* Minimum and maximum.                                                    *)

\* Order and sign of two patterns, as the proofs about them use them.
LEMMA Orders ==
    ASSUME NEW fmt, IsFormat(fmt),
           NEW x \in 0..(Patterns(fmt) - 1), NEW y \in 0..(Patterns(fmt) - 1)
    PROVE  /\ GetSign(fmt, x) \in {0, 1} /\ Order(fmt, x) \in Int
           /\ IsZero(fmt, x) <=> Order(fmt, x) = 0
           /\ GetSign(fmt, x) = 0 => Order(fmt, x) >= 0
           /\ GetSign(fmt, x) = 1 => Order(fmt, x) <= 0
           /\ IsZero(fmt, x) => Number(fmt, x)
           /\ Order(fmt, x) = Order(fmt, y) /\ GetSign(fmt, x) = GetSign(fmt, y) => x = y
  <1>1. x \in Nat /\ y \in Nat
    BY Products DEF Patterns, Magnitudes, IsFormat
  <1>2. Ranges(fmt, x) /\ Ranges(fmt, y)
    BY <1>1, RangesHold
  <1>3. PICK m, n \in Nat : m = Magnitude(fmt, x) /\ n = Magnitude(fmt, y)
    BY <1>2 DEF Ranges
  <1>4. /\ Order(fmt, x) = IF GetSign(fmt, x) = 1 THEN -m ELSE m
        /\ Order(fmt, y) = IF GetSign(fmt, y) = 1 THEN -n ELSE n
    BY <1>3 DEF Order, Magnitude
  <1>5. Order(fmt, x) = Order(fmt, y) /\ GetSign(fmt, x) = GetSign(fmt, y) => m = n
    BY <1>2, <1>4 DEF Ranges
  <1>6. GetSign(fmt, x) = GetSign(fmt, y) /\ m = n => x = y
    BY <1>3, SignAndMagnitude
  <1> QED BY <1>2, <1>3, <1>4, <1>5, <1>6 DEF Ranges, Number

\* A number that the other number does not precede is the minimum, and likewise the
\* maximum: -0 and +0 are told apart by Below, equal patterns are the same number.
LEMMA ReferenceIs ==
    ASSUME NEW fmt, IsFormat(fmt),
           NEW x \in 0..(Patterns(fmt) - 1), NEW y \in 0..(Patterns(fmt) - 1),
           NEW op \in {"min", "max"}, NEW v \in {x, y}, Number(fmt, v),
           \A w \in {x, y} : Number(fmt, w) =>
               IF op = "min" THEN Below(fmt, v, w) ELSE Below(fmt, w, v)
    PROVE  Reference(op, fmt, x, y) = v
  <1> DEFINE numbers == {w \in {x, y} : Number(fmt, w)}
             Best(u) == \A w \in numbers : IF op = "min" THEN Below(fmt, u, w) ELSE Below(fmt, w, u)
  <1>1. v \in numbers /\ Best(v)
    OBVIOUS
  <1>2. ASSUME NEW u \in numbers, Best(u) PROVE u = v
    <2>1. Below(fmt, u, v) /\ Below(fmt, v, u)
      BY <1>1, <1>2
    <2>2. /\ GetSign(fmt, u) \in {0, 1} /\ Order(fmt, u) \in Int
          /\ GetSign(fmt, v) \in {0, 1} /\ Order(fmt, v) \in Int
      BY <1>2, Orders
    <2>3. Order(fmt, u) = Order(fmt, v) /\ GetSign(fmt, u) = GetSign(fmt, v)
      BY <2>1, <2>2 DEF Below
    <2> QED BY <2>3, <1>2, Orders
  <1>3. (CHOOSE u \in numbers : Best(u)) = v
    <2> HIDE DEF numbers, Best
    <2> QED BY <1>1, <1>2
  <1> QED BY <1>1, <1>3 DEF Reference

\* What MinMaxReference says of an instruction.
MinMaxIs(op, fmt, x, y, value) ==
    \/ value = Reference(op, fmt, x, y)
    \/ /\ op = "min" /\ IsZero(fmt, x) /\ value = y
       /\ \/ IsNan(fmt, y)
          \/ GetSign(fmt, x) = 0 /\ Order(fmt, y) > 0
    \/ /\ IsNan(fmt, x) /\ IsNan(fmt, y)
       /\ IsSignalingNan(fmt, x) \/ IsSignalingNan(fmt, y)
       /\ value = GetCanonicalSignalingNan(fmt)

\* With a NaN among the operands both functions leave it to Select.
LEMMA SelectIs ==
    ASSUME NEW fmt, IsFormat(fmt),
           NEW x \in 0..(Patterns(fmt) - 1), NEW y \in 0..(Patterns(fmt) - 1),
           NEW op \in {"min", "max"}, NEW compared,
           ~Number(fmt, x) \/ ~Number(fmt, y)
    PROVE  MinMaxIs(op, fmt, x, y, Select(fmt, x, y, compared))
  <1>1. CASE ~Number(fmt, x) /\ ~Number(fmt, y)
    <2>1. {w \in {x, y} : Number(fmt, w)} = {}
      BY <1>1
    <2>2. Reference(op, fmt, x, y) = GetCanonicalQuietNan(fmt)
      BY <2>1 DEF Reference
    <2> QED BY <1>1, <2>2 DEF MinMaxIs, Select, Number
  <1>2. ASSUME NEW v \in {x, y}, Number(fmt, v), \A w \in {x, y} : Number(fmt, w) => w = v
        PROVE  Reference(op, fmt, x, y) = v
    <2>1. Below(fmt, v, v)
      BY Orders DEF Below
    <2> QED BY <2>1, <1>2, ReferenceIs
  <1>3. CASE Number(fmt, x) /\ ~Number(fmt, y)
    <2>1. Reference(op, fmt, x, y) = x
      BY <1>2, <1>3
    <2> QED BY <1>3, <2>1 DEF MinMaxIs, Select, Number
  <1>4. CASE ~Number(fmt, x) /\ Number(fmt, y)
    <2>1. Reference(op, fmt, x, y) = y
      BY <1>2, <1>4
    <2> QED BY <1>4, <2>1 DEF MinMaxIs, Select, Number
  <1> QED BY <1>1, <1>3, <1>4

\* Of two numbers Select returns what the comparison found.
LEMMA SelectNumbers ==
    ASSUME NEW fmt, NEW x, NEW y, NEW compared, Number(fmt, x), Number(fmt, y)
    PROVE  Select(fmt, x, y, compared) = compared
  BY DEF Select, Number

LEMMA MinIs ==
    ASSUME NEW fmt, IsFormat(fmt),
           NEW x \in 0..(Patterns(fmt) - 1), NEW y \in 0..(Patterns(fmt) - 1)
    PROVE  MinMaxIs("min", fmt, x, y, MinImpl(fmt, x, y))
  <1>1. /\ GetSign(fmt, x) \in {0, 1} /\ Order(fmt, x) \in Int
        /\ GetSign(fmt, y) \in {0, 1} /\ Order(fmt, y) \in Int
        /\ IsZero(fmt, x) <=> Order(fmt, x) = 0
        /\ GetSign(fmt, x) = 0 => Order(fmt, x) >= 0
        /\ GetSign(fmt, x) = 1 => Order(fmt, x) <= 0
        /\ GetSign(fmt, y) = 0 => Order(fmt, y) >= 0
        /\ GetSign(fmt, y) = 1 => Order(fmt, y) <= 0
        /\ IsZero(fmt, x) => Number(fmt, x)
    BY Orders
  <1>2. /\ Number(fmt, x) /\ Below(fmt, x, y) => Reference("min", fmt, x, y) = x
        /\ Number(fmt, y) /\ Below(fmt, y, x) => Reference("min", fmt, x, y) = y
    <2>1. Below(fmt, x, x) /\ Below(fmt, y, y)
      BY <1>1 DEF Below
    <2> QED BY <2>1, ReferenceIs
  <1>3. CASE ~IsZero(fmt, x) /\ ~(Number(fmt, x) /\ Number(fmt, y))
    BY <1>3, SelectIs DEF MinImpl
  <1>4. CASE ~IsZero(fmt, x) /\ Number(fmt, x) /\ Number(fmt, y)
    <2>1. MinImpl(fmt, x, y) = IF Order(fmt, x) <= Order(fmt, y) THEN x ELSE y
      BY <1>4, SelectNumbers DEF MinImpl, LeQuiet, Number
    <2>2. IF Order(fmt, x) <= Order(fmt, y) THEN Below(fmt, x, y) ELSE Below(fmt, y, x)
      BY <1>1, <1>4 DEF Below
    <2> QED BY <1>2, <1>4, <2>1, <2>2 DEF MinMaxIs
  <1>5. CASE IsZero(fmt, x)
    <2>1. MinImpl(fmt, x, y) = IF GetSign(fmt, x) = 1 /\ GetSign(fmt, y) = 0 THEN x ELSE y
      BY <1>5 DEF MinImpl
    <2>2. CASE GetSign(fmt, x) = 1 /\ GetSign(fmt, y) = 0
      <3>1. Below(fmt, x, y)
        BY <1>1, <1>5, <2>2 DEF Below
      <3> QED BY <1>1, <1>2, <1>5, <2>1, <2>2, <3>1 DEF MinMaxIs
    <2>3. CASE ~(GetSign(fmt, x) = 1 /\ GetSign(fmt, y) = 0)
      <3>1. Below(fmt, y, x) \/ (GetSign(fmt, x) = 0 /\ Order(fmt, y) > 0)
        BY <1>1, <1>5, <2>3 DEF Below
      <3> QED BY <1>2, <1>5, <2>1, <2>3, <3>1 DEF MinMaxIs, Number
    <2> QED BY <2>2, <2>3
  <1> QED BY <1>3, <1>4, <1>5

LEMMA MaxIs ==
    ASSUME NEW fmt, IsFormat(fmt),
           NEW x \in 0..(Patterns(fmt) - 1), NEW y \in 0..(Patterns(fmt) - 1)
    PROVE  MinMaxIs("max", fmt, x, y, MaxImpl(fmt, x, y))
  <1>1. /\ GetSign(fmt, x) \in {0, 1} /\ Order(fmt, x) \in Int
        /\ GetSign(fmt, y) \in {0, 1} /\ Order(fmt, y) \in Int
        /\ IsZero(fmt, x) <=> Order(fmt, x) = 0
        /\ IsZero(fmt, y) <=> Order(fmt, y) = 0
        /\ GetSign(fmt, x) = 0 => Order(fmt, x) >= 0
        /\ GetSign(fmt, x) = 1 => Order(fmt, x) <= 0
        /\ GetSign(fmt, y) = 0 => Order(fmt, y) >= 0
        /\ GetSign(fmt, y) = 1 => Order(fmt, y) <= 0
        /\ IsZero(fmt, x) => Number(fmt, x)
        /\ IsZero(fmt, y) => Number(fmt, y)
    BY Orders
  <1>2. /\ Number(fmt, x) /\ Below(fmt, y, x) => Reference("max", fmt, x, y) = x
        /\ Number(fmt, y) /\ Below(fmt, x, y) => Reference("max", fmt, x, y) = y
    <2>1. Below(fmt, x, x) /\ Below(fmt, y, y)
      BY <1>1 DEF Below
    <2>2. "max" # "min"
      OBVIOUS
    <2> QED BY <2>1, <2>2, ReferenceIs
  <1>3. CASE ~(Number(fmt, x) /\ Number(fmt, y))
    <2>1. MaxImpl(fmt, x, y) = Select(fmt, x, y, IF LeQuiet(fmt, x, y) THEN y ELSE x)
      BY <1>1, <1>3 DEF MaxImpl
    <2> QED BY <1>3, <2>1, SelectIs
  <1>4. CASE Number(fmt, x) /\ Number(fmt, y) /\ ~(IsZero(fmt, x) /\ IsZero(fmt, y))
    <2>1. MaxImpl(fmt, x, y) = IF Order(fmt, x) <= Order(fmt, y) THEN y ELSE x
      BY <1>4, SelectNumbers DEF MaxImpl, LeQuiet, Number
    <2>2. IF Order(fmt, x) <= Order(fmt, y) THEN Below(fmt, x, y) ELSE Below(fmt, y, x)
      BY <1>1, <1>4 DEF Below
    <2> QED BY <1>2, <1>4, <2>1, <2>2 DEF MinMaxIs
  <1>5. CASE IsZero(fmt, x) /\ IsZero(fmt, y)
    <2>1. MaxImpl(fmt, x, y) = IF GetSign(fmt, x) = 0 /\ GetSign(fmt, y) = 1 THEN x ELSE y
      BY <1>5 DEF MaxImpl
    <2>2. IF GetSign(fmt, x) = 0 /\ GetSign(fmt, y) = 1 THEN Below(fmt, y, x) ELSE Below(fmt, x, y)
      BY <1>1, <1>5 DEF Below
    <2> QED BY <1>1, <1>2, <1>5, <2>1, <2>2 DEF MinMaxIs
  <1> QED BY <1>3, <1>4, <1>5

-----------------------------------------------------------------------------
(* Classes.                                                                *)

\* The class by the place of a pattern in the order.
ClassOf(fmt, v) ==
    /\ Order(fmt, v) \in Int /\ Infinity(fmt) \in Nat /\ fmt.f \in Nat
    /\ 1 < fmt.f /\ fmt.f <= Infinity(fmt)
    /\ IsNan(fmt, v) <=> ~(-Infinity(fmt) <= Order(fmt, v) /\ Order(fmt, v) <= Infinity(fmt))
    /\ ConvertToRvFpClass(fmt, v) \in
           IF IsNan(fmt, v) THEN IF IsSignalingNan(fmt, v) THEN {8} ELSE {9}
           ELSE IF Order(fmt, v) = -Infinity(fmt) THEN {0}
           ELSE IF Order(fmt, v) <= -fmt.f THEN {1}
           ELSE IF Order(fmt, v) < 0 THEN {2}
           ELSE IF Order(fmt, v) = 0 THEN {3, 4}
           ELSE IF Order(fmt, v) < fmt.f THEN {5}
           ELSE IF Order(fmt, v) < Infinity(fmt) THEN {6} ELSE {7}

LEMMA ClassOfHolds ==
    ASSUME NEW fmt, IsFormat(fmt), NEW v \in Nat
    PROVE  ClassOf(fmt, v)
  <1>1. PICK m, f, last \in Nat, s \in {0, 1} :
            m = Magnitude(fmt, v) /\ f = fmt.f /\ last = Infinity(fmt) /\ s = GetSign(fmt, v)
    BY RangesHold DEF Ranges
  <1>2. /\ 1 < f /\ f <= last
        /\ IsZero(fmt, v)      <=> m = 0
        /\ IsSubNormal(fmt, v) <=> m \in 1..(f - 1)
        /\ IsNormal(fmt, v)    <=> m \in f..(last - 1)
        /\ IsInf(fmt, v)       <=> m = last
        /\ IsNan(fmt, v)       <=> m > last
    BY <1>1, RangesHold DEF Ranges
  <1>3. PICK order \in Int : order = Order(fmt, v) /\ order = IF s = 1 THEN -m ELSE m
    BY <1>1 DEF Order, Magnitude
  <1>4. CASE m > last
    BY <1>1, <1>2, <1>3, <1>4 DEF ClassOf, ConvertToRvFpClass
  <1>5. CASE m = last
    BY <1>1, <1>2, <1>3, <1>5 DEF ClassOf, ConvertToRvFpClass
  <1>6. CASE m \in f..(last - 1)
    BY <1>1, <1>2, <1>3, <1>6 DEF ClassOf, ConvertToRvFpClass
  <1>7. CASE m \in 1..(f - 1)
    BY <1>1, <1>2, <1>3, <1>7 DEF ClassOf, ConvertToRvFpClass
  <1>8. CASE m = 0
    <2>1. order = 0 /\ 0 < f /\ 0 < last
      <3>1. order + m = 0 \/ order = m
        BY <1>1, <1>3
      <3> QED BY <3>1, <1>1, <1>2, <1>3, <1>8
    <2>2. ConvertToRvFpClass(fmt, v) \in {3, 4}
      BY <1>1, <1>2, <1>8 DEF ConvertToRvFpClass
    <2> QED BY <1>1, <1>2, <1>3, <1>8, <2>1, <2>2 DEF ClassOf
  <1>9. m > last \/ m = last \/ m \in f..(last - 1) \/ m \in 1..(f - 1) \/ m = 0
    BY <1>2
  <1> QED BY <1>4, <1>5, <1>6, <1>7, <1>8, <1>9

\* An infinity is at its end of the order.
LEMMA InfinityOrder ==
    ASSUME NEW fmt, IsFormat(fmt), NEW v \in Nat, IsInf(fmt, v)
    PROVE  /\ Number(fmt, v)
           /\ Order(fmt, v) = IF GetSign(fmt, v) = 1 THEN -Infinity(fmt) ELSE Infinity(fmt)
  BY RangesHold DEF Ranges, Number, Order, Magnitude

\* What ClassLaw says of a pattern among others.
ClassIs(fmt, v, others, class) ==
    LET numbers == {w \in others : Number(fmt, w)}
    IN  /\ IsNan(fmt, v) <=> class \in {8, 9}
        /\ IsSignalingNan(fmt, v) <=> class = 8
        /\ Order(fmt, v) = 0 <=> class \in {3, 4}
        /\ class = 0 <=> Number(fmt, v) /\ \A w \in numbers : Order(fmt, v) <= Order(fmt, w)
        /\ class = 7 <=> Number(fmt, v) /\ \A w \in numbers : Order(fmt, w) <= Order(fmt, v)
        /\ Number(fmt, v) => \A w \in numbers :
              Order(fmt, w) < Order(fmt, v) => ConvertToRvFpClass(fmt, w) <= class

LEMMA ClassHolds ==
    ASSUME NEW fmt, IsFormat(fmt), NEW others \in SUBSET Nat, NEW v \in Nat,
           \A sign \in {0, 1} : \E w \in others : IsInf(fmt, w) /\ GetSign(fmt, w) = sign
    PROVE  ClassIs(fmt, v, others, ConvertToRvFpClass(fmt, v))
  <1> DEFINE numbers == {w \in others : Number(fmt, w)}
             class == ConvertToRvFpClass(fmt, v)
  <1>1. ClassOf(fmt, v) /\ \A w \in numbers : ClassOf(fmt, w) /\ ~IsNan(fmt, w)
    BY ClassOfHolds DEF Number
  <1>2. PICK low \in numbers, high \in numbers :
            Order(fmt, low) = -Infinity(fmt) /\ Order(fmt, high) = Infinity(fmt)
    <2>1. PICK low \in others : IsInf(fmt, low) /\ GetSign(fmt, low) = 1
      OBVIOUS
    <2>2. PICK high \in others : IsInf(fmt, high) /\ GetSign(fmt, high) = 0
      OBVIOUS
    <2>3. low \in Nat /\ high \in Nat
      OBVIOUS
    <2> QED BY <2>1, <2>2, <2>3, InfinityOrder
  <1>3. PICK last, f \in Nat : last = Infinity(fmt) /\ f = fmt.f /\ 1 < f /\ f <= last
    BY <1>1 DEF ClassOf
  <1>4. PICK order \in Int : order = Order(fmt, v)
    BY <1>1 DEF ClassOf
  <1>5. IsNan(fmt, v) <=> class \in {8, 9}
    BY <1>1 DEF ClassOf
  <1>6. IsSignalingNan(fmt, v) <=> class = 8
    BY <1>1 DEF ClassOf, IsSignalingNan
  <1>7. Order(fmt, v) = 0 <=> class \in {3, 4}
    BY <1>1, <1>3 DEF ClassOf
  <1>8. class = 0 <=> Number(fmt, v) /\ order = -last
    BY <1>1, <1>3, <1>4 DEF ClassOf, Number
  <1>9. class = 7 <=> Number(fmt, v) /\ order = last
    BY <1>1, <1>3, <1>4 DEF ClassOf, Number
  <1>10. \A w \in numbers : Order(fmt, w) \in Int /\ -last <= Order(fmt, w) /\ Order(fmt, w) <= last
    BY <1>1, <1>3 DEF ClassOf
  <1>11. Number(fmt, v) => -last <= order /\ order <= last
    BY <1>1, <1>3, <1>4 DEF ClassOf, Number
  <1>12. class = 0 <=> Number(fmt, v) /\ \A w \in numbers : Order(fmt, v) <= Order(fmt, w)
    BY <1>2, <1>3, <1>4, <1>8, <1>10, <1>11
  <1>13. class = 7 <=> Number(fmt, v) /\ \A w \in numbers : Order(fmt, w) <= Order(fmt, v)
    BY <1>2, <1>3, <1>4, <1>9, <1>10, <1>11
  <1>14. ASSUME Number(fmt, v), NEW w \in numbers, Order(fmt, w) < Order(fmt, v)
         PROVE  ConvertToRvFpClass(fmt, w) <= class
    BY <1>1, <1>3, <1>14 DEF ClassOf, Number
  <1> QED BY <1>5, <1>6, <1>7, <1>12, <1>13, <1>14 DEF ClassIs

-----------------------------------------------------------------------------
(* The unit matches the references.                                        *)

\* What an instruction reads is a pattern of its format.
LEMMA Operands ==
    /\ Patterns(Single) \in Nat /\ Patterns(Double) \in Nat
    /\ Unboxed \subseteq 0..(Patterns(Single) - 1)
    /\ Doubles \subseteq 0..(Patterns(Double) - 1)
  <1>1. /\ IsFormat(Single) /\ IsFormat(Double)
        /\ Boxes \subseteq Nat /\ Doubles \subseteq 0..(Patterns(Double) - 1)
    BY FormatsAssumption, RegistersAssumption
  <1>2. PICK E, F \in Nat \ {0, 1} : E = Single.e /\ F = Single.f
    BY <1>1 DEF IsFormat
  <1>3. PICK p \in Nat \ {0} : p = Patterns(Single) /\ p = 2 * (E * F)
    BY <1>2, Products DEF Patterns, Magnitudes
  <1>4. GetCanonicalQuietNan(Single) \in 0..(p - 1)
    <2>1. PICK last \in Nat : last = (E - 1) * F /\ last + F = E * F
      OBVIOUS
    <2>2. F \div 2 \in 0..F
      OBVIOUS
    <2>3. GetCanonicalQuietNan(Single) = last + (F \div 2)
      BY <1>2, <2>1 DEF GetCanonicalQuietNan, MaxExponent
    <2> QED BY <1>2, <1>3, <2>1, <2>2, <2>3
  <1>5. ASSUME NEW reg \in Boxes PROVE UnboxFloat(Single, reg) \in 0..(p - 1)
    <2>1. reg % p \in 0..(p - 1)
      BY <1>1, Division
    <2> QED BY <1>3, <1>4, <2>1 DEF UnboxFloat
  <1>6. Patterns(Double) \in Nat
    BY <1>1, Products DEF Patterns, Magnitudes, IsFormat
  <1> QED BY <1>1, <1>3, <1>5, <1>6 DEF Unboxed

\* An instruction without a result of the library matches by its name.
LEMMA OtherInstruction ==
    ASSUME instr'.op \notin {"min", "max", "class"} PROVE MatchesReference'
  BY DEF MatchesReference, MinMaxReference, ClassLaw

LEMMA MinMaxMatchesReference ==
    ASSUME NEW fmt, IsFormat(fmt),
           NEW x \in 0..(Patterns(fmt) - 1), NEW y \in 0..(Patterns(fmt) - 1),
           MinMax(fmt, x, y)
    PROVE  MatchesReference'
  <1>1. PICK op \in {"min", "max"} :
            /\ instr'.op = op /\ instr'.fmt = fmt /\ instr'.x = x /\ instr'.y = y
            /\ instr'.value = IF op = "min" THEN MinImpl(fmt, x, y) ELSE MaxImpl(fmt, x, y)
    BY DEF MinMax
  <1>2. MinMaxIs(op, fmt, x, y, instr'.value)
    BY <1>1, MinIs, MaxIs
  <1> QED BY <1>1, <1>2 DEF MinMaxIs, MatchesReference, MinMaxReference, ClassLaw

LEMMA ClassMatchesReference == Class => MatchesReference'
  <1> SUFFICES ASSUME Class PROVE MatchesReference'
    OBVIOUS
  <1>1. CASE \E reg \in Boxes :
            instr' = [op |-> "class", raised |-> {}, fmt |-> Single, reg |-> reg,
                      value |-> ConvertToRvFpClass(Single, reg % Patterns(Single))]
    <2>1. PICK reg \in Boxes :
              instr'.op = "class" /\ instr'.fmt = Single /\ instr'.reg = reg
              /\ instr'.value = ConvertToRvFpClass(Single, reg % Patterns(Single))
      BY <1>1
    <2>2. CASE ~IsBoxed(Single, reg)
      BY <2>1, <2>2 DEF MatchesReference, MinMaxReference, ClassLaw
    <2>3. CASE IsBoxed(Single, reg)
      <3>1. UnboxFloat(Single, reg) = reg % Patterns(Single) /\ UnboxFloat(Single, reg) \in Unboxed
        BY <2>3 DEF UnboxFloat, Unboxed
      <3>2. Unboxed \in SUBSET Nat
        BY Operands
      <3>3. ClassIs(Single, UnboxFloat(Single, reg), Unboxed, instr'.value)
        BY <2>1, <3>1, <3>2, ClassHolds, FormatsAssumption, RegistersAssumption
      <3> QED BY <2>1, <3>3 DEF MatchesReference, MinMaxReference, ClassLaw, ClassIs
    <2> QED BY <2>2, <2>3
  <1>2. CASE \E reg \in Doubles :
            instr' = [op |-> "class", raised |-> {}, fmt |-> Double, reg |-> reg,
                      value |-> ConvertToRvFpClass(Double, reg)]
    <2>1. PICK reg \in Doubles :
              instr'.op = "class" /\ instr'.fmt = Double /\ instr'.reg = reg
              /\ instr'.value = ConvertToRvFpClass(Double, reg)
      BY <1>2
    <2>2. Doubles \in SUBSET Nat
      BY Operands
    <2>3. ClassIs(Double, reg, Doubles, instr'.value)
      BY <2>1, <2>2, ClassHolds, FormatsAssumption, RegistersAssumption
    <2> QED BY <2>1, <2>3, FormatsAssumption DEF MatchesReference, MinMaxReference, ClassLaw, ClassIs
  <1> QED BY <1>1, <1>2 DEF Class

LEMMA NextMatches == MatchesReference /\ [Next]_vars => MatchesReference'
  <1> SUFFICES ASSUME MatchesReference, [Next]_vars PROVE MatchesReference'
    OBVIOUS
  <1>1. ASSUME UNCHANGED instr PROVE MatchesReference'
    BY <1>1 DEF MatchesReference, MinMaxReference, ClassLaw
  <1>2. CASE BadRound \/ UNCHANGED vars
    BY <1>1, <1>2 DEF BadRound, vars
  <1>3. CASE MulAdd \/ Compute
    BY <1>3, OtherInstruction DEF MulAdd, Compute, Computes, Finish
  <1>4. CASE MinMaxSingle
    <2>1. PICK x, y \in Boxes : MinMax(Single, UnboxFloat(Single, x), UnboxFloat(Single, y))
      BY <1>4 DEF MinMaxSingle
    <2>2. UnboxFloat(Single, x) \in Unboxed /\ UnboxFloat(Single, y) \in Unboxed
      BY DEF Unboxed
    <2> QED BY <2>1, <2>2, Operands, MinMaxMatchesReference, FormatsAssumption
  <1>5. CASE MinMaxDouble
    <2>1. PICK x, y \in Doubles : MinMax(Double, x, y)
      BY <1>5 DEF MinMaxDouble
    <2> QED BY <2>1, Operands, MinMaxMatchesReference, FormatsAssumption
  <1>6. CASE Class
    BY <1>6, ClassMatchesReference
  <1>7. CASE Illegal \/ Compare \/ ConvertToInt \/ ConvertFp \/ ConvertSign \/ MoveToInt \/ Load \/ C_Load
    BY <1>7, OtherInstruction
       DEF Illegal, Compare, ConvertToInt, ConvertFp, ConvertSign, MoveToInt, Load, C_Load, Finish
  <1>8. CASE WriteFpCsr \/ WriteUstatus \/ Switch \/ EndOfCycle
    BY <1>8, OtherInstruction DEF WriteFpCsr, WriteUstatus, Switch, EndOfCycle, Finish, NoInstr
  <1> QED BY <1>2, <1>3, <1>4, <1>5, <1>6, <1>7, <1>8 DEF Next

\* Minimum, maximum and class of any register contents, for any widths of exponent
\* and fraction, are those of the references, with the exceptions that
\* MinMaxReference and ClassLaw name and no others.
THEOREM FpMatchesReference == Spec => []MatchesReference
  <1>1. Init => MatchesReference
    BY DEF Init, NoInstr, MatchesReference, MinMaxReference, ClassLaw
  <1> QED BY <1>1, NextMatches, PTL DEF Spec
=============================================================================
