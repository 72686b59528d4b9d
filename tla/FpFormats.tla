----------------------------- MODULE FpFormats -----------------------------
(***************************************************************************)
(* Floating-point numbers as the library takes them apart                  *)
(* (librafi_fp/FpApi.cpp, class FpBase): a sign, an exponent and a         *)
(* fraction in a bit pattern, which is an integer here.                    *)
(* Minimum, maximum, classification and the boxing of singles in wider     *)
(* registers are the library's own; the arithmetic is Berkeley SoftFloat.  *)
(*                                                                         *)
(* A format is a record: e exponents and f fractions, 2^8 and 2^23 in a    *)
(* float, 2^11 and 2^52 in a double.                                       *)
(***************************************************************************)
EXTENDS Integers

IsFormat(fmt) == fmt \in [e : Nat \ {0, 1}, f : Nat \ {0, 1}] /\ fmt.f % 2 = 0

Magnitudes(fmt) == fmt.e * fmt.f
Patterns(fmt)   == 2 * Magnitudes(fmt)

GetSign(fmt, v)     == (v \div Magnitudes(fmt)) % 2
GetExponent(fmt, v) == (v \div fmt.f) % fmt.e
GetFraction(fmt, v) == v % fmt.f
MaxExponent(fmt)    == fmt.e - 1
FractionMsb(fmt, v) == (v \div (fmt.f \div 2)) % 2

IsZero(fmt, v)   == GetExponent(fmt, v) = 0 /\ GetFraction(fmt, v) = 0
IsInf(fmt, v)    == GetExponent(fmt, v) = MaxExponent(fmt) /\ GetFraction(fmt, v) = 0

IsNormal(fmt, v) == 1 <= GetExponent(fmt, v) /\ GetExponent(fmt, v) < MaxExponent(fmt)
IsSubNormal(fmt, v) == GetExponent(fmt, v) = 0 /\ GetFraction(fmt, v) # 0
IsNan(fmt, v)    == GetExponent(fmt, v) = MaxExponent(fmt) /\ GetFraction(fmt, v) # 0
IsSignalingNan(fmt, v) == IsNan(fmt, v) /\ FractionMsb(fmt, v) = 0

GetCanonicalQuietNan(fmt)     == MaxExponent(fmt) * fmt.f + fmt.f \div 2
GetCanonicalSignalingNan(fmt) == MaxExponent(fmt) * fmt.f + 1

\* The order of the numbers; zeros are equal.
Order(fmt, v) ==
    LET magnitude == v % Magnitudes(fmt)
    IN  IF GetSign(fmt, v) = 1 THEN -magnitude ELSE magnitude

\* f32_le_quiet and f64_le_quiet: false for a NaN, invalid for a signaling one.
LeQuiet(fmt, x, y) == ~IsNan(fmt, x) /\ ~IsNan(fmt, y) /\ Order(fmt, x) <= Order(fmt, y)
LeQuietRaises(fmt, x, y) ==
    IF IsSignalingNan(fmt, x) \/ IsSignalingNan(fmt, y) THEN {"NV"} ELSE {}

\* What both do when not both are zero.
Select(fmt, x, y, compared) ==
    IF IsNan(fmt, x) /\ IsNan(fmt, y)
    THEN IF IsSignalingNan(fmt, x) \/ IsSignalingNan(fmt, y)
         THEN GetCanonicalSignalingNan(fmt) ELSE GetCanonicalQuietNan(fmt)
    ELSE IF IsNan(fmt, y) THEN x
    ELSE IF IsNan(fmt, x) THEN y ELSE compared

\* The test for two zeros reads x twice (defect).
MinImpl(fmt, x, y) ==
    IF IsZero(fmt, x)
    THEN IF GetSign(fmt, x) = 1 /\ GetSign(fmt, y) = 0 THEN x ELSE y
    ELSE Select(fmt, x, y, IF LeQuiet(fmt, x, y) THEN x ELSE y)

\* Mutant of MaxImpl: the signs of two zeros are taken as for the minimum.
MaxImplSwapped(fmt, x, y) ==
    IF IsZero(fmt, x) /\ IsZero(fmt, y)
    THEN IF GetSign(fmt, x) = 1 /\ GetSign(fmt, y) = 0 THEN x ELSE y
    ELSE Select(fmt, x, y, IF LeQuiet(fmt, x, y) THEN y ELSE x)

MaxImpl(fmt, x, y) ==
    IF IsZero(fmt, x) /\ IsZero(fmt, y)
    THEN IF GetSign(fmt, x) = 0 /\ GetSign(fmt, y) = 1 THEN x ELSE y
    ELSE Select(fmt, x, y, IF LeQuiet(fmt, x, y) THEN y ELSE x)

\* The number of the bit that fclass sets.
ConvertToRvFpClass(fmt, v) ==
    LET negative == GetSign(fmt, v) = 1
    IN  CASE negative  /\ IsInf(fmt, v)       -> 0
          [] negative  /\ IsNormal(fmt, v)    -> 1
          [] negative  /\ IsSubNormal(fmt, v) -> 2
          [] negative  /\ IsZero(fmt, v)      -> 3
          [] ~negative /\ IsZero(fmt, v)      -> 4
          [] ~negative /\ IsSubNormal(fmt, v) -> 5
          [] ~negative /\ IsNormal(fmt, v)    -> 6
          [] ~negative /\ IsInf(fmt, v)       -> 7
          [] OTHER -> IF IsSignalingNan(fmt, v) THEN 8 ELSE 9

\* A single in a register twice as wide has ones above it.
IsBoxed(fmt, reg) == reg \div Patterns(fmt) = Patterns(fmt) - 1
UnboxFloat(fmt, reg) == IF IsBoxed(fmt, reg) THEN reg % Patterns(fmt) ELSE GetCanonicalQuietNan(fmt)
=============================================================================
