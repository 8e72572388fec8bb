------------------------------ MODULE Compact ------------------------------
(***************************************************************************)
(* Bitcoin compact ("nBits") encoding of targets, pkg/util                 *)
(* (src/unnamed/part_007): CompactToTarget and TargetToCompact, and the     *)
(* normalisation CompactToTarget(TargetToCompact(t)) that NextTarget and   *)
(* the validator apply so that every node derives the same target.         *)
(*                                                                         *)
(* The code works on bytes (Base = 256).  Base is a constant so that the   *)
(* modules that do arithmetic on targets (Difficulty) can run the same     *)
(* algorithm with a smaller digit inside TLC's 32-bit integers; the        *)
(* encoding itself is checked with Base = 256.                             *)
(***************************************************************************)
EXTENDS Integers

CONSTANT Base           \* 256 in the code: one byte
ASSUME Base \in {4, 8, 16, 256}

MantissaSpan == Base * Base * Base   \* the exponent sits above 3 digits (compact >> 24)
SignBit      == MantissaSpan \div 2   \* 0x00800000

\* Number of significant digits of n (len(absTarget.Bytes())).
RECURSIVE ByteLen(_)
ByteLen(n) == IF n = 0 THEN 0 ELSE 1 + ByteLen(n \div Base)

Abs(x) == IF x < 0 THEN -x ELSE x

\* CompactToTarget: exponent = high digit, mantissa = low 23 bits, shift by
\* the exponent, negate when the sign bit is set.
CompactToTarget(c) ==
    LET exponent == c \div MantissaSpan
        mantissa == c % SignBit
        magnitude == IF exponent <= 3
                     THEN mantissa \div (Base ^ (3 - exponent))
                     ELSE mantissa * (Base ^ (exponent - 3))
    IN  IF (c \div SignBit) % 2 = 1 THEN -magnitude ELSE magnitude

\* Encoder variant that forgets the sign-bit adjustment.
TargetToCompactNoShift(t) ==
    IF t = 0 THEN 0
    ELSE LET abs  == Abs(t)
             size == ByteLen(abs)
             m0   == IF size <= 3 THEN abs ELSE abs \div (Base ^ (size - 3))
         IN  size * MantissaSpan + (m0 % SignBit) + (IF t < 0 THEN SignBit ELSE 0)

\* TargetToCompact (part_007:65-99): keep the three most significant
\* digits; when the top bit of that mantissa is set, drop one more digit
\* and bump the exponent.  With three digits or fewer the loop shifts digit
\* i by size-1-i places (part_007:80), so the mantissa is |t| itself, not
\* |t| moved up to the top of the mantissa as in Bitcoin's encoder.
TargetToCompact(t) ==
    IF t = 0 THEN 0
    ELSE LET abs      == Abs(t)
             size     == ByteLen(abs)
             m0       == IF size <= 3 THEN abs ELSE abs \div (Base ^ (size - 3))
             shifted  == m0 >= SignBit
             mantissa == IF shifted THEN m0 \div Base ELSE m0
             exponent == IF shifted THEN size + 1 ELSE size
         IN  exponent * MantissaSpan + (mantissa % SignBit)
               + (IF t < 0 THEN SignBit ELSE 0)

\* The round trip every retarget ends with (NextTarget, difficulty.go:85,122).
Normalise(t) == CompactToTarget(TargetToCompact(t))
=============================================================================
