---------------------------- MODULE MC_Difficulty ----------------------------
(***************************************************************************)
(* Difficulty with a 3-bit digit (Base = 8): the compact encoding keeps    *)
(* three digits and a sign bit as in the code, so a target keeps 8         *)
(* significant bits, a quarter of a target is not a digit shift (as with   *)
(* bytes), and targets stay inside TLC's integers.  MaxShareTarget is      *)
(* 255 * 8^3 (the scaled 0x207fffff: the largest positive mantissa);       *)
(* MinShareTarget is 128 * 8^1; TargetTime is 2 units, so the gaps cover a *)
(* share                                                                   *)
(* arriving before its parent (-1), fast (1), on time (2), slow (3) and    *)
(* more than 4x slow (9).                                                  *)
(***************************************************************************)
EXTENDS Difficulty
LOCAL FS == INSTANCE FiniteSetsExt

MCMaxShareTargetBits == 6 * 512 + 255
MCMinShareTargetBits == 4 * 512 + 128

\* Below 256 a target has fewer digits than a mantissa and integer division
\* by 4 loses bits, which a real target (>= 2^200) never does: the search
\* stops there.
TargetFloor == 256

MCGaps == {-1, 1, 3, 9}
AboveFloor == window = <<>> \/ window[1].target >= TargetFloor

-----------------------------------------------------------------------------
(***************************************************************************)
(* The compact encoding itself, at the code's digit (Base = 256), over the *)
(* targets of three bytes and more (the realistic nBits of spec 8: share   *)
(* targets lie between 0x1d00ffff and 0x207fffff), around each byte        *)
(* boundary up to TLC's largest integer.  A target is what a share carries *)
(* on the wire as ShareTargetBits (messages.go) and what the validator     *)
(* re-encodes (validation.go:114-116).  Each is the initial state of a     *)
(* behaviour, before the chain starts.  Below three bytes the code's       *)
(* encoder leaves the mantissa unshifted (part_007:80) and the round trip  *)
(* drops the low bytes (300 normalises to 1): no share target is there.    *)
(***************************************************************************)
Wire == INSTANCE Compact WITH Base <- 256

WireBoundaries ==
    { s * (256 ^ 2) + d : s \in {1, 127, 128, 255}, d \in {-1, 0, 1} }
      \cup { s * (256 ^ 3) + d : s \in {1, 127}, d \in {-1, 0, 1} }

WireTargets ==
    LET magnitudes == { t \in WireBoundaries : t >= 256 ^ 2 }
                        \cup (65536..65836) \cup {1193046, 305419896, 2147483647}
    IN  magnitudes \cup { -t : t \in {65536, 8388607, 8388608, 16777216} }

\* Reference: the greatest value not above a that a 23-bit mantissa times a
\* power of 256 can hold.
Representable(a) ==
    FS!Max({ MinOf(a \div (256 ^ k), Wire!SignBit - 1) * (256 ^ k)
             : k \in 0..(Wire!ByteLen(a) - 1) })

\* The wire target checked in the current state, or NoWire once the chain
\* has started; each initial state holds one of WireTargets.
VARIABLE wire
NoWire == 0

MCInit == Init /\ wire \in WireTargets

\* The chain starts: the difficulty machine takes over.
StartChain == wire # NoWire /\ wire' = NoWire /\ UNCHANGED window

MCNext ==
    \/ StartChain
    \/ wire = NoWire /\ Next /\ UNCHANGED wire

MCSpec == MCInit /\ [][MCNext]_<<window, wire>>

\* The round trip NextTarget and the validator apply (CompactToTarget of
\* TargetToCompact) truncates |t| to exactly the greatest representable value,
\* keeps the sign, and never rounds up.
NormalisationIsTruncation ==
    wire # NoWire =>
        Wire!Normalise(wire) = (IF wire < 0 THEN -Representable(-wire) ELSE Representable(wire))

\* A target received as compact bits and re-encoded by the validator gives
\* the same bits: encoding a normalised target is the identity on the wire
\* form, so a declared target and an expected one that normalise equal are
\* never rejected for their bits (validation.go:114-116).
WireRoundTrip ==
    wire # NoWire => Wire!TargetToCompact(Wire!Normalise(wire)) = Wire!TargetToCompact(wire)
=============================================================================
