----------------------------- MODULE Difficulty -----------------------------
(***************************************************************************)
(* Sharechain retargeting, DifficultyCalculator.NextTarget                 *)
(* (src/unnamed/part_003, difficulty.go), driven by a chain of shares that *)
(* each carry the target NextTarget computes from their parent's window,   *)
(* as the validator demands (validation.go:106-119).                       *)
(*                                                                         *)
(* State: the window of the newest shares (newest first) that NextTarget   *)
(* reads.  Times are kept relative to the newest share: NextTarget only    *)
(* uses differences of timestamps.                                         *)
(***************************************************************************)
EXTENDS Integers, Sequences, Compact

CONSTANTS
    TargetTime,                 \* dc.targetTime, in time units
    DifficultyAdjustmentWindow, \* 72 in the code
    MaxShareTargetBits,         \* 0x207fffff in the code
    MinShareTargetBits,         \* 0x1d00ffff in the code
    Gaps                        \* timestamp steps a new share may take from its parent

ASSUME TargetTime \in Nat \ {0}
ASSUME DifficultyAdjustmentWindow \in Nat \ {0, 1}
ASSUME Gaps \subseteq Int

MaxShareTarget == CompactToTarget(MaxShareTargetBits)
MinShareTarget == CompactToTarget(MinShareTargetBits)

MinOf(a, b) == IF a < b THEN a ELSE b
MaxOf(a, b) == IF a > b THEN a ELSE b

Share == [target : Int, time : Int]

\* Keep the prefix of w up to (not including) the first older share whose
\* target is zero or outside [newest/4, newest*4] (difficulty.go:69-80).
Trim(w) ==
    LET cur   == w[1].target
        out(i) == w[i].target = 0 \/ w[i].target > cur * 4 \/ w[i].target < cur \div 4
        cut   == { i \in 2..Len(w) : out(i) }
        first == CHOOSE i \in cut : \A j \in cut : i <= j
    IN  IF cut = {} THEN w ELSE SubSeq(w, 1, first - 1)

\* Variant: the global MaxShareTarget clamp (difficulty.go:114-117) is missing.
AdjustUncapped(window, expectedFactor) ==
    LET cur      == window[1].target
        actual   == MaxOf(window[1].time - window[Len(window)].time, 1)
        expected == MaxOf(TargetTime * expectedFactor, 1)
        raw      == (cur * actual) \div expected
    IN  MaxOf(MinOf(raw, cur * 4), cur \div 4)

\* The timing-based adjustment of a trimmed window of at least two shares,
\* before normalisation (difficulty.go:88-118).
Adjust(window, expectedFactor) ==
    LET cur      == window[1].target
        actual   == MaxOf(window[1].time - window[Len(window)].time, 1)
        expected == MaxOf(TargetTime * expectedFactor, 1)
        raw      == (cur * actual) \div expected
        clamped  == MaxOf(MinOf(raw, cur * 4), cur \div 4)
    IN  MinOf(clamped, MaxShareTarget)

\* Variant: expected time counts every share of the window, not the gaps.
NextTargetExpectedOffByOne(shares) ==
    IF Len(shares) < 2 THEN MaxShareTarget
    ELSE LET window == Trim(SubSeq(shares, 1, MinOf(Len(shares), DifficultyAdjustmentWindow)))
         IN  IF Len(window) < 2 THEN Normalise(window[1].target)
             ELSE Normalise(Adjust(window, Len(window)))

\* Variant: the result is not passed through the compact round trip.
NextTargetUnnormalised(shares) ==
    IF Len(shares) < 2 THEN MaxShareTarget
    ELSE LET window == Trim(SubSeq(shares, 1, MinOf(Len(shares), DifficultyAdjustmentWindow)))
         IN  IF Len(window) < 2 THEN window[1].target
             ELSE Adjust(window, Len(window) - 1)

\* NextTarget (difficulty.go:51-123): fewer than two shares or a zero newest
\* target give MaxShareTarget; a trimmed window of one share gives the newest
\* target normalised; otherwise target * actual / expected, clamped to 4x and
\* to MaxShareTarget, normalised through the compact encoding.
NextTarget(shares) ==
    IF Len(shares) < 2 THEN MaxShareTarget
    ELSE LET window0 == SubSeq(shares, 1, MinOf(Len(shares), DifficultyAdjustmentWindow))
         IN  IF window0[1].target = 0 THEN MaxShareTarget
             ELSE LET window == Trim(window0)
                  IN  IF Len(window) < 2 THEN Normalise(window[1].target)
                      ELSE Normalise(Adjust(window, Len(window) - 1))

VARIABLE window   \* the newest shares of the chain, newest first

vars == <<window>>

Init == window = <<>>

\* A share is mined on the tip with timestamp parent + gap; it carries the
\* target NextTarget gives for its parent's window.  Times are re-based on
\* the new share.
MineShare(gap) ==
    LET new    == [target |-> NextTarget(window), time |-> 0]
        older  == [i \in 1..Len(window) |-> [window[i] EXCEPT !.time = @ - gap]]
        grown  == <<new>> \o older
    IN  window' = SubSeq(grown, 1, MinOf(Len(grown), DifficultyAdjustmentWindow))

Next == \E gap \in Gaps : MineShare(gap)

Spec == Init /\ [][Next]_vars
-----------------------------------------------------------------------------
\* The state has its types, and every share's target is positive and at
\* most MaxShareTarget: neither the x4 clamp of a slow window, nor the
\* single-share path, nor the normalisation after the global clamp
\* (difficulty.go:114-122) ever yields an easier target than the cap.
TypeOK ==
    /\ window \in Seq(Share)
    /\ \A i \in 1..Len(window) : window[i].target \in 1..MaxShareTarget

\* Every share's target is a fixed point of the compact round trip, so a
\* node that receives it as ShareTargetBits (messages.go:56) rebuilds exactly
\* the value the miner's node computed, and NextTarget over the same window
\* yields the same value on every node.
TargetsCanonical ==
    \A i \in 1..Len(window) : Normalise(window[i].target) = window[i].target

\* Timing drives the target the right way: if every share of the window has
\* the newest target and every gap is shorter than TargetTime, the next share
\* is not easier; if every gap is longer, it is not harder.
AllGaps(w, P(_)) == \A i \in 1..(Len(w) - 1) : P(w[i].time - w[i + 1].time)
Uniform(w) == Len(w) >= 2 /\ \A i \in 1..Len(w) : w[i].target = w[1].target
Fast(g) == g < TargetTime
Slow(g) == g > TargetTime
RetargetFollowsTiming ==
    [][ /\ Uniform(window) /\ AllGaps(window, Fast) => window'[1].target <= window[1].target
        /\ Uniform(window) /\ AllGaps(window, Slow) => window'[1].target >= window[1].target
      ]_vars

\* Spec 8: the difficulty output is always within [newest.target/4,
\* newest.target*4] and at most MaxShareTarget; the comment at
\* difficulty.go:69-71 relies on it when it says the 4x trim band "matches
\* the 4x per-step clamp".  Every share's target is within that band of its
\* parent's.
RetargetWithinClamp ==
    Len(window) >= 2 =>
        /\ window[1].target >= window[2].target \div 4
        /\ window[1].target <= window[2].target * 4
        /\ window[1].target <= MaxShareTarget
=============================================================================
