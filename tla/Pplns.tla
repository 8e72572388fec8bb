------------------------------- MODULE Pplns --------------------------------
(***************************************************************************)
(* PPLNS payouts: pplns.Window (window.go) and Calculator.CalculatePayouts *)
(* (calculator.go), both in src/unnamed/part_004.                          *)
(*                                                                         *)
(* State: the sliding window of the newest shares (newest first) that the  *)
(* node hands to CalculatePayouts, the coinbase value of the current       *)
(* template and the finder address of the call.  The payout map is the    *)
(* value CalculatePayouts returns for that state (Payouts, below); the     *)
(* final sort of the entries by amount is output layout and is left out:   *)
(* a payout list is a function from address to amount.                     *)
(*                                                                         *)
(* Addresses are integers so that sort.Strings is the order on Int; the    *)
(* empty finder address "" is NoFinder.                                    *)
(***************************************************************************)
EXTENDS Integers, Sequences, FiniteSets, TLC

CONSTANTS
    Miners,            \* miner addresses that own shares
    NoFinder,          \* the empty finder address ""
    Finders,           \* finder addresses a caller may pass (NoFinder included)
    Targets,           \* share targets a share may carry
    MaxTarget,         \* the window's maxTarget (0x207fffff expanded in the code)
    WindowSize,        \* PPLNS window length N
    Rewards,           \* coinbase values (satoshis) a template may carry
    FinderFeePercent,  \* c.finderFeePercent
    DustThreshold      \* c.dustThresholdSats

ASSUME Miners \subseteq Nat \ {0} /\ NoFinder = 0
ASSUME NoFinder \in Finders /\ Finders \subseteq Miners \cup {NoFinder}
ASSUME Targets \subseteq Nat /\ MaxTarget \in Nat \ {0}
ASSUME WindowSize \in Nat \ {0} /\ Rewards \subseteq Int
ASSUME FinderFeePercent \in 0..100 /\ DustThreshold \in Nat

LowestOf(S) == CHOOSE x \in S : \A y \in S : x <= y

\* payouts[a] += x on a Go map: a missing key counts as 0.
AddTo(p, a, x) ==
    IF a \in DOMAIN p THEN [p EXCEPT ![a] = @ + x] ELSE p @@ (a :> x)

SumOf(p) ==
    LET RECURSIVE S(_)
        S(D) == IF D = {} THEN 0
                ELSE LET a == LowestOf(D) IN p[a] + S(D \ {a})
    IN  S(DOMAIN p)

\* Variant: every share weighs the same, whatever its difficulty.
ShareWeightCount(share) == 1

\* Window.ShareWeight (window.go:26-31): maxTarget / shareTarget, or 1 for a
\* zero target.
ShareWeight(share) ==
    IF share.target = 0 THEN 1 ELSE MaxTarget \div share.target

\* Window.MinerWeights and TotalWeight (window.go:34-57).
MinerWeight(w, a) ==
    LET RECURSIVE W(_)
        W(i) == IF i = 0 THEN 0
                ELSE W(i - 1) + (IF w[i].miner = a THEN ShareWeight(w[i]) ELSE 0)
    IN  W(Len(w))
WindowMiners(w) == { w[i].miner : i \in 1..Len(w) }
TotalWeight(w) == LET RECURSIVE T(_)
                      T(i) == IF i = 0 THEN 0 ELSE T(i - 1) + ShareWeight(w[i])
                  IN  T(Len(w))

\* int64(float64(totalReward) * pct / 100): exact for the totals modelled.
FinderFee(total) == (total * FinderFeePercent) \div 100

\* distributable * weight / totalWeight for every miner of the window,
\* keeping the positive amounts (calculator.go:116-143).
Proportional(w, dist) ==
    LET share(a) == (dist * MinerWeight(w, a)) \div TotalWeight(w)
        paid == { a \in WindowMiners(w) : share(a) > 0 }
    IN  [a \in paid |-> share(a)]

\* The finder fee, then the rounding remainder to the finder or to the
\* lowest address of the window (calculator.go:145-159).
WithFinderFee(p, finder, fee) ==
    IF finder # NoFinder /\ fee > 0 THEN AddTo(p, finder, fee) ELSE p

\* Variant: the rounding remainder is not paid out.
WithRemainderDropped(p, w, total, finder) == p

WithRemainder(p, w, total, finder) ==
    LET remainder == total - SumOf(p)
    IN  IF remainder <= 0 THEN p
        ELSE IF finder # NoFinder THEN AddTo(p, finder, remainder)
        ELSE AddTo(p, LowestOf(WindowMiners(w)), remainder)

\* Dust payouts of everyone but the finder, and their sum.
DustOf(p, finder) == { a \in DOMAIN p : p[a] < DustThreshold /\ a # finder }
DustTotal(p, finder) ==
    SumOf([a \in DustOf(p, finder) |-> p[a]])

\* Variant: the dust goes to the lowest window address, kept or not.
ConsolidateDustToFirst(p, w, finder) ==
    LET dust == DustOf(p, finder)
        kept == [a \in DOMAIN p \ dust |-> p[a]]
    IN  IF Cardinality(dust) >= Cardinality(DOMAIN p) THEN p
        ELSE IF DustTotal(p, finder) = 0 THEN kept
        ELSE IF finder # NoFinder THEN AddTo(kept, finder, DustTotal(p, finder))
        ELSE AddTo(kept, LowestOf(WindowMiners(w)), DustTotal(p, finder))

\* Variant: the dust is always folded into the finder entry, even "".
ConsolidateDustToFinder(p, w, finder) ==
    LET dust == DustOf(p, finder)
        kept == [a \in DOMAIN p \ dust |-> p[a]]
    IN  IF Cardinality(dust) >= Cardinality(DOMAIN p) THEN p
        ELSE IF DustTotal(p, finder) = 0 THEN kept
        ELSE AddTo(kept, finder, DustTotal(p, finder))

\* Dust consolidation (calculator.go:161-190): unless every payout is dust,
\* delete the dust payouts and add their sum to the finder, or with no
\* finder to the lowest window address that still has a payout.
ConsolidateDust(p, w, finder) ==
    LET dust == DustOf(p, finder)
        kept == [a \in DOMAIN p \ dust |-> p[a]]
        heir == LowestOf({ a \in WindowMiners(w) : a \in DOMAIN kept })
    IN  IF Cardinality(dust) >= Cardinality(DOMAIN p) THEN p
        ELSE IF DustTotal(p, finder) = 0 THEN kept
        ELSE IF finder # NoFinder THEN AddTo(kept, finder, DustTotal(p, finder))
        ELSE AddTo(kept, heir, DustTotal(p, finder))

\* Calculator.CalculatePayouts (calculator.go:99-210), as an address ->
\* amount map; an empty window, a non-positive reward or a zero total
\* weight give no payouts (nil).
CalculatePayouts(w, total, finder) ==
    IF Len(w) = 0 \/ total <= 0 \/ TotalWeight(w) = 0 THEN <<>>
    ELSE LET fee  == FinderFee(total)
             p1   == Proportional(w, total - fee)
             p2   == WithFinderFee(p1, finder, fee)
             p3   == WithRemainder(p2, w, total, finder)
         IN  ConsolidateDust(p3, w, finder)

VARIABLES
    window,   \* the N newest shares, newest first
    reward,   \* coinbase value of the current template
    finder    \* finder address passed to CalculatePayouts

vars == <<window, reward, finder>>

Payouts == CalculatePayouts(window, reward, finder)

Init ==
    /\ window = <<>>
    /\ reward = 0
    /\ finder = NoFinder

\* A share of miner m with target t joins the chain tip: the window slides.
MineShare(m, t) ==
    /\ window' = SubSeq(<<[miner |-> m, target |-> t]>> \o window,
                        1, IF Len(window) < WindowSize THEN Len(window) + 1 ELSE WindowSize)
    /\ UNCHANGED <<reward, finder>>

\* Payouts are requested for a template of value r, for finder f.
RequestPayouts(r, f) ==
    /\ reward' = r
    /\ finder' = f
    /\ UNCHANGED window

Next ==
    \/ \E m \in Miners, t \in Targets : MineShare(m, t)
    \/ \E r \in Rewards, f \in Finders : RequestPayouts(r, f)

Spec == Init /\ [][Next]_vars
-----------------------------------------------------------------------------
\* Reference weights, computed from the share targets directly.
RefMinerWeight(w, a) ==
    SumOf([i \in { i \in 1..Len(w) : w[i].miner = a } |-> MaxTarget \div w[i].target])
RefTotalWeight(w) == SumOf([i \in 1..Len(w) |-> MaxTarget \div w[i].target])
FairAmount(a) ==
    ((reward - FinderFee(reward)) * RefMinerWeight(window, a)) \div RefTotalWeight(window)

\* The state has its types, and every payout CalculatePayouts emits is a
\* positive amount to a miner or the finder: no zero-value coinbase output.
TypeOK ==
    /\ window \in Seq([miner : Miners, target : Targets])
    /\ Len(window) <= WindowSize
    /\ reward \in Rewards \cup {0}
    /\ finder \in Finders
    /\ DOMAIN Payouts \subseteq Miners
    /\ \A a \in DOMAIN Payouts : Payouts[a] \in Nat \ {0}

\* The coinbase spends exactly the template's value: the proportional
\* amounts, the finder fee, the rounding remainder and the folded dust add up
\* to totalReward (spec 4.4, calculator.go:151-190).
Conservation ==
    Len(window) > 0 /\ reward > 0 => SumOf(Payouts) = reward

\* After consolidation no one but the finder receives an output below the
\* dust threshold, unless every payout is dust and all were kept
\* (calculator.go:161-190).
NoDustOutputs ==
    LET p == Payouts
    IN  \/ \A a \in DOMAIN p : a = finder \/ p[a] >= DustThreshold
        \/ \A a \in DOMAIN p : a # finder /\ p[a] < DustThreshold

\* No miner of the window is paid less than its difficulty-weighted share
\* of the distributable reward, and a miner left out had a share below the
\* dust threshold (calculator.go:116-190 with window.go:26-57).
FairShare ==
    reward > 0 =>
        \A a \in WindowMiners(window) :
            IF a \in DOMAIN Payouts THEN Payouts[a] >= FairAmount(a)
            ELSE FairAmount(a) < DustThreshold

\* Spec section 7: equal-weight miners other than the finder receive within
\* one satoshi of each other.
EqualPeersWithinOne ==
    \A a, b \in DOMAIN Payouts \ {finder} :
        RefMinerWeight(window, a) = RefMinerWeight(window, b) =>
            Payouts[a] - Payouts[b] \in -1..1
=============================================================================
