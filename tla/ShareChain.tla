----------------------------- MODULE ShareChain -----------------------------
(***************************************************************************)
(* The sharechain engine as the P2P layer uses it: ValidateShare           *)
(* (internal/sharechain/validation.go) and the engine operations append,   *)
(* locator and shares_after, whose code is not under src/ and which are    *)
(* written from spec 4.8.                                                   *)
(*                                                                         *)
(* A share is an identifier; Parent gives its prev_share_hash, Zero the    *)
(* zero hash of genesis.  Every share weighs the same, so cumulative work  *)
(* is the length of the ancestor walk.  The checks of ValidateShare that   *)
(* look only at the share itself (version, sizes, address, PoW, declared   *)
(* target, coinbase commitment and outputs) are folded into one set,       *)
(* Invalid, of shares that fail one of them.                               *)
(***************************************************************************)
EXTENDS Integers, SequencesExt

CONSTANTS
    Shares,           \* every share any node may hold
    Parent,           \* prev_share_hash of each share
    Invalid,          \* shares that fail a self-contained validation check
    MaxLocatorCount   \* cap on a locator (64)

Zero == 0
ASSUME Zero \notin Shares /\ Parent \in [Shares -> Shares \cup {Zero}]

\* The ancestor walk from s back to genesis, newest first.
RECURSIVE Ancestry(_)
Ancestry(s) == IF s = Zero THEN <<>> ELSE <<s>> \o Ancestry(Parent[s])

CumWork(s) == Len(Ancestry(s))

\* The main chain ending at t, oldest first.
MainChain(t) == Reverse(Ancestry(t))

MinOf(a, b) == IF a <= b THEN a ELSE b

\* Validator.ValidateShare (validation.go:55-150): the self-contained
\* checks, then the parent must be stored unless the share is genesis.
ValidateShare(store, s) ==
    /\ s \notin Invalid
    /\ Parent[s] = Zero \/ Parent[s] \in store

\* append (spec 4.8): validate, persist (a duplicate add fails), and move
\* the tip only to strictly greater cumulative work.
AppendShare(c, s) ==
    IF ~ValidateShare(c.store, s) \/ s \in c.store THEN c
    ELSE [store |-> c.store \cup {s},
          tip   |-> IF c.tip = Zero \/ CumWork(s) > CumWork(c.tip) THEN s ELSE c.tip]

\* locator (spec 4.8): tip, tip-1, tip-2, tip-4, ..., genesis, capped.
Locator(t) ==
    LET a       == Ancestry(t)
        kept(d) == d = 0 \/ d = Len(a) - 1 \/ \E k \in 0..d : 2^k = d
        picks   == FoldLeft(LAMBDA acc, d : IF kept(d) THEN Append(acc, a[d + 1]) ELSE acc,
                            <<>>, [i \in 1..Len(a) |-> i - 1])
    IN  SubSeq(picks, 1, MinOf(Len(picks), MaxLocatorCount))

\* Variant: more is set only when two or more shares are left over.
SharesAfterLateMore(chain, locs, max) ==
    LET hit   == SelectInSeq(locs, LAMBDA l : l \in ToSet(chain))
        start == IF hit = 0 THEN 1
                 ELSE SelectInSeq(chain, LAMBDA s : s = locs[hit]) + 1
        avail == Len(chain) - start + 1
    IN  [shares |-> SubSeq(chain, start, start + MinOf(max, avail) - 1),
         more   |-> avail > max + 1]

\* shares_after (spec 4.8) over the server's main chain, oldest first:
\* up to max shares from the child of the first locator on it (or from
\* genesis); more iff the chunk was cut at max.
SharesAfter(chain, locs, max) ==
    LET hit   == SelectInSeq(locs, LAMBDA l : l \in ToSet(chain))
        start == IF hit = 0 THEN 1
                 ELSE SelectInSeq(chain, LAMBDA s : s = locs[hit]) + 1
        avail == Len(chain) - start + 1
    IN  [shares |-> SubSeq(chain, start, start + MinOf(max, avail) - 1),
         more   |-> avail > max]
=============================================================================
