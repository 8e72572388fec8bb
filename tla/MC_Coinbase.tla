---------------------------- MODULE MC_Coinbase ----------------------------
(***************************************************************************)
(* The two computations behind a job's coinbase, checked in one run: the   *)
(* PPLNS payouts it pays (Pplns, with the bounds of MC_Pplns) and the      *)
(* Stratum job and header reconstruction around it (Template).  They share *)
(* no state, so each behaviour runs one of them: the initial state picks   *)
(* the part, and the other part stays at its initial state.  The payout    *)
(* constants are those of MC_Pplns.                                        *)
(*                                                                         *)
(* Template bounds: templates of 0..6 transactions (tree levels of 7, 4, 2 *)
(* and 1 hashes and of every parity) at two heights; txid k is the 32     *)
(* distinct bytes 32k..32k+31, so that a byte-order slip changes a leaf.   *)
(* Extranonce1 and extranonce2 are one byte each; a miner's version is     *)
(* valid or one byte short, which takes ReconstructHeader's error path.    *)
(***************************************************************************)
EXTENDS Template

CONSTANTS Miners, NoFinder, Finders, Targets, MaxTarget, WindowSize, Rewards,
          FinderFeePercent, DustThreshold

VARIABLES window, reward, finder, part

Pp == INSTANCE Pplns

MCMiners == {1, 2, 3}
MCFinders == {0, 1, 3}
MCTargets == {3, 4, 12}
MCRewards == {0, 10, 23, 50}

TxDisplay(k) == [i \in 1..32 |-> 32 * k + i - 1]
PrevDisplay == [i \in 1..32 |-> 255 - 7 * i]

MCTemplates ==
    { [height |-> h, prev |-> Hex(PrevDisplay), bits |-> Hex(<<29, 0, 255, 255>>),
       txids |-> [i \in 1..n |-> Hex(TxDisplay(i))]] : h \in {1, 2}, n \in 0..6 }
MCExtranonce1 == Hex(<<7>>)
MCExtranonce2s == { Hex(<<0>>), Hex(<<201>>) }
MCVersions == { Hex(<<32, 0, 0, 0>>), Hex(<<32, 0, 0>>) }
MCNTime == Hex(<<101, 1, 2, 3>>)
MCNonce == Hex(<<0, 0, 1, 44>>)

payoutVars == <<window, reward, finder>>
templateVars == <<tmpl, job, sub>>

MCInit == Pp!Init /\ Init /\ part \in {"payouts", "template"}

MCNext ==
    \/ part = "payouts" /\ Pp!Next /\ UNCHANGED <<templateVars, part>>
    \/ part = "template" /\ Next /\ UNCHANGED <<payoutVars, part>>

MCSpec == MCInit /\ [][MCNext]_<<payoutVars, templateVars, part>>

\* Every payout CalculatePayouts emits is a positive amount to a miner or
\* the finder (Pplns).
TypeOK == Pp!TypeOK

\* The coinbase outputs add up to the template's value (Pplns).
Conservation == Pp!Conservation

\* No one but the finder is paid dust, unless every payout is dust (Pplns).
NoDustOutputs == Pp!NoDustOutputs

\* No window miner is paid less than its difficulty-weighted share, and one
\* left out had a share below the dust threshold (Pplns).
FairShare == Pp!FairShare

\* SubmittedRootVerifies, PrevHashInternalOrder and CoinbaseFillsExtranonce
\* come from Template.
=============================================================================
