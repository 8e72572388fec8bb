------------------------------ MODULE MC_Pplns ------------------------------
(***************************************************************************)
(* Three miners, a window of four shares and targets of weight 1, 3 and 4 *)
(* (maxTarget 12).  With a 10% finder fee and a dust threshold of 5,       *)
(* rewards of 10, 23 and 50 give fees, rounding remainders and dust        *)
(* payouts of every kind; a finder may own no share of the window (3       *)
(* sometimes), be absent (NoFinder) or be a window miner.                  *)
(***************************************************************************)
EXTENDS Pplns

MCMiners == {1, 2, 3}
MCFinders == {0, 1, 3}
MCTargets == {3, 4, 12}
MCRewards == {0, 10, 23, 50}
=============================================================================
