---------------------------- MODULE MC_JobSnapshot ----------------------------
(***************************************************************************)
(* Four shares: the chain 1 <- 2 <- 3 and a fork 4 off share 1, with a    *)
(* payout window of two, so that a window can gain a share, slide, or     *)
(* move to the other branch between the two reads.                        *)
(***************************************************************************)
EXTENDS JobSnapshot

MCShares == 1..4
MCParent == (1 :> 0) @@ (2 :> 1) @@ (3 :> 2) @@ (4 :> 1)
=============================================================================
