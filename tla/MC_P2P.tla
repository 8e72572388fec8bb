------------------------------- MODULE MC_P2P -------------------------------
(***************************************************************************)
(* Six shares: the chain 1 <- 2 <- 3, a fork 1 <- 4 <- 6 off share 1, and  *)
(* a share 5 on 2 that fails validation.  Peer p1 holds the chain to 3,    *)
(* peer p2 the fork to 6; gossip carries shares 1 and 2 and the invalid    *)
(* one, so share 3 and the fork reach the node by sync only.  One queue    *)
(* slot, one connect slot, one limiter entry with a burst of one, so that  *)
(* every drop and eviction happens.  The server's batch is one share       *)
(* against a client asking for three: rounds of several chunks start from  *)
(* an empty chain and from a chain the peer extends, and each branch is    *)
(* longer than a batch past the fork point while its first chunk is no     *)
(* heavier than the other branch.  Shares 2 and 3 carry coinbases of the   *)
(* 100 KB the P2P decoder allows, the others 3 KB.  For the read limit the *)
(* batch is two (MC_P2P_sync.cfg) and the limit is scaled with it (1 MiB   *)
(* for 100 shares, 150 KB for 2) so that, as in the code, one share of the *)
(* largest size fits in a response and a full batch of them does not.      *)
(***************************************************************************)
EXTENDS P2P

CONSTANTS p1, p2

MCShares == 1..6
MCParent == (1 :> 0) @@ (2 :> 1) @@ (3 :> 2) @@ (4 :> 1) @@ (5 :> 2) @@ (6 :> 4)
MCPeerTip == (p1 :> 3) @@ (p2 :> 6)
MCSize == [s \in MCShares |-> IF s \in {2, 3} THEN 100 ELSE 3]
=============================================================================
