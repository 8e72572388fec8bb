---------------------------- MODULE MC_Discovery ----------------------------
(***************************************************************************)
(* Two remote nodes: the bootnode b, on another network, and q, on this    *)
(* node's LAN.  The bootnode list also holds a malformed entry, and mDNS   *)
(* and the DHT may each fail to start.                                     *)
(***************************************************************************)
EXTENDS Discovery

CONSTANTS b, q

MCBootnodes == <<BadAddr, b>>
=============================================================================
