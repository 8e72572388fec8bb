----------------------------- MODULE Discovery -----------------------------
(***************************************************************************)
(* Peer discovery, internal/p2p/discovery.go: NewDiscovery (mDNS, the      *)
(* Kademlia DHT, the bootnode dials), the mDNS callback HandlePeerFound,   *)
(* and the two goroutines advertiseLoop and discoverLoop.                  *)
(*                                                                         *)
(* The libp2p host and DHT are the environment: Dial(p) succeeds when p is *)
(* reachable and adds the connection; the DHT puts a connected peer in its *)
(* routing table some time after the connection (identify runs first); a  *)
(* provider record or a query needs a non-empty routing table; a query     *)
(* returns the reachable providers of the namespace, each remote peer      *)
(* being one (they run this code), and closes its channel when done.       *)
(* Remote peers come and go (up), and may dial us when they can find us:   *)
(* on the LAN, or through our provider record.                             *)
(***************************************************************************)
EXTENDS FiniteSets, Sequences

CONSTANTS
    Peers,         \* remote p2pool nodes
    Self,          \* this node's peer id
    BadAddr,       \* a bootnode string AddrInfoFromString rejects
    Bootnodes,     \* the --bootnodes list, in order
    MdnsPeers,     \* peers on this node's LAN (mDNS also finds Self)
    EnableMDNS,    \* the --mdns flag
    MdnsOutcomes,  \* whether mdnsService.Start succeeds
    DhtOutcomes    \* whether dht.New and Bootstrap succeed

ASSUME Self \notin Peers /\ BadAddr \notin Peers
ASSUME Bootnodes \in Seq(Peers \cup {BadAddr}) /\ MdnsPeers \subseteq Peers
ASSUME EnableMDNS \in BOOLEAN /\ MdnsOutcomes \subseteq BOOLEAN /\ DhtOutcomes \subseteq BOOLEAN

VARIABLES
    start,   \* NewDiscovery's progress: "mdns", "dht", "boot", "running", "failed"
    mdnsOn,  \* the mDNS service runs and calls HandlePeerFound
    boot,    \* bootnode entries NewDiscovery has still to dial
    up,      \* remote peers currently reachable
    conn,    \* peers the host is connected to
    rt,      \* the DHT routing table
    adv,     \* our provider record for DHTNamespace is in the DHT
    disc     \* discoverLoop: [pc: "off", "find", "recv", "done"; ch: peers still to deliver]

vars == <<start, mdnsOn, boot, up, conn, rt, adv, disc>>

\* h.Connect: a connection when the peer is reachable, an error otherwise.
Dial(p) == IF p \in up THEN conn \cup {p} ELSE conn

Init ==
    /\ start = "mdns"
    /\ mdnsOn = FALSE
    /\ boot = Bootnodes
    /\ up \in SUBSET Peers
    /\ conn = {}
    /\ rt = {}
    /\ adv = FALSE
    /\ disc = [pc |-> "off", ch |-> {}]

\* NewDiscovery, mDNS setup (discovery.go:39-47): a failed Start is logged.
StartMdns ==
    /\ start = "mdns"
    /\ \E ok \in MdnsOutcomes : mdnsOn' = (EnableMDNS /\ ok)
    /\ start' = "dht"
    /\ UNCHANGED <<boot, up, conn, rt, adv, disc>>

\* NewDiscovery, DHT setup (discovery.go:49-58): an error from dht.New or
\* Bootstrap fails NewDiscovery, and StartDiscovery with it (part_001:95-98).
StartDht ==
    /\ start = "dht"
    /\ \E ok \in DhtOutcomes : start' = IF ok THEN "boot" ELSE "failed"
    /\ UNCHANGED <<mdnsOn, boot, up, conn, rt, adv, disc>>

\* One bootnode of the loop (discovery.go:60-72): a malformed address is
\* skipped, a failed dial is logged, and neither is tried again.
DialBootnode ==
    /\ start = "boot" /\ boot # <<>>
    /\ conn' = IF Head(boot) = BadAddr THEN conn ELSE Dial(Head(boot))
    /\ boot' = Tail(boot)
    /\ UNCHANGED <<start, mdnsOn, up, rt, adv, disc>>

\* The goroutines start and NewDiscovery returns (discovery.go:74-80).
StartLoops ==
    /\ start = "boot" /\ boot = <<>>
    /\ start' = "running"
    /\ disc' = [pc |-> "find", ch |-> {}]
    /\ UNCHANGED <<mdnsOn, boot, up, conn, rt, adv>>

\* HandlePeerFound (discovery.go:82-92): mDNS found p; skip Self, dial p.
HandlePeerFound(p) ==
    /\ mdnsOn /\ p \in (MdnsPeers \cap up) \cup {Self}
    /\ conn' = IF p = Self THEN conn ELSE Dial(p)
    /\ UNCHANGED <<start, mdnsOn, boot, up, rt, adv, disc>>

\* One turn of advertiseLoop (discovery.go:94-109): Advertise fails while
\* the routing table is empty, and the loop calls it again at once.
Advertise ==
    /\ start = "running"
    /\ adv' = (adv \/ rt # {})
    /\ UNCHANGED <<start, mdnsOn, boot, up, conn, rt, disc>>

\* discoverLoop's one query (discovery.go:111-116): FindPeers over the
\* routing table.  With an empty table the query finds nothing: an error
\* returns at once, a channel closes at once, and both end the goroutine.
FindPeers ==
    /\ disc.pc = "find"
    /\ disc' = [pc |-> "recv",
                ch |-> IF rt = {} THEN {} ELSE up \cup (IF adv THEN {Self} ELSE {})]
    /\ UNCHANGED <<start, mdnsOn, boot, up, conn, rt, adv>>

\* One receive of discoverLoop (discovery.go:118-135): a closed channel
\* ends the goroutine; Self is skipped; any other peer is dialled.
DiscoverPeer ==
    /\ disc.pc = "recv"
    /\ IF disc.ch = {}
       THEN disc' = [pc |-> "done", ch |-> {}] /\ conn' = conn
       ELSE \E p \in disc.ch :
              /\ disc' = [disc EXCEPT !.ch = @ \ {p}]
              /\ conn' = IF p = Self THEN conn ELSE Dial(p)
    /\ UNCHANGED <<start, mdnsOn, boot, up, rt, adv>>

\* The DHT adds a connected peer to its routing table after identify.
AddToRoutingTable(p) ==
    /\ p \in conn \ rt
    /\ rt' = rt \cup {p}
    /\ UNCHANGED <<start, mdnsOn, boot, up, conn, adv, disc>>

\* A remote peer comes up, or goes away and its connection with it.
PeerUp(p) ==
    /\ p \notin up /\ up' = up \cup {p}
    /\ UNCHANGED <<start, mdnsOn, boot, conn, rt, adv, disc>>

PeerDown(p) ==
    /\ p \in up /\ up' = up \ {p}
    /\ conn' = conn \ {p} /\ rt' = rt \ {p}
    /\ UNCHANGED <<start, mdnsOn, boot, adv, disc>>

\* A remote peer dials us: it found us on the LAN or by our provider record.
Inbound(p) ==
    /\ p \in up \ conn /\ (p \in MdnsPeers \/ adv)
    /\ conn' = conn \cup {p}
    /\ UNCHANGED <<start, mdnsOn, boot, up, rt, adv, disc>>

Next ==
    \/ StartMdns \/ StartDht \/ DialBootnode \/ StartLoops
    \/ Advertise \/ FindPeers \/ DiscoverPeer
    \/ \E p \in Peers \cup {Self} : HandlePeerFound(p)
    \/ \E p \in Peers : AddToRoutingTable(p) \/ PeerUp(p) \/ PeerDown(p) \/ Inbound(p)

\* The startup sequence, both goroutines, the mDNS service's periodic
\* queries and the DHT's identify run whenever they can; the remote peers
\* and the network are not obliged to do anything.
Fairness ==
    /\ WF_vars(StartMdns) /\ WF_vars(StartDht) /\ WF_vars(DialBootnode)
    /\ WF_vars(StartLoops) /\ WF_vars(Advertise) /\ WF_vars(FindPeers)
    /\ WF_vars(DiscoverPeer)
    /\ \A p \in Peers : WF_vars(HandlePeerFound(p)) /\ WF_vars(AddToRoutingTable(p))

Spec == Init /\ [][Next]_vars /\ Fairness
-----------------------------------------------------------------------------
\* Spec 7: a transient failure to reach a peer is retried and never fatal.
\* A node whose startup succeeded and which has a well-formed bootnode that
\* is reachable from some time on eventually has a peer: the bootnode dials
\* at startup, mDNS, the DHT query and inbound dials together get it
\* connected.
JoinsOnceBootnodeReachable ==
    (\E i \in DOMAIN Bootnodes :
        Bootnodes[i] # BadAddr /\ <>[](Bootnodes[i] \in up))
      => <>(conn # {} \/ start = "failed")
=============================================================================
