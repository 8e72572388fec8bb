-------------------------------- MODULE P2P --------------------------------
(***************************************************************************)
(* One node's P2P ingress and the orchestrator steps that apply it:        *)
(*   - the gossip reader PubSub.readLoop with its per-peer rate limiters   *)
(*     (internal/p2p/pubsub.go) and the incoming-share queue;              *)
(*   - the peer-connected notifier and its channel (node.go, part_001);    *)
(*   - the sync client RequestLocator and server handleStream              *)
(*     (internal/p2p/messages.go) over the engine's locator and            *)
(*     shares_after (ShareChain);                                          *)
(*   - the orchestrator, the single writer of the chain: it validates and  *)
(*     appends queued shares, and runs a sync round for a connected peer,  *)
(*     asking again while the server answers more = true (spec 4.10,       *)
(*     4.11; its code is not under src/).                                  *)
(*                                                                         *)
(* Remote peers are honest and their chains do not change during a        *)
(* behaviour: PeerTip gives each peer's tip.  Gossip delivers each share   *)
(* of GossipShares at most once (GossipSub deduplicates message ids), in   *)
(* any order, from any peer; Garbage is a message that does not decode.    *)
(* A limiter is its token count; Refill is time passing.  A sync exchange  *)
(* may be lost: the server ignores its Write error and the client then     *)
(* fails to decode.                                                        *)
(***************************************************************************)
EXTENDS ShareChain, FiniteSets

CONSTANTS
    Peers,             \* remote peer ids
    PeerTip,           \* each peer's chain tip
    Garbage,           \* a gossip message that does not decode
    GossipShares,      \* the shares gossip may deliver
    QueueCapacity,     \* incomingShares capacity (256)
    ConnCapacity,      \* peerConnected capacity (16)
    LimiterCapacity,   \* size at which the limiter map evicts (500)
    Burst,             \* token bucket burst (20)
    MaxSyncBatchSize,  \* server clamp on max_count (100)
    ClientMaxCount,    \* max_count the client asks for
    Size,              \* encoded size of each share (KB)
    MaxSyncMsgSize,    \* maxSyncMsgSize: the client reads at most this much
    WriteOutcomes      \* whether the server's response write reaches the client

ASSUME PeerTip \in [Peers -> Shares] /\ Garbage \notin Shares /\ GossipShares \subseteq Shares
ASSUME Size \in [Shares -> Nat] /\ WriteOutcomes \subseteq BOOLEAN
ASSUME \A p \in Peers : ToSet(MainChain(PeerTip[p])) \cap Invalid = {}

\* Each peer's main chain, oldest first.
PeerChain == [p \in Peers |-> MainChain(PeerTip[p])]

VARIABLES
    chain,     \* the local sharechain: [store, tip]
    gossiped,  \* shares gossip has delivered to readLoop
    limiter,   \* peerLimiters: peer -> tokens
    inQ,       \* incomingShares channel
    connQ,     \* peerConnected channel
    sync       \* the orchestrator's sync round

vars == <<chain, gossiped, limiter, inQ, connQ, sync>>

Idle == [phase |-> "idle"]

Init ==
    /\ chain = [store |-> {}, tip |-> Zero]
    /\ gossiped = {}
    /\ limiter = <<>>
    /\ inQ = <<>>
    /\ connQ = <<>>
    /\ sync = Idle

\* Variant: the limiter map is never pruned.
GetPeerLimiterNoEvict(p) ==
    IF p \in DOMAIN limiter THEN {limiter} ELSE { limiter @@ (p :> Burst) }

\* getPeerLimiter (pubsub.go:103-122): the peer's limiter, or a new one
\* with a full bucket after evicting an arbitrary entry from a full map.
GetPeerLimiter(p) ==
    IF p \in DOMAIN limiter THEN {limiter}
    ELSE IF Cardinality(DOMAIN limiter) >= LimiterCapacity
    THEN { [q \in (DOMAIN limiter \ {v}) \cup {p} |->
                IF q = p THEN Burst ELSE limiter[q]] : v \in DOMAIN limiter }
    ELSE { limiter @@ (p :> Burst) }

\* maxP2PCoinbaseTxSize, in the KB of Size.
MaxP2PCoinbaseTxSize == 100

\* DecodeShareMsg (messages.go:90-103): CBOR decode, then the coinbase and
\* address size limits (Size stands for the coinbase, which dominates).
DecodeShareMsg(m) == m # Garbage /\ Size[m] <= MaxP2PCoinbaseTxSize

\* One message of readLoop (pubsub.go:68-101): take a token or drop the
\* message, decode it, and push it to incomingShares unless that is full.
ReadLoop(p, m) ==
    /\ m = Garbage \/ m \notin gossiped
    /\ gossiped' = IF m = Garbage THEN gossiped ELSE gossiped \cup {m}
    /\ \E lim \in GetPeerLimiter(p) :
          IF lim[p] = 0
          THEN limiter' = lim /\ inQ' = inQ
          ELSE /\ limiter' = [lim EXCEPT ![p] = @ - 1]
               /\ inQ' = IF DecodeShareMsg(m) /\ Len(inQ) < QueueCapacity
                         THEN Append(inQ, m) ELSE inQ
    /\ UNCHANGED <<chain, connQ, sync>>

\* Time passes: the token bucket of a peer regains a token.
Refill(p) ==
    /\ p \in DOMAIN limiter /\ limiter[p] < Burst
    /\ limiter' = [limiter EXCEPT ![p] = @ + 1]
    /\ UNCHANGED <<chain, gossiped, inQ, connQ, sync>>

\* peerNotifiee.Connected (part_001:148-154): non-blocking send.
PeerConnect(p) ==
    /\ connQ' = IF Len(connQ) < ConnCapacity THEN Append(connQ, p) ELSE connQ
    /\ UNCHANGED <<chain, gossiped, limiter, inQ, sync>>

\* The orchestrator validates and appends a gossiped share.
ProcessShare ==
    /\ sync = Idle /\ inQ # <<>>
    /\ chain' = AppendShare(chain, Head(inQ))
    /\ inQ' = Tail(inQ)
    /\ UNCHANGED <<gossiped, limiter, connQ, sync>>

\* The orchestrator starts a sync round with a connected peer:
\* RequestLocator (messages.go:266-289) sends the current locator.
StartSync ==
    /\ sync = Idle /\ connQ # <<>>
    /\ sync' = [phase |-> "sent", peer |-> Head(connQ),
                locs |-> Locator(chain.tip), max |-> ClientMaxCount]
    /\ connQ' = Tail(connQ)
    /\ UNCHANGED <<chain, gossiped, limiter, inQ>>

\* handleStream on the peer (messages.go:223-263): clamp max_count and the
\* locators, ask the handler, write the response, which may be lost.
ServeSync ==
    /\ sync.phase = "sent"
    /\ LET max  == MinOf(sync.max, MaxSyncBatchSize)
           locs == SubSeq(sync.locs, 1, MinOf(Len(sync.locs), MaxLocatorCount))
           resp == SharesAfter(PeerChain[sync.peer], locs, max)
       IN  \E ok \in WriteOutcomes :
              sync' = [phase |-> "served", peer |-> sync.peer, locs |-> sync.locs,
                       max |-> sync.max, resp |-> [ok |-> ok] @@ resp]
    /\ UNCHANGED <<chain, gossiped, limiter, inQ, connQ>>

\* The encoded size of a response carrying these shares.
RespSize(shares) == FoldLeft(LAMBDA n, s : n + Size[s], 0, shares)

\* RequestLocator reads through io.LimitReader(stream, maxSyncMsgSize): a
\* longer response is cut, and the cut CBOR fails to decode.
Decodes(resp) == resp.ok /\ RespSize(resp.shares) <= MaxSyncMsgSize

\* Variant: the follow-up request reuses the locator sent before.
ApplySyncStaleLocator ==
    /\ sync.phase = "served"
    /\ IF ~Decodes(sync.resp)
       THEN chain' = chain /\ sync' = Idle
       ELSE /\ chain' = FoldLeft(AppendShare, chain, sync.resp.shares)
            /\ sync' = IF sync.resp.more
                       THEN [phase |-> "sent", peer |-> sync.peer,
                             locs |-> sync.locs, max |-> sync.max]
                       ELSE Idle
    /\ UNCHANGED <<gossiped, limiter, inQ, connQ>>

\* The client reads and decodes the response (messages.go:291-302); a
\* lost or undecodable response ends the round.  The shares are appended oldest first,
\* and while more is set the client asks again from its new locator.
ApplySync ==
    /\ sync.phase = "served"
    /\ IF ~Decodes(sync.resp)
       THEN chain' = chain /\ sync' = Idle
       ELSE LET c == FoldLeft(AppendShare, chain, sync.resp.shares) IN
            /\ chain' = c
            /\ sync' = IF sync.resp.more
                       THEN [phase |-> "sent", peer |-> sync.peer,
                             locs |-> Locator(c.tip), max |-> ClientMaxCount]
                       ELSE Idle
    /\ UNCHANGED <<gossiped, limiter, inQ, connQ>>

Next ==
    \/ \E p \in Peers, m \in GossipShares \cup {Garbage} : ReadLoop(p, m)
    \/ \E p \in Peers : Refill(p) \/ PeerConnect(p)
    \/ ProcessShare
    \/ StartSync
    \/ ServeSync
    \/ ApplySync

\* A started round keeps going: the peer's stream handler answers (or the
\* 30 s deadline ends the exchange) and the orchestrator, blocked in the
\* round, reads the answer.  The network, the clock and the peers are not
\* obliged to do anything.
Fairness ==
    /\ WF_vars(ServeSync)
    /\ WF_vars(ApplySync)

Spec == Init /\ [][Next]_vars /\ Fairness
-----------------------------------------------------------------------------
\* The state has its types, and the limiter map never holds more than
\* LimiterCapacity peers (pubsub.go:111-117).
TypeOK ==
    /\ chain.store \subseteq Shares /\ chain.tip \in chain.store \cup {Zero}
    /\ gossiped \subseteq GossipShares
    /\ DOMAIN limiter \subseteq Peers /\ Cardinality(DOMAIN limiter) <= LimiterCapacity
    /\ \A p \in DOMAIN limiter : limiter[p] \in 0..Burst
    /\ inQ \in Seq(Shares) /\ Len(inQ) <= QueueCapacity
    /\ connQ \in Seq(Peers) /\ Len(connQ) <= ConnCapacity
    /\ sync.phase \in {"idle", "sent", "served"}

\* A sync round that ends on a response the client decoded, with more =
\* false, has
\* left the whole main chain of that peer in the local store: the clamp of
\* max_count and the more flag (messages.go:242-247) never end a round
\* early, and every chunk can be appended in its order.
SyncCompletesPeerChain ==
    [][ sync.phase = "served" /\ Decodes(sync.resp) /\ ~sync.resp.more /\ sync' = Idle
        => ToSet(MainChain(PeerTip[sync.peer])) \subseteq chain'.store ]_vars

\* Spec 4.10: the server clamps max_count to 100 and the client reads
\* messages up to 1 MiB.  Over a network that delivers every response, a
\* sync round that ends has brought the peer's whole chain, whatever the
\* shares on it: each chunk the server writes (up to 100 shares, each with
\* a coinbase of up to 100 KB, messages.go:11-12) is one the client can
\* read (messages.go:292-297).
SyncRoundCatchesUp ==
    [][ sync.phase = "served" /\ sync' = Idle
        => ToSet(PeerChain[sync.peer]) \subseteq chain'.store ]_vars

\* A sync round with a peer whose main chain holds the local tip ends: each
\* chunk extends the tip, so the follow-up requests that more = true causes
\* (messages.go:242-247, 302) ask from a new locator, and the orchestrator
\* is not held in the round forever.
SyncRoundWithPeerAheadEnds ==
    (sync.phase = "sent" /\ (chain.tip = Zero \/ chain.tip \in ToSet(PeerChain[sync.peer])))
        ~> sync.phase = "idle"

=============================================================================
