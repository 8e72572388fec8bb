# TLA+ models of p2pool-go

These are TLA+ models of the parts of p2pool-go that keep state or compute
consensus-relevant values. Each part is checked with TLC. Every definition is
translated from the Go source under `src/`. `PROJECT.json` maps each
definition to the lines it models, lists the runs, mutants, findings and
hazards, and gives a status for every component.

## 1. The system (inventory)

p2pool-go is a decentralised mining pool. Miners connect over Stratum v1. The
node turns Bitcoin block templates into jobs. Shares the miners find are
validated, appended to a sharechain (a chain of low-difficulty blocks) and
gossiped to peers. The payout list inside every coinbase comes from the last N
shares (PPLNS).

| Component | Source | State | Operations | Modelled by |
|---|---|---|---|---|
| Compact target encoding | `src/unnamed/part_007` (pkg/util) | none (pure) | CompactToTarget, TargetToCompact | `Compact` |
| Difficulty | `src/unnamed/part_003` (difficulty.go) | none; reads the chain | NextTarget | `Difficulty` |
| PPLNS | `src/unnamed/part_004` (window.go, calculator.go) | none; reads the window | ShareWeight, MinerWeights, CalculatePayouts | `Pplns` |
| Work generator | `src/internal/bitcoin/types.go` 157-423 (package work) | current template, job counter, job cache (≤20), job channel (8), lastJobTime, failure count | pollLoop, fetchTemplate, GenerateJob, storeJob, GetJob | `WorkGenerator` |
| Job construction | `src/internal/work/template.go`, `extractTxHashes` (types.go:414-424) | none (pure) | BuildJobFromTemplate, merkle branches/root, prevhash word swap, header reconstruction, VerifyMerkleRoot | `Template` |
| Share validator | `src/internal/sharechain/validation.go` | reads the store | ValidateShare | partly (`ShareChain.ValidateShare`, `Difficulty.MineShare`) |
| Sharechain engine and store | not under `src/` (tests only) | shares, tip, cumulative work | append, tip, locator, shares_after | partly (`ShareChain`, from spec 4.8) |
| P2P gossip | `src/internal/p2p/pubsub.go`, `src/unnamed/part_001` | incoming queue (256), limiter map (500), peer-connected channel (16) | readLoop, getPeerLimiter, Connected | `P2P` |
| P2P sync | `src/internal/p2p/messages.go` 176-303 | none (per stream) | handleStream, RequestLocator | `P2P` |
| Codecs | `messages.go`, `compress.go`, `src/unnamed/part_009` | none | CBOR, zstd, VarInt | not modelled (serialisation) |
| Stratum | `src/internal/stratum/protocol.go` (codec); server not under `src/` | sessions | codec only | not modelled (I/O framing) |
| Discovery | `src/internal/p2p/discovery.go`, `StartDiscovery` (part_001) | mDNS service, DHT, connections (libp2p) | NewDiscovery, HandlePeerFound, advertiseLoop, discoverLoop | `Discovery` |
| Identity, metrics | `part_000` | key file, counters | LoadOrCreateIdentity | not modelled (file I/O) |
| Orchestrator | not under `src/` (`node/events.go` types only) | | event loop | partly (job broadcast, share processing and sync rounds, from spec 4.10, 4.11 and 5) |

How the parts interact:
- The work generator's poller fetches a template every 5 s. It builds a job
  from the PPLNS payouts of the sharechain tip, and from the tip hash as the
  share commitment.
- It offers the job to a buffered channel without blocking.
- The orchestrator takes jobs from the channel and broadcasts them to the
  miners.
- A miner's share is looked up by job ID (GetJob), reconstructed, and
  validated. The validation includes the target NextTarget demands from the
  parent's window. The share is then appended and gossiped.
- Peers' shares arrive through the gossip queue and through the sync
  protocol. A sync round starts when a peer connects; peers are found by
  the bootnode dials, mDNS and one DHT query at startup (discovery).

The behaviours that make the system hard to test:
- the poller and the orchestrator running concurrently over bounded channels
  that drop when full;
- RPC failures with backoff;
- a bounded job cache evicting jobs still in use;
- integer truncation at the boundaries of the compact encoding and of PPLNS
  rounding;
- gossip that is neither FIFO nor reliable.

## 2. Modules

| Module | Models | State / actions |
|---|---|---|
| `Compact` | `CompactToTarget` (part_007:44-63), `TargetToCompact` (65-99) | Pure operators. The digit `Base` is a constant (256 in the code). As in the code, a target of three digits or fewer is its own mantissa (part_007:78-81): the loop shifts digit i by size−1−i places. Bitcoin's encoder instead moves it to the top of the mantissa. |
| `Difficulty` | `NextTarget` (part_003:51-123) as an operator: window cap, `Trim`, `Adjust` (timing, 4x clamp, MaxShareTarget), normalisation | `window`, the newest shares of a chain. `MineShare(gap)` adds a share carrying the target NextTarget gives its parent's window, as `ValidateShare` (validation.go:105-119) demands, and a timestamp `gap` after its parent. |
| `Pplns` | `ShareWeight`, `MinerWeights`, `TotalWeight` (window.go) and `CalculatePayouts` (calculator.go:99-210) as a pipeline: `Proportional`, `WithFinderFee`, `WithRemainder`, `ConsolidateDust` | `window`, `reward`, `finder`. `MineShare` slides the window. `RequestPayouts` is a call of the payouts function. `Payouts` is the returned map. |
| `WorkGenerator` | `pollLoop`, `backoffDuration`, `fetchTemplate`, `GenerateJob`, `storeJob` (types.go) and the orchestrator's job broadcast (spec) | See below. |
| `JobFeed` | the promise of spec 4.9/4.11/5 to the miners | `tip`, `work`: the miners' block never runs ahead of the tip or back, and catches up (weak fairness of `Deliver`). `WorkGenerator` implements it through `JF == INSTANCE JobFeed WITH tip <- btcTip, work <- broadcast.prev`. |
| `Template` | `ExtractTxHashes`, `ComputeMerkleBranches`, `ComputeMerkleRoot`, `ComputeFullMerkleRoot`, `SwapWords4`, `DisplayToStratumPrevHash`, `StratumPrevHashToInternal`, `HexBEToLE`, `SplitCoinbase`, `BuildJobFromTemplate`, `ReconstructHeader`, `VerifyMerkleRoot` (template.go) | `tmpl`, `job`, `sub`. `NewTemplate` is getblocktemplate, `BuildJob` GenerateJob's build, `Submit(en2, version)` a miner's submission through ReconstructHeader. The two recursive operators (`Branches`, `ComputeFullMerkleRoot`) are the code's loops. |
| `ShareChain` | `ValidateShare` (validation.go:55-150); the engine's append, locator and shares_after (spec 4.8) | Operators over a store `[store, tip]`. `Parent` is each share's prev_share_hash; every share weighs the same, so cumulative work is the ancestry length. |
| `JobSnapshot` | `GenerateJob`'s reads of `payoutsFn` and `prevShareHashFn` (types.go:248-283), composed with the orchestrator's appends to the chain (`ShareChain`) | `chain`, `gen` (the poller between the two reads, with the payouts it read), `job`. `ReadPayouts` and `ReadPrevShare` are the two calls; `AppendFromOrchestrator(s)` can fall between them. Payouts stand as the PPLNS window they are computed from. |
| `Discovery` | `NewDiscovery`, `HandlePeerFound`, `advertiseLoop`, `discoverLoop` (discovery.go) | `start` (NewDiscovery's progress: mDNS, DHT, bootnode loop, running or failed), `mdnsOn`, `boot` (bootnodes left to dial), `conn`, `rt` (the DHT routing table), `adv` (our provider record), `disc` (discoverLoop's query and the peers its channel still holds). One action per startup step and per loop turn. libp2p is the environment: `Dial` succeeds on a reachable peer, identify puts a connected peer in the routing table (`AddToRoutingTable`), and peers come and go (`PeerUp`, `PeerDown`) and may dial in when they can find us (`Inbound`). |
| `P2P` | `readLoop`, `getPeerLimiter`, `DecodeShareMsg` (pubsub.go, messages.go), `Connected` (part_001), `RequestLocator`, `handleStream` (messages.go), and the orchestrator's share processing and sync rounds (spec) | See below. |

In `WorkGenerator`:
- The state is:
  - the Bitcoin tip;
  - `template` (its prevhash, and whether `BuildJobFromTemplate` accepts it);
  - the poller's `failures` and `sinceFailure`;
  - `sinceJob`, which stands for `time.Since(lastJobTime)`;
  - `jobCounter`;
  - `jobs`, the cache;
  - `jobCh`;
  - `broadcast`, the job the miners hold;
  - `evicted`, a history variable: the sequence number evicted last.
- Time is counted in ticks of PollInterval (5 s). JobRefreshInterval is 6
  ticks and the 60 s backoff cap is 12 ticks.
- Each poll iteration is one action:
  - `PollSkip` is a tick inside the backoff window;
  - `PollFails` is an RPC error;
  - `PollFetch` is a successful fetch. It runs the whole of `fetchTemplate`:
    template swap, newBlock/needsRefresh, `GenerateJob` with its counter
    increment, build failure and `storeJob` eviction, then the non-blocking
    send.
- `InitialFetch` and `InitialFetchFails` are the fetch before the first tick.
- `NewBitcoinBlock` is the environment.
- `BroadcastJob` is the orchestrator, modelled from the spec: it takes the
  channel head and broadcasts it if its sequence number is newer.

In `P2P`:
- The state is the local chain (`store`, `tip`), the shares gossip has
  delivered (`gossiped`), the limiter map (peer to tokens), the two channels
  `inQ` and `connQ`, and the orchestrator's `sync` round (idle, request sent,
  response served).
- `ReadLoop(p, m)` is one iteration of readLoop: limiter lookup or creation
  with eviction from a full map, a token or a drop, decode (`Garbage` fails),
  and a non-blocking push. `Refill` is time passing for one bucket.
  `PeerConnect` is the notifier's non-blocking send.
- `ProcessShare` appends the queue head while no round runs. `StartSync`
  sends the locator of the current tip. `ServeSync` is the peer's
  handleStream: clamp max_count and locators, answer shares_after over the
  peer's chain, and the write may be lost. `ApplySync` appends the chunk
  oldest first and, while `more` is set, asks again with a fresh locator.
- Remote peers are honest and static: `PeerTip` fixes their chains.
- `Size` gives each share's encoded size, its coinbase. `DecodeShareMsg`
  rejects a coinbase over 100 KB. The client reads at most `MaxSyncMsgSize`
  of a response (`io.LimitReader`), and a cut response fails to decode
  (`Decodes`). `WriteOutcomes` says whether the server's write may be lost.

In `Template`, job and header fields are kept as bytes or hex nibbles, so the
byte reversals, the word swap, hex encoding and decoding and the string
concatenation of extranonces are modelled by what they do.

Abstractions, all of data, none of control:
- Targets in `Difficulty` use Base 8 (3-bit digits). The compact encoding then
  keeps 8 significant bits and a sign bit. A quarter of a target is not a digit
  shift, exactly as with bytes, so truncation behaves as in the code while
  staying inside TLC's integers. `MC_Difficulty` checks the encoding itself
  at Base 256 through `Wire == INSTANCE Compact WITH Base <- 256`: each
  initial state of the `difficulty` run holds one wire target (`wire`), and
  `StartChain` then hands over to the chain. Every target in the Base 8 chain
  has three digits or more, where the code's encoder and Bitcoin's agree.
- `MC_Coinbase` checks `Pplns` and `Template` in one run. They share no
  state, so the initial state picks one of them (`part`), and the other
  stays at its initial state.
- PPLNS addresses are integers, so `sort.Strings` is numeric order.
- In `WorkGenerator` a job is (seq, prevhash, clean). Coinbase bytes and
  merkle branches are the business of `Template`.
- `DoubleSHA256` is an injective bracketing of its input with two markers
  that are not bytes, so equal roots mean equal trees and a byte-order slip
  changes the root. `BuildCoinbase` (not under `src/`) is a fixed prefix, the
  zeroed extranonce region and a suffix.
- The self-contained checks of `ValidateShare` (version, sizes, address,
  PoW, target, coinbase commitment) are one set, `Invalid`; the parent check
  is explicit.

## 3. Runs

| Run | Expect | What it shows |
|---|---|---|
| `difficulty` | pass (118k states) | • `TypeOK`: every target stays in 1..MaxShareTarget, through the 4x clamp of slow windows, the single-share path and the normalisation;<br>• `NormalisationIsTruncation`: over realistic targets (three bytes or more, around each byte boundary), at Base 256, the round trip truncates \|t\| to exactly the greatest representable value (sign kept, never rounding up);<br>• `WireRoundTrip`: re-encoding a normalised target gives the same bits, so the validator's bits comparison (validation.go:114-116) agrees with normalisation;<br>• `TargetsCanonical`, `RetargetFollowsTiming`: on every chain with gaps −1, 1, 3 and 9 (backwards, fast, slow, more than 4x slow), every target stays a fixed point of the compact round trip, and a uniform window of fast (slow) shares never makes the next share easier (harder). |
| `difficulty_clamp` | violation | Spec §8 says outputs stay within [newest/4, newest·4], and difficulty.go:69-71 relies on it. Normalising after the clamp truncates below newest/4. |
| `coinbase` | pass (100k states) | `MC_Coinbase`. Over every window of up to 4 shares of 3 miners with weights 1/3/4, rewards 10/23/50 and finder absent, in the window or outside it:<br>• `TypeOK`: every payout is a positive amount to a window miner or the finder;<br>• `Conservation`: the outputs sum to the reward;<br>• `NoDustOutputs`: only the finder may receive dust, unless every payout is dust;<br>• `FairShare`: no miner gets less than its difficulty-weighted share, and a miner left out had a share below the dust threshold.<br>Over templates of 0 to 6 transactions at two heights, extranonce2 values and valid and short versions:<br>• `SubmittedRootVerifies`: every header ReconstructHeader builds passes VerifyMerkleRoot (the branch path, the odd-level duplication and both txid reversals agree with the full tree);<br>• `PrevHashInternalOrder`: the word-swapped Stratum prevhash swapped back, and the header's prev, are the display hash reversed;<br>• `CoinbaseFillsExtranonce`: the rebuilt coinbase is the job's coinbase with exactly the extranonce region replaced. |
| `pplns_equal` | violation | Spec §8 says equal-weight miners receive within ±1 satoshi. With no finder, the fee and the remainder go to the lowest address. |
| `workgen_clean` | violation | Only successful builds. A clean job dropped on a full channel is followed by a refresh for the new block with clean_jobs=false. |
| `workgen_evict` | violation | A queued job is evicted from the cache before the miners receive it, so their submissions will not find it. |
| `workgen_snapshot` | violation | Spec §2 calls a job a snapshot of the payouts and the tip hash. An append between GenerateJob's two reads gives a job that commits to one share and pays the window of another. |
| `p2p` | pass (17k states) | With out-of-order gossip from two peers, an invalid share, garbage, rate limiting with limiter eviction, full queues, lost sync responses, and rounds of several chunks from an empty chain and from a chain the peer extends:<br>• `SyncCompletesPeerChain`: a round ending on more = false leaves the peer's whole chain stored, across the max_count clamp;<br>• `SyncRoundWithPeerAheadEnds`: a round with a peer whose main chain holds the local tip always ends, because each chunk moves the tip and so the locator. |
| `p2p_fork` | violation | Two honest peers on branches that each run past a batch from the fork point. The node holds one branch and syncs with the other. Each chunk is no heavier than its tip, so the tip and the locator never move, and the server sends the same chunk with more = true forever. |
| `p2p_sync` | violation | Every response delivered, shares 2 and 3 at the 100 KB coinbase limit: a round ends without the peer's chain. A full batch of large shares exceeds the client's read limit, is cut, fails to decode, and the retry asks for the same chunk. |
| `discovery_isolation` | violation | The bootnode is down for its one startup dial and comes up one step later. The DHT query finds an empty routing table and closes at once, and the LAN peer goes away. From then on nothing dials again, and the node has no peer although the bootnode is reachable. |
| `workgen_live` | pass (332k states) | With RPC failures, backoff, failing builds, three blocks, unbounded sequence numbers and a consumer of any speed:<br>• `CacheKeepsNewest`: the cache always holds the newest jobs;<br>• `PipelineOrdered`: the jobs in flight to the miners have strictly increasing sequence numbers;<br>• `ImplementsJobFeed`: the work generator refines `JobFeed`. The miners' block never runs ahead of or back from the Bitcoin tip, and every new block reaches them, through dropped clean jobs, failed builds, RPC failures and backoff. |

Every property of a passing run has a mutant in `PROJECT.json`: a variant of
the code's definition that TLC shows breaks it. Examples are an encoder that
forgets the sign-bit shift, expected time counting shares instead of gaps, a
dropped remainder, dust folded into a deleted address, a scan that evicts the
newest job, a counter read instead of incremented, txids kept in display order, a word
swap that skips the last word, a coinbase split one byte early, a missing
`more` set one share late, a follow-up request with the old locator, a
retarget without the MaxShareTarget cap, and lastFailureTime reset on a
skipped tick.

Bounds, and why they are enough:
- **Difficulty.**
  - A window of 3 gives a trimmed window of 1, 2 and 3 shares.
  - The target range spans three exponents, from the max target down to the
    floor of 256, below which integer division by 4 loses bits that a real
    target (≥ 2^200) never loses.
  - The wire targets are every value from 65536 to 65836, the values around
    each byte boundary from three bytes up to 2^31−1, two values with low
    bits set, and four negatives. These are the realistic range of spec §8.
    Below three bytes the code's encoder does not round-trip: 300 normalises
    to 1, and 1 normalises to 0. No share target is that small, because
    share targets lie between 0x1d00ffff and 0x207fffff in nBits.
- **PPLNS.** 3 miners and 4 shares give equal and unequal weights, a miner
  with two shares, and dust alongside non-dust.
- **Work generator.**
  - A channel of 2 and a cache of 3 keep the code's ordering: the cache holds
    more jobs than the channel.
  - 6 sequence numbers and 3 blocks let a clean job be dropped and then
    refreshed.
  - Timing values are the code's own.
  - In `workgen_live` the sequence numbers are unbounded: `SeqView` (in
    `MC_WorkGenerator`) identifies states that differ by an order-preserving
    renumbering of sequence numbers, since jobs are only compared and looked
    up by them. `MaxJobs = 100` is above the search depth (59), so the
    counter bound never cuts a behaviour.
- **Template.** 0 to 6 transactions give tree levels of every parity (7, 4,
  2, 1 hashes). Distinct bytes in every txid make any byte-order slip
  visible.
- **P2P.** Six shares make a chain of three, a fork of three off genesis
  and an invalid share. Gossip carries shares 1, 2 and the invalid one, so
  share 3 and the fork arrive only by sync. One queue slot, one connect slot,
  a limiter map of one and a burst of one make every drop and eviction
  happen. A batch of 1 against a request of 3 makes the max_count clamp and
  `more` matter. Each branch then runs past a batch from the fork point with
  a first chunk no heavier than the other branch, which is the shape of the
  `p2p_fork` livelock. `p2p_sync` uses a batch of 2, with the client's read
  limit scaled to it: 150 KB for 2 shares, as 1 MiB is for 100. So, as in
  the code, one share at the 100 KB coinbase limit fits in a response and a
  full batch of them does not. `p2p_sync` also removes lost writes.
- **Discovery.** One bootnode on another network and one LAN peer, with a
  malformed bootnode entry before the good one, and mDNS and the DHT each
  able to fail at startup. Any reachability at start, and any change of it,
  is explored.
- **JobSnapshot.** A chain of three and a fork, with a window of two, let an
  append between the reads add a share, slide the window, or switch branch.

Fairness:
- `p2p` and `p2p_fork`: weak fairness of `ServeSync` and `ApplySync` only. The peer's
  stream handler answers, or the 30 s deadline ends the exchange, and the
  orchestrator is blocked in the round until then. Gossip, connects, time and
  the network are not forced.
- `workgen_live`:
  - weak fairness of the poller (its goroutine runs and the ticker fires);
  - strong fairness of a successful fetch of a template that builds, since
    the Bitcoin node eventually answers and each tick outside the backoff
    window asks again;
  - weak fairness of the orchestrator's receive, a loop that always returns
    to the channel.
  New blocks and RPC failures are not forced.
- `discovery_isolation`: weak fairness of every NewDiscovery step, of both
  goroutines, of the mDNS service's periodic queries for a reachable LAN
  peer, and of identify adding a connected peer to the routing table. Peers
  coming up, going down and dialling in are not forced. The property only
  asks for a connection when a bootnode is reachable from some time on.

## 4. Findings

1. **The difficulty clamp is broken by normalisation** (part_003:122).
   Example: a target of 0x1fffff00 is clamped to 0x07ffffc0, which normalises
   to 0x07ffff00. The next retarget then trims the parent as "a different
   difficulty regime".
2. **MinShareTarget is dead** (part_003:15). The constant is declared and
   never read, so the retarget has no floor. This is read off the code; the
   run that showed it gave its place to `p2p_sync`.
3. **PPLNS without a finder** (part_004:157). Miners of equal weight differ by
   the finder fee plus the remainder.
4. **A lost clean job** (types.go:406). When the channel is full, a new block
   reaches the miners as a non-clean refresh. Miners keep submitting work on
   the old block. A failed build after the template swap (types.go:399) loses
   the clean flag in the same way.
5. **A queued job evicted** (types.go:308). While the consumer stalls, each
   poll caches another refresh job, because lastJobTime is not moved on a
   drop. Jobs still queued for the miners are evicted.
6. **A job that is not a snapshot** (types.go:257-258). payoutsFn and
   prevShareHashFn read the chain in two calls from the poller's goroutine
   while the orchestrator appends. The job commits to the new tip and pays
   the window of the old one, or of an abandoned branch after a reorg. The
   validator checks only the commitment and the miner's own output, so such
   shares are accepted.
7. **Sync stalls on large shares** (messages.go:292). The server bounds a
   response by share count (100) and not by size, each share may carry a
   100 KB coinbase, and the client reads 1 MiB. A run of eleven or more large
   but valid shares cannot be synced past: the response is cut, fails to
   decode, and the retry asks for the same chunk.
8. **A node can stay isolated** (discovery.go:67). Bootnodes are dialled
   once and a failure is only logged. The one DHT query (discovery.go:112)
   runs on whatever routing table the dials left, and when it closes
   discoverLoop returns. advertiseLoop cannot publish without routing peers.
   A bootnode that is down for a moment at startup leaves the node with no
   peer for good, unless a LAN peer or a stray inbound dial rescues it.
   This is against spec §7, which says transient peer errors are retried and
   never fatal.
9. **Sync between two forks never ends** (messages.go:302). The next request
   is built from the current tip's locator, and the server answers from the
   fork point on its own chain. When the node's tip is on another branch and
   the first batch past the fork point is no heavier, the chunk is stored but
   the tip does not move. The locator stays the same, and the same chunk
   comes back with more = true forever. At real scale this needs two honest
   partitions that each grew more than 100 shares past their common
   ancestor. The orchestrator, the chain's single writer, is then held in the
   round. The follow-up loop is not under `src/` and is modelled from spec
   4.10/4.11, so this is a gap in the protocol as specified.

Hazards recorded without a run (every run slot is taken):
- The sync client's read has no deadline of its own (messages.go:292). Only
  the server sets the 30 s deadline.
- The same loop as finding 9 with a chunk whose first share fails
  validation (a dishonest peer, or a share timestamped beyond the local
  clock). The model's peers are honest.
- advertiseLoop calls Advertise again at once whether it failed or not. The
  comment that it "blocks until TTL expires" does not hold.

## 5. What is not modelled yet, and the plan

Not modelled yet:
- **The sharechain engine beyond the P2P layer**: reorgs as events, the
  validator's timestamp bounds (MaxTimeFuture, MaxTimePast) and the bolt
  store. The engine is not under `src/`.
- **Real payouts in `JobSnapshot`**: the window stands for the payouts.
  Composing `Pplns` would only show that two windows can give equal
  payouts by chance.
- **ReconstructBlock** and the block submission path, and the Stratum
  server's extranonce2 width check (not under `src/`).
- **Peer-connected drops** (part_001:152): with the event dropped no round
  starts. `Discovery` shows that a next connect is rare: libp2p fires
  Connected only for new connections, and bootnodes and the DHT are used
  once. Composing `P2P` with `Discovery` would show it, but that needs a
  run of its own.
- **Stratum codec** (protocol.go): line framing with a 16 KiB cap and JSON
  decoding. The session server that uses it is not under `src/`, so no
  state of it can be modelled faithfully.

Left out for good:
- CBOR and zstd codecs, the identity key file and metrics. These are I/O and serialisation through libraries,
  with no state a property depends on.
- VarInt may be added as a pure-algorithm check at the width boundaries.
