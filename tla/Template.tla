------------------------------ MODULE Template ------------------------------
(***************************************************************************)
(* Stratum job construction and header reconstruction (internal/work/      *)
(* template.go, with extractTxHashes of internal/bitcoin/types.go).        *)
(*                                                                         *)
(* A byte string is a sequence of integers in 0..255 and a hex string a    *)
(* sequence of nibbles, so that hex encoding, decoding and the string      *)
(* concatenation of ReconstructHeader are modelled by what they do.        *)
(* DoubleSHA256 is an injective function: the hashed bytes between two     *)
(* markers that are not bytes.  Two digests or txids concatenated can be   *)
(* split again, as with the fixed 32-byte values of the code, so equal     *)
(* roots mean equal trees.  Branch lists are kept as bytes: the code       *)
(* encodes each branch to hex and decodes it again unchanged.              *)
(***************************************************************************)
EXTENDS Integers, SequencesExt

CONSTANTS
    HashLen,         \* bytes of a block hash or txid (32)
    Templates,       \* templates getblocktemplate may return
    ExtranonceSize,  \* bytes reserved for extranonce1 ++ extranonce2
    Extranonce1,     \* hex extranonce1 the server assigned to the session
    Extranonce2s,    \* hex extranonce2 values a miner may submit
    Versions,        \* hex (rolled) versions a miner may submit
    NTime, Nonce     \* hex ntime and nonce of a submission

ASSUME HashLen % 4 = 0 /\ ExtranonceSize \in Nat

Open == -1
Close == -2
DoubleSHA256(data) == <<Open>> \o data \o <<Close>>

\* hex.EncodeToString and hex.DecodeString (odd length is an error).
Hex(b) == FlattenSeq([i \in 1..Len(b) |-> <<b[i] \div 16, b[i] % 16>>])
HexOK(s) == Len(s) % 2 = 0
Unhex(s) == [i \in 1..Len(s) \div 2 |-> 16 * s[2 * i - 1] + s[2 * i]]

Ok(v) == [ok |-> TRUE, v |-> v]
Fail == [ok |-> FALSE, v |-> <<>>]

\* Variant: the txids are kept in display order.
ExtractTxHashesDisplay(tmpl) == tmpl.txids

\* extractTxHashes (types.go:414-424): display order to internal order.
ExtractTxHashes(tmpl) == [i \in 1..Len(tmpl.txids) |-> Hex(Reverse(Unhex(tmpl.txids[i])))]

\* One level of ComputeMerkleBranches: pair up hashes[1:], the last one with
\* itself when their number is odd.
PairUp(r) ==
    [i \in 1..(Len(r) + 1) \div 2 |->
        DoubleSHA256(r[2 * i - 1] \o (IF 2 * i <= Len(r) THEN r[2 * i] ELSE r[2 * i - 1]))]

\* ComputeMerkleBranches (template.go:23-67) on decoded hashes: take
\* hashes[0] as the next branch and pair the rest, until one is left.
RECURSIVE Branches(_)
Branches(h) ==
    IF h = <<>> THEN <<>>
    ELSE <<h[1]>> \o (IF Len(h) = 1 THEN <<>> ELSE Branches(PairUp(Tail(h))))
ComputeMerkleBranches(txHashes) ==
    IF \E i \in 1..Len(txHashes) : ~HexOK(txHashes[i]) THEN Fail
    ELSE Ok(Branches([i \in 1..Len(txHashes) |-> Unhex(txHashes[i])]))

\* ComputeMerkleRoot (template.go:71-86): fold the branches into the
\* coinbase hash.
ComputeMerkleRoot(cbHash, branches) ==
    FoldLeft(LAMBDA cur, b : DoubleSHA256(cur \o b), cbHash, branches)

\* ComputeFullMerkleRoot (template.go:253-282): the bottom-up tree, the
\* last hash of an odd level duplicated; nil (<<>>) for no txids.
Level(h) ==
    LET p == IF Len(h) % 2 # 0 THEN Append(h, h[Len(h)]) ELSE h
    IN  [i \in 1..Len(p) \div 2 |-> DoubleSHA256(p[2 * i - 1] \o p[2 * i])]
RECURSIVE ComputeFullMerkleRoot(_)
ComputeFullMerkleRoot(txids) ==
    IF Len(txids) = 0 THEN <<>>
    ELSE IF Len(txids) = 1 THEN txids[1]
    ELSE ComputeFullMerkleRoot(Level(txids))

\* Variant: words are swapped only while a whole word follows it.
SwapWords4Short(b) ==
    [i \in 1..Len(b) |-> LET w == (i - 1) \div 4 IN
        IF 4 * w + 8 <= Len(b) THEN b[4 * w + 4 - ((i - 1) % 4)] ELSE b[i]]

\* swapWords4 (template.go:375-380): byte-swap every whole 4-byte word.
SwapWords4(b) ==
    [i \in 1..Len(b) |-> LET w == (i - 1) \div 4 IN
        IF 4 * w + 4 <= Len(b) THEN b[4 * w + 4 - ((i - 1) % 4)] ELSE b[i]]

\* displayToStratumPrevHash (template.go:344-357): reverse, swap words.
DisplayToStratumPrevHash(s) ==
    IF ~HexOK(s) \/ Len(Unhex(s)) # HashLen THEN Fail
    ELSE Ok(Hex(SwapWords4(Reverse(Unhex(s)))))

\* stratumPrevHashToInternal (template.go:361-372): swap the words back.
StratumPrevHashToInternal(s) ==
    IF ~HexOK(s) \/ Len(Unhex(s)) # HashLen THEN Fail
    ELSE Ok(SwapWords4(Unhex(s)))

\* hexBEToLE (template.go:329-338).
HexBEToLE(s, n) ==
    IF ~HexOK(s) \/ Len(Unhex(s)) # n THEN Fail ELSE Ok(Reverse(Unhex(s)))

\* CoinbaseBuilder.BuildCoinbase (not under src/, spec 4.3): height and
\* commitment, the zeroed extranonce region, then the outputs.
BuildCoinbase(height) ==
    [tx |-> <<3, height>> \o [i \in 1..ExtranonceSize |-> 0] \o <<171>>,
     offset |-> 2]

\* Variant: coinbase2 starts at the last extranonce byte.
SplitCoinbaseOverlap(tx, off, size) ==
    <<Hex(SubSeq(tx, 1, off)), Hex(SubSeq(tx, off + size, Len(tx)))>>

\* SplitCoinbase (template.go:15-19).
SplitCoinbase(tx, off, size) ==
    <<Hex(SubSeq(tx, 1, off)), Hex(SubSeq(tx, off + size + 1, Len(tx)))>>

\* BuildJobFromTemplate (template.go:89-139) on the data GenerateJob
\* derives from the template (types.go:261-271).
BuildJobFromTemplate(tmpl) ==
    LET cb       == BuildCoinbase(tmpl.height)
        split    == SplitCoinbase(cb.tx, cb.offset, ExtranonceSize)
        branches == ComputeMerkleBranches(ExtractTxHashes(tmpl))
        prev     == DisplayToStratumPrevHash(tmpl.prev)
    IN  IF ~branches.ok \/ ~prev.ok THEN Fail
        ELSE Ok([prev |-> prev.v, coinbase1 |-> split[1], coinbase2 |-> split[2],
                 coinbaseTx |-> cb.tx, offset |-> cb.offset,
                 branches |-> branches.v, nbits |-> tmpl.bits, template |-> tmpl])

\* ReconstructHeader (template.go:166-219): the header as its six fields,
\* each at its fixed offset in the 80 bytes, and the coinbase bytes.
ReconstructHeader(job, version, en1, en2, ntime, nonce) ==
    LET cbHex == job.coinbase1 \o en1 \o en2 \o job.coinbase2
        cb    == Unhex(cbHex)
        ver   == HexBEToLE(version, 4)
        prev  == StratumPrevHashToInternal(job.prev)
        t     == HexBEToLE(ntime, 4)
        bits  == HexBEToLE(job.nbits, 4)
        n     == HexBEToLE(nonce, 4)
    IN  IF ~HexOK(cbHex) \/ ~ver.ok \/ ~prev.ok \/ ~t.ok \/ ~bits.ok \/ ~n.ok
        THEN Fail
        ELSE Ok([header |-> [version |-> ver.v, prev |-> prev.v,
                             merkle |-> ComputeMerkleRoot(DoubleSHA256(cb), job.branches),
                             time |-> t.v, bits |-> bits.v, nonce |-> n.v],
                 coinbase |-> cb])

\* VerifyMerkleRoot (template.go:288-326): the full tree over the coinbase
\* txid and the template's txids in internal order.
VerifyMerkleRoot(header, coinbase, tmpl) ==
    /\ \A i \in 1..Len(tmpl.txids) : HexOK(tmpl.txids[i])
    /\ header.merkle = ComputeFullMerkleRoot(<<DoubleSHA256(coinbase)>> \o
            [i \in 1..Len(tmpl.txids) |-> Reverse(Unhex(tmpl.txids[i]))])
-----------------------------------------------------------------------------
NoTemplate == [height |-> 0]
NoJob == [template |-> NoTemplate]

VARIABLES
    tmpl,   \* g.currentTemplate
    job,    \* the newest job handed to the Stratum server
    sub     \* the last submission: its job, extranonce2 and the result of
            \* ReconstructHeader

vars == <<tmpl, job, sub>>

Init ==
    /\ tmpl = NoTemplate
    /\ job = NoJob
    /\ sub = [job |-> NoJob, en2 |-> <<>>, res |-> Fail]

\* getblocktemplate returns a new template.
NewTemplate(t) ==
    /\ tmpl' = t
    /\ UNCHANGED <<job, sub>>

\* GenerateJob builds a job from the current template; a failed build
\* leaves the previous job in place.
BuildJob ==
    /\ tmpl # NoTemplate
    /\ LET j == BuildJobFromTemplate(tmpl) IN job' = IF j.ok THEN j.v ELSE job
    /\ UNCHANGED <<tmpl, sub>>

\* A miner submits work on the newest job.
Submit(en2, version) ==
    /\ job # NoJob
    /\ sub' = [job |-> job, en2 |-> en2,
               res |-> ReconstructHeader(job, version, Extranonce1, en2, NTime, Nonce)]
    /\ UNCHANGED <<tmpl, job>>

Next ==
    \/ \E t \in Templates : NewTemplate(t)
    \/ BuildJob
    \/ \E en2 \in Extranonce2s, v \in Versions : Submit(en2, v)

Spec == Init /\ [][Next]_vars
-----------------------------------------------------------------------------
\* Every header ReconstructHeader builds from a job passes the pre-submit
\* check VerifyMerkleRoot against the job's template: the coinbase split
\* and rejoined, the branch path and the txid byte order of
\* extractTxHashes agree with the full tree (spec 4.9 and 9).
SubmittedRootVerifies ==
    sub.res.ok =>
        VerifyMerkleRoot(sub.res.v.header, sub.res.v.coinbase, sub.job.template)

\* The prevhash reaches the header in internal order (the display bytes
\* reversed), and a miner who swaps the words of the Stratum prevhash back,
\* as spec 6 says miners do, reads the same internal order.
PrevHashInternalOrder ==
    LET internal == Reverse(Unhex(job.template.prev))
        miner    == [i \in 1..HashLen |->
                        Unhex(job.prev)[4 * ((i - 1) \div 4) + 4 - ((i - 1) % 4)]]
    IN  /\ job # NoJob => miner = internal
        /\ sub.res.ok => sub.res.v.header.prev = Reverse(Unhex(sub.job.template.prev))

\* The coinbase a miner completes is the job's coinbase with exactly the
\* extranonce region replaced by extranonce1 ++ extranonce2.
CoinbaseFillsExtranonce ==
    LET j == sub.job IN
    sub.res.ok =>
        sub.res.v.coinbase =
            SubSeq(j.coinbaseTx, 1, j.offset) \o Unhex(Extranonce1 \o sub.en2) \o
            SubSeq(j.coinbaseTx, j.offset + ExtranonceSize + 1, Len(j.coinbaseTx))
=============================================================================
