----------------------------- MODULE JobSnapshot -----------------------------
(***************************************************************************)
(* GenerateJob's two reads of the sharechain (types.go:248-283), composed  *)
(* with the orchestrator, which appends shares to the same chain.          *)
(*                                                                         *)
(* The poller goroutine calls payoutsFn, the PPLNS payouts of the window   *)
(* ending at the tip, and then prevShareHashFn, the tip hash the coinbase  *)
(* commits to.  Each call reads the chain on its own, so an append by the  *)
(* orchestrator's goroutine can fall between them.  Payouts are a          *)
(* function of the window, so a window stands for the payouts computed     *)
(* from it.  The template read before them and the build after them do    *)
(* not touch the chain and are left to WorkGenerator and Template.         *)
(***************************************************************************)
EXTENDS ShareChain

CONSTANT WindowSize   \* PPLNS window length N

VARIABLES
    chain,   \* the sharechain: [store, tip]
    gen,     \* the poller inside GenerateJob: [pc] and the payouts it read
    job      \* the last job built: its payouts and its share commitment

vars == <<chain, gen, job>>

\* The PPLNS window (spec 4.6): the newest N shares walking back from t.
Window(t) == SubSeq(Ancestry(t), 1, MinOf(WindowSize, CumWork(t)))

Idle == [pc |-> "idle"]
NoJob == [payouts |-> <<>>, prev |-> Zero, built |-> FALSE]

Init ==
    /\ chain = [store |-> {}, tip |-> Zero]
    /\ gen = Idle
    /\ job = NoJob

\* The orchestrator appends a share (from a miner, gossip or sync).
AppendFromOrchestrator(s) ==
    /\ chain' = AppendShare(chain, s)
    /\ UNCHANGED <<gen, job>>

\* payouts := g.payoutsFn() (types.go:257), after the template was read.
ReadPayouts ==
    /\ gen = Idle
    /\ gen' = [pc |-> "payouts", payouts |-> Window(chain.tip)]
    /\ UNCHANGED <<chain, job>>

\* prevShareHash := g.prevShareHashFn() (types.go:258); the job is built
\* from both (types.go:260-283).
ReadPrevShare ==
    /\ gen.pc = "payouts"
    /\ job' = [payouts |-> gen.payouts, prev |-> chain.tip, built |-> TRUE]
    /\ gen' = Idle
    /\ UNCHANGED chain

Next ==
    \/ \E s \in Shares : AppendFromOrchestrator(s)
    \/ ReadPayouts
    \/ ReadPrevShare

Spec == Init /\ [][Next]_vars
-----------------------------------------------------------------------------
\* Spec 2 and 4.9: a job carries a snapshot of the current PPLNS payouts
\* and tip-share hash, so the coinbase pays the window that ends at the
\* share it commits to.
JobPaysCommittedWindow ==
    job.built => job.payouts = Window(job.prev)
=============================================================================
