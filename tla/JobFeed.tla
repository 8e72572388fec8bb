------------------------------ MODULE JobFeed ------------------------------
(***************************************************************************)
(* What the work generator and the orchestrator promise the Stratum       *)
(* miners (spec 4.9, 4.11 and 5): the Bitcoin block the miners work on is  *)
(* never ahead of the network's best block, never goes back to an older    *)
(* one, and eventually catches up with the newest block.  Blocks are       *)
(* numbered by height; 0 is "no work yet".  Refresh jobs for the same      *)
(* block are stuttering steps here.                                        *)
(***************************************************************************)
EXTENDS Naturals

CONSTANT MaxBlocks   \* bound: heights the Bitcoin node reaches

VARIABLES
    tip,    \* the Bitcoin network's best block
    work    \* the block the miners' current job builds on

vars == <<tip, work>>

Init == tip = 1 /\ work = 0

\* A block is found.
NewBlock == tip < MaxBlocks /\ tip' = tip + 1 /\ work' = work

\* The miners receive a job on a newer block, at most the best one.
Deliver == \E b \in work + 1..tip : work' = b /\ tip' = tip

Next == NewBlock \/ Deliver

\* While the miners lag behind, a job on a newer block keeps being
\* offered until one arrives.
Spec == Init /\ [][Next]_vars /\ WF_vars(Deliver)
=============================================================================
