--------------------------- MODULE MC_WorkGenerator ---------------------------
(***************************************************************************)
(* Three Bitcoin blocks; templates that build or fail to build; a job     *)
(* channel of 2 and a cache of 3 (scaled from 8 and 20: the cache holds    *)
(* more jobs than the channel, as in the code, so only a stalled consumer  *)
(* lets a queued job be evicted); the code's refresh interval of 6 ticks   *)
(* and backoff cap of 12 ticks.                                            *)
(***************************************************************************)
EXTENDS WorkGenerator

\* Jobs are only ever compared by sequence number and looked up by it, so
\* two states that agree on everything but a renumbering of the sequence
\* numbers that keeps their order have the same futures.  The liveness run
\* identifies them, which bounds jobCounter, refreshed every few ticks
\* forever, without cutting any behaviour short.
Live == {0, evicted} \cup Seqs(jobs) \cup {broadcast.seq} \cup {jobCh[i].seq : i \in DOMAIN jobCh}
Rank(n) == Cardinality({k \in Live : k < n})
Renumbered(j) == [j EXCEPT !.seq = Rank(j.seq)]
SeqView ==
    <<btcTip, template, started, failures, sinceFailure, sinceJob,
      {Renumbered(j) : j \in jobs}, [i \in DOMAIN jobCh |-> Renumbered(jobCh[i])],
      Renumbered(broadcast), Rank(evicted)>>
=============================================================================
