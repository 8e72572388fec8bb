---------------------------- MODULE WorkGenerator ----------------------------
(***************************************************************************)
(* The work generator (package work, src/internal/bitcoin/types.go lines   *)
(* 157-423) and the consumer of its job channel.                           *)
(*                                                                         *)
(* The poller goroutine (pollLoop) runs one fetchTemplate per tick of a    *)
(* PollInterval ticker, with exponential backoff after RPC failures.  A    *)
(* fetch swaps the current template, and on a new previous block hash (a   *)
(* clean job) or when no job has been sent for JobRefreshInterval it       *)
(* builds a job (GenerateJob, which stores it in the bounded job cache)    *)
(* and offers it to the buffered job channel without blocking.  The        *)
(* orchestrator's event loop (not under src/, modelled from spec 4.11 and  *)
(* 5) takes jobs from the channel and broadcasts the newest one to the     *)
(* Stratum miners.  The Bitcoin node's best block advances on its own.     *)
(*                                                                         *)
(* Time is counted in PollInterval ticks: sinceJob stands for              *)
(* time.Since(lastJobTime) and sinceFailure for time.Since(lastFailure-    *)
(* Time), both saturating where the code stops telling values apart.       *)
(* A template is its previous block hash (a block height) and whether      *)
(* BuildJobFromTemplate accepts it; a job is its sequence number, the      *)
(* previous block hash it mines on and its clean_jobs flag.                *)
(***************************************************************************)
EXTENDS Integers, Sequences, FiniteSets

CONSTANTS
    MaxBlocks,          \* bound: heights the Bitcoin node reaches
    TemplateOutcomes,   \* whether BuildJobFromTemplate can succeed / fail on a template
    ChanCapacity,       \* make(chan *JobData, 8)
    MaxStoredJobs,      \* maxStoredJobs = 20
    RefreshTicks,       \* JobRefreshInterval / PollInterval = 30s / 5s
    BackoffCapTicks,    \* 60s / PollInterval
    MaxJobs             \* bound: sequence numbers handed out by jobCounter

ASSUME MaxBlocks \in Nat \ {0} /\ TemplateOutcomes \subseteq BOOLEAN
ASSUME ChanCapacity \in Nat \ {0} /\ MaxStoredJobs \in Nat \ {0}
ASSUME RefreshTicks \in Nat \ {0} /\ BackoffCapTicks \in Nat \ {0}
ASSUME MaxJobs \in Nat

MinOf(a, b) == IF a < b THEN a ELSE b

NoTemplate == [prev |-> 0, good |-> FALSE]       \* currentTemplate == nil
NoJob == [seq |-> 0, prev |-> 0, clean |-> FALSE] \* nothing broadcast yet

\* backoffDuration (types.go:358-370) in ticks: PollInterval doubled per
\* further failure, capped at 60s.
Backoff(failures) ==
    IF failures <= 0 THEN 1 ELSE MinOf(2^(failures - 1), BackoffCapTicks)

\* Beyond this many consecutive failures the backoff no longer grows, so
\* the counter saturates here without changing any decision of the loop.
BackoffSaturation ==
    CHOOSE f \in 1..BackoffCapTicks : 2^(f - 1) >= BackoffCapTicks

VARIABLES
    btcTip,        \* the Bitcoin node's best block (the prevhash of its templates)
    template,      \* g.currentTemplate
    started,       \* pollLoop has done its initial fetch
    failures,      \* consecutiveFailures
    sinceFailure,  \* time.Since(lastFailureTime), in ticks
    sinceJob,      \* time.Since(g.lastJobTime), in ticks
    jobCounter,    \* g.jobCounter
    jobs,          \* g.jobs: the job cache, as a set of jobs keyed by seq
    evicted,       \* history: the sequence number evicted last (0: none)
    jobCh,         \* g.jobCh, oldest first
    broadcast      \* the job the orchestrator last broadcast to the miners

vars == <<btcTip, template, started, failures, sinceFailure, sinceJob,
          jobCounter, jobs, evicted, jobCh, broadcast>>
genVars == <<template, jobCounter, jobs, evicted, jobCh, sinceJob>>

\* NewGenerator (types.go:210-228) and the zero values of pollLoop's locals;
\* lastJobTime is the zero time, so a refresh is due at once.
Init ==
    /\ btcTip = 1
    /\ template = NoTemplate
    /\ started = FALSE
    /\ failures = 0
    /\ sinceFailure = BackoffCapTicks
    /\ sinceJob = RefreshTicks
    /\ jobCounter = 0
    /\ jobs = {}
    /\ evicted = 0
    /\ jobCh = <<>>
    /\ broadcast = NoJob

Seqs(S) == { j.seq : j \in S }

\* GetJob (types.go:286-291): the cached job with this id, or nil.
GetJob(id) == IF id \in Seqs(jobs) THEN CHOOSE j \in jobs : j.seq = id ELSE NoJob

\* Variant: the cache is never trimmed.
StoreJobNoEvict(job) ==
    /\ jobs' = jobs \cup {job}
    /\ evicted' = evicted

\* Variant: the scan keeps the largest sequence number as "oldest".
StoreJobEvictNewest(job) ==
    LET all == jobs \cup {job}
        victim == CHOOSE j \in all : \A k \in all : j.seq >= k.seq
    IN  IF Cardinality(all) > MaxStoredJobs
        THEN /\ jobs' = all \ {victim}
             /\ evicted' = victim.seq
        ELSE /\ jobs' = all
             /\ evicted' = evicted

\* storeJob (types.go:293-310): insert, then while the cache holds more
\* than maxStoredJobs, delete the job with the smallest Seq.  One insert
\* overshoots by at most one, so the loop runs at most once.
StoreJob(job) ==
    LET all == jobs \cup {job}
        victim == CHOOSE j \in all : \A k \in all : j.seq <= k.seq
    IN  IF Cardinality(all) > MaxStoredJobs
        THEN /\ jobs' = all \ {victim}
             /\ evicted' = victim.seq
        ELSE /\ jobs' = all
             /\ evicted' = evicted

\* Variant: the sequence number is read (Load), not incremented (Add).
GenerateJobReusedSeq(tmpl, clean, sj) ==
    LET job == [seq |-> jobCounter, prev |-> tmpl.prev, clean |-> clean]
    IN  /\ jobCounter' = jobCounter
        /\ IF tmpl.good THEN StoreJob([seq |-> job.seq, prev |-> job.prev])
                        ELSE UNCHANGED <<jobs, evicted>>
        /\ IF tmpl.good /\ Len(jobCh) < ChanCapacity
           THEN jobCh' = Append(jobCh, job) /\ sinceJob' = 0
           ELSE jobCh' = jobCh /\ sinceJob' = sj

\* GenerateJob (types.go:248-284) followed by the send of fetchTemplate
\* (types.go:396-408): the counter is incremented before the build, a
\* failed build returns before storeJob and nothing is sent; a built job is
\* stored, then sent only if the channel has room, and only a send moves
\* lastJobTime (sj is time.Since(lastJobTime) at this tick).
GenerateJob(tmpl, clean, sj) ==
    LET job == [seq |-> jobCounter + 1, prev |-> tmpl.prev, clean |-> clean]
    IN  /\ jobCounter' = jobCounter + 1
        /\ IF tmpl.good THEN StoreJob([seq |-> job.seq, prev |-> job.prev])
                        ELSE UNCHANGED <<jobs, evicted>>
        /\ IF tmpl.good /\ Len(jobCh) < ChanCapacity
           THEN jobCh' = Append(jobCh, job) /\ sinceJob' = 0
           ELSE jobCh' = jobCh /\ sinceJob' = sj

\* fetchTemplate after a successful getblocktemplate returning tmpl
\* (types.go:372-412), with sj the ticks since lastJobTime.
FetchTemplate(tmpl, sj) ==
    LET newBlock == template = NoTemplate \/ tmpl.prev # template.prev
        needsRefresh == ~newBlock /\ sj >= RefreshTicks
    IN  /\ template' = tmpl
        /\ IF newBlock \/ needsRefresh
           THEN /\ jobCounter < MaxJobs
                /\ GenerateJob(tmpl, newBlock, sj)
           ELSE /\ sinceJob' = sj
                /\ UNCHANGED <<jobCounter, jobs, evicted, jobCh>>
-----------------------------------------------------------------------------
(* pollLoop (types.go:312-355).                                            *)

Templates == { [prev |-> btcTip, good |-> g] : g \in TemplateOutcomes }

\* The initial fetch, before the first tick.
InitialFetch(tmpl) ==
    /\ ~started
    /\ started' = TRUE
    /\ FetchTemplate(tmpl, sinceJob)
    /\ UNCHANGED <<btcTip, failures, sinceFailure, broadcast>>

InitialFetchFails ==
    /\ ~started
    /\ started' = TRUE
    /\ failures' = 1
    /\ sinceFailure' = 0
    /\ UNCHANGED <<btcTip, genVars, broadcast>>

\* A tick: time moves on one PollInterval.
SjTick == MinOf(sinceJob + 1, RefreshTicks)
SfTick == MinOf(sinceFailure + 1, BackoffCapTicks)
InBackoff == failures > 0 /\ SfTick < Backoff(failures)

\* Variant: lastFailureTime is also reset on a skipped tick.
PollSkipFrozen ==
    /\ started
    /\ InBackoff
    /\ sinceJob' = SjTick
    /\ sinceFailure' = 0
    /\ UNCHANGED <<btcTip, template, started, failures, jobCounter, jobs,
                   evicted, jobCh, broadcast>>

\* A tick inside the backoff window is skipped (types.go:335-337).
PollSkip ==
    /\ started
    /\ InBackoff
    /\ sinceJob' = SjTick
    /\ sinceFailure' = SfTick
    /\ UNCHANGED <<btcTip, template, started, failures, jobCounter, jobs,
                   evicted, jobCh, broadcast>>

\* getblocktemplate fails: the last template stays (types.go:339-346).
PollFails ==
    /\ started
    /\ ~InBackoff
    /\ failures' = MinOf(failures + 1, BackoffSaturation)
    /\ sinceFailure' = 0
    /\ sinceJob' = SjTick
    /\ UNCHANGED <<btcTip, template, started, jobCounter, jobs, evicted,
                   jobCh, broadcast>>

\* getblocktemplate succeeds: fetch, and the failure count is reset
\* (types.go:339, 347-352).
PollFetch(tmpl) ==
    /\ started
    /\ ~InBackoff
    /\ FetchTemplate(tmpl, SjTick)
    /\ failures' = 0
    /\ sinceFailure' = SfTick
    /\ UNCHANGED <<btcTip, started, broadcast>>
-----------------------------------------------------------------------------
(* The environment and the orchestrator.                                  *)

\* A block is found on the Bitcoin network.
NewBitcoinBlock ==
    /\ btcTip < MaxBlocks
    /\ btcTip' = btcTip + 1
    /\ UNCHANGED <<template, started, failures, sinceFailure, sinceJob,
                   jobCounter, jobs, evicted, jobCh, broadcast>>

\* The orchestrator's loop receives a job and broadcasts it, acting only on
\* a sequence number newer than the one it broadcast last (spec 4.11, 5).
BroadcastJob ==
    /\ jobCh # <<>>
    /\ jobCh' = Tail(jobCh)
    /\ broadcast' = IF Head(jobCh).seq > broadcast.seq THEN Head(jobCh) ELSE broadcast
    /\ UNCHANGED <<btcTip, template, started, failures, sinceFailure,
                   sinceJob, jobCounter, jobs, evicted>>

Next ==
    \/ \E t \in Templates : InitialFetch(t)
    \/ InitialFetchFails
    \/ PollSkip
    \/ PollFails
    \/ \E t \in Templates : PollFetch(t)
    \/ NewBitcoinBlock
    \/ BroadcastJob

Spec == Init /\ [][Next]_vars

\* The poller goroutine runs and the ticker keeps firing; the Bitcoin node
\* eventually answers getblocktemplate with a template that builds (it is
\* asked again at every tick outside the backoff window, so strong
\* fairness); the orchestrator's loop keeps draining the job channel.  New
\* blocks and RPC failures are never forced.
Fairness ==
    /\ WF_vars(\E t \in Templates : InitialFetch(t) \/ InitialFetchFails)
    /\ WF_vars(PollSkip \/ PollFails \/ \E t \in Templates : PollFetch(t))
    /\ SF_vars(PollFetch([prev |-> btcTip, good |-> TRUE]))
    /\ WF_vars(BroadcastJob)

LiveSpec == Spec /\ Fairness
-----------------------------------------------------------------------------
Job == [seq : 0..MaxJobs, prev : 0..MaxBlocks, clean : BOOLEAN]

TypeOK ==
    /\ btcTip \in 1..MaxBlocks
    /\ template \in [prev : 0..MaxBlocks, good : BOOLEAN]
    /\ failures \in 0..BackoffSaturation
    /\ sinceFailure \in 0..BackoffCapTicks /\ sinceJob \in 0..RefreshTicks
    /\ jobCounter \in 0..MaxJobs /\ evicted \in 0..jobCounter
    /\ jobs \subseteq [seq : 1..MaxJobs, prev : 1..MaxBlocks]
    /\ Cardinality(jobs) <= MaxStoredJobs
    /\ jobCh \in Seq(Job) /\ Len(jobCh) <= ChanCapacity
    /\ broadcast \in Job

\* The job cache holds the newest jobs ever stored: the job evicted last
\* is older than every cached one, and once anything was evicted
\* the cache is full (storeJob's smallest-Seq scan, types.go:299-309).
CacheKeepsNewest ==
    /\ \A j \in jobs : evicted < j.seq
    /\ evicted # 0 => Cardinality(jobs) = MaxStoredJobs

\* The jobs in flight to the miners, the one broadcast and those still in
\* the channel, have strictly increasing sequence numbers: a job ID is never
\* reused and a clean job is never overtaken by an older one (jobCounter.Add
\* at types.go:273 and the single poller; spec 5, ordering guarantees).
PipelineOrdered ==
    LET p == <<broadcast>> \o jobCh
    IN  \A i \in 1..Len(p) - 1 : p[i].seq < p[i + 1].seq

\* Spec 4.9: a changed previous block hash means clean_jobs = true.  Every
\* job the miners receive that mines on a different Bitcoin block than the
\* job they were working on is a clean job, so they drop their stale work.
CleanOnNewPrevHash ==
    [][ /\ broadcast # NoJob
        /\ broadcast' # broadcast
        /\ broadcast'.prev # broadcast.prev
        => broadcast'.clean ]_vars

\* Spec 2 (Job lifetime): jobs are retained long enough to validate
\* submissions; the job the miners are working on is found by GetJob.
BroadcastJobCached ==
    broadcast # NoJob => GetJob(broadcast.seq) # NoJob

\* The miners' block, read off the job last broadcast, implements JobFeed:
\* it never runs ahead of the node's best block or back to an older one,
\* and after a new block, whatever channel drops, failed builds, RPC
\* failures and backoff (types.go:335-346, 399-407), a job on the newest
\* block eventually reaches the miners.
JF == INSTANCE JobFeed WITH tip <- btcTip, work <- broadcast.prev

ImplementsJobFeed == JF!Spec
=============================================================================
