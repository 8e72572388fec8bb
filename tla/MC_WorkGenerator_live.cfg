CONSTANTS
    MaxBlocks = 3
    TemplateOutcomes = {TRUE, FALSE}
    ChanCapacity = 2
    MaxStoredJobs = 3
    RefreshTicks = 6
    BackoffCapTicks = 12
    MaxJobs = 100
SPECIFICATION LiveSpec
VIEW SeqView
INVARIANT TypeOK
INVARIANT CacheKeepsNewest
INVARIANT PipelineOrdered
PROPERTY ImplementsJobFeed
