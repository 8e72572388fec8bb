CONSTANTS
    MaxBlocks = 3
    TemplateOutcomes = {TRUE, FALSE}
    ChanCapacity = 2
    MaxStoredJobs = 3
    RefreshTicks = 6
    BackoffCapTicks = 12
    MaxJobs = 6
SPECIFICATION Spec
INVARIANT BroadcastJobCached
