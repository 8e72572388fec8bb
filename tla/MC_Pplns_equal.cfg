CONSTANTS
    Miners <- MCMiners
    NoFinder = 0
    Finders <- MCFinders
    Targets <- MCTargets
    MaxTarget = 12
    WindowSize = 4
    Rewards <- MCRewards
    FinderFeePercent = 10
    DustThreshold = 5
SPECIFICATION Spec




INVARIANT EqualPeersWithinOne
