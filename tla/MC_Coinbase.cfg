CONSTANTS
    Miners <- MCMiners
    NoFinder = 0
    Finders <- MCFinders
    Targets <- MCTargets
    MaxTarget = 12
    WindowSize = 4
    Rewards <- MCRewards
    FinderFeePercent = 10
    DustThreshold = 5
    HashLen = 32
    ExtranonceSize = 2
    Templates <- MCTemplates
    Extranonce1 <- MCExtranonce1
    Extranonce2s <- MCExtranonce2s
    Versions <- MCVersions
    NTime <- MCNTime
    Nonce <- MCNonce
SPECIFICATION MCSpec
INVARIANT TypeOK
INVARIANT Conservation
INVARIANT NoDustOutputs
INVARIANT FairShare
INVARIANT SubmittedRootVerifies
INVARIANT PrevHashInternalOrder
INVARIANT CoinbaseFillsExtranonce
