CONSTANTS
    Base = 8
    TargetTime = 2
    DifficultyAdjustmentWindow = 3
    MaxShareTargetBits <- MCMaxShareTargetBits
    MinShareTargetBits <- MCMinShareTargetBits
    Gaps <- MCGaps
SPECIFICATION MCSpec
CONSTRAINT AboveFloor
INVARIANT TypeOK
INVARIANT TargetsCanonical
INVARIANT NormalisationIsTruncation
INVARIANT WireRoundTrip
PROPERTY RetargetFollowsTiming
