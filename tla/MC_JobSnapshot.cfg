CONSTANT Shares <- MCShares
CONSTANT Parent <- MCParent
CONSTANT Invalid = {}
CONSTANT MaxLocatorCount = 64
CONSTANT WindowSize = 2
SPECIFICATION Spec
INVARIANT JobPaysCommittedWindow
