SPECIFICATION Spec
CONSTANTS
    MaxHeight = 4
    ForkHeight = 1
    BatchSize = 2
    RewindBlocks = 2
    VerifyLookahead = 1
    HistoricEnds = {0, 2}
    MaxReorgs = 1
    MaxStops = 1
    NoBlock = NoBlock
    Block <- MCBlock
    height <- MCHeight
    parent <- MCParent
    Chains <- MCChains
PROPERTY ReorgIsHandled
