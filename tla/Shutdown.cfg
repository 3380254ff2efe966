SPECIFICATION FairSpec
CONSTANTS
    RangeLength = 3
    QueueBound = 3
INVARIANT TypeOK
INVARIANT NoPartialScan
INVARIANT ClosedMeansRequested
PROPERTY RequestStays
PROPERTY QuitEndsSync
