SPECIFICATION MCSpec
CONSTANTS
    Note = {n1}
    Process = {p, q}
    Second = q
    In = In
    Before = Before
    Address = {addr}
    NoRequest = NoRequest
    MaxTx = 2
    MaxRuns = 1
    MaxBusy = 2
    MaxHeight = 2
    Own <- MCOwn
    Foreign <- MCForeign
    parents <- MCParents
    involving <- MCInvolving
    Received <- MCReceived
INVARIANT TypeOK
INVARIANT AncestryClosed
INVARIANT MinedIsTrue
INVARIANT NoSelfConflict
INVARIANT PaidInFull
PROPERTY EnhanceEnds
PROPERTY NotesReturn
CHECK_DEADLOCK FALSE
