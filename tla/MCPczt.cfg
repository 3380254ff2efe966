SPECIFICATION FairSpec
CONSTANTS
    Seed = {"a", "b"}
    None = None
    MaxExtra = 1
    Spend <- MCSpend
    pool <- MCPool
    holders <- MCHolders
    quorum <- MCQuorum
INVARIANT TypeOK
INVARIANT DerivationsAreTrue
PROPERTY Completes
