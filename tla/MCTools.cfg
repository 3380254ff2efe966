SPECIFICATION FairSpec
CONSTANTS
    Top = 3
    Shard = 1
    Sizes <- MCSizes
    MaxChanges = 1
    Pczt = {p1, p2}
    Accounts = {acc}
    Fragment = {f1, f2, f3}
    NoMessage = NoMessage
    MaxShows = 2
    MaxItems = 2
    MapKey = {"k", "l"}
    Name = {"n", "o"}
    KeyList <- MCKeyList
    AddressType = {"sapling", "transparent", "tex", "unified", "unified_sapling", "unified_unknown"}
    NoPool = NoPool
    MaxRecipients = 3
    Birthday = 3
    MaxTip = 7
    Wanted = {2, 6}
    Areas <- MCAreas
INVARIANT TypeOK
INVARIANT DrawnInPlace
INVARIANT BoundariesExact
INVARIANT DeliversWhatWasShown
INVARIANT NamedAreGone
INVARIANT OtherFieldsStay
INVARIANT AddressesOnTheirOutputs
INVARIANT EntriesAreQueue
INVARIANT RangesAreShown
PROPERTY WalkStaysHere
PROPERTY Arrives
CHECK_DEADLOCK FALSE
