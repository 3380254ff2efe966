SPECIFICATION Spec
CONSTANTS
    Top = 3
    Shard = 1
    Sizes <- MCSizes
    MaxChanges = 0
    Pczt = {p1}
    Accounts = {acc}
    Fragment = {f1}
    NoMessage = NoMessage
    MaxShows = 1
    MaxItems = 2
    MapKey = {"k", "l"}
    Name = {"n", "o"}
    KeyList <- MCKeyList
    AddressType = {"sapling"}
    NoPool = NoPool
    MaxRecipients = 1
    Birthday = 3
    MaxTip = 3
    Wanted = {2, 6}
    Areas <- MCAreas
INVARIANT OnlyNamedGo
CHECK_DEADLOCK FALSE
