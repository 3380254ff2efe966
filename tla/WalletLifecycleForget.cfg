SPECIFICATION Spec
CONSTANTS
    Seed = {s1, s2}
    Ufvk = {u1}
    NoSeed = NoSeed
    Name = {n1, n2}
    MaxAccounts = 2
    MaxStops = 2
INVARIANT ResetKeepsDerivedAccounts
