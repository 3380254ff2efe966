---------------------------- MODULE MCWalletSync ----------------------------
(* Two branches over heights 1..MaxHeight: "a" from the start, "b" from above   *)
(* ForkHeight.  A block is its height and the branch it was mined on.           *)
EXTENDS WalletSync

CONSTANT ForkHeight

MCBlock == ((1..MaxHeight) \X {"a"}) \cup (((ForkHeight + 1)..MaxHeight) \X {"b"})
MCHeight == [b \in MCBlock |-> b[1]]
MCParent ==
    [b \in MCBlock |->
        IF b[1] = 1 THEN NoBlock
        ELSE IF b[1] = ForkHeight + 1 THEN <<b[1] - 1, "a">> ELSE <<b[1] - 1, b[2]>>]

Branch(f) == {b \in MCBlock : b[2] = f \/ b[1] <= ForkHeight}
UpTo(n, S) == {b \in S : b[1] <= n}
MCChains == {UpTo(n, Branch("a")) : n \in 1..MaxHeight}
            \cup {UpTo(n, Branch("b")) : n \in (ForkHeight + 1)..MaxHeight}
=============================================================================
