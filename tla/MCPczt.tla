-------------------------------- MODULE MCPczt --------------------------------
(* Two wallets.  "a" has an Orchard note, a Sapling note and a coin; a second    *)
(* coin takes the signatures of both.                                           *)
EXTENDS Pczt

MCSpend == {"note_o", "note_z", "coin", "coin_2of2"}
MCPool == [s \in MCSpend |->
    IF s = "note_o" THEN "orchard" ELSE IF s = "note_z" THEN "sapling" ELSE "transparent"]
MCHolders == [s \in MCSpend |-> IF s = "coin_2of2" THEN Seed ELSE {"a"}]
MCQuorum == [s \in MCSpend |-> IF s = "coin_2of2" THEN 2 ELSE 1]
=============================================================================
