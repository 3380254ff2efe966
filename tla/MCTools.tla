-------------------------------- MODULE MCTools --------------------------------
(* A tree of three levels, with shards of one; two transactions to show, and an  *)
(* account; two items of every kind; up to three recipients; five blocks to sync  *)
(* on screens smaller and larger than that.                                     *)
EXTENDS Tools

\* A block without notes after the first, and one that was not scanned after the third.
MCSizes == [h \in {1, 2, 3, 5} |-> <<2, 2, 5, 5, 8>>[h]]

\* Screens of fewer cells than blocks, and of more.
MCAreas == {<<1, 1>>, <<2, 1>>, <<1, 3>>, <<2, 2>>, <<4, 2>>}

\* Every key that names something, alone; some after another one; some that name nothing;
\* and some that go on after what they name.
Mistaken == {<< >>, <<"global">>, <<"global", "expiry_height">>, <<"sapling", "anchor">>,
             <<"sapling", "spend">>, <<"sapling", "spend", "2", "value">>,
             <<"sapling", "spend", "rcm">>, <<"orchard", "actions", "cv_net">>,
             <<"transparent", "inputs", "bip32_derivation", "m">>, <<"sprout">>}
Longer == {<<"sapling", "bsk", "value">>, <<"orchard", "action", "1", "spend", "fvk", "rcv">>,
           <<"transparent", "inputs", "sha256_preimages", "k", "l">>}
MCKeys == UNION {Paths(v) : v \in Value}
Second == {<<"sapling", "bsk">>, <<"orchard", "actions", "spend", "value">>,
           <<"transparent", "outputs", "bip32_derivation", "k">>, <<"sapling", "cv">>}
MCKeyList == {<< >>} \cup {<<a>> : a \in MCKeys \cup Mistaken \cup Longer}
             \cup {<<a, b>> : a \in MCKeys \cup Mistaken, b \in Second}
=============================================================================
