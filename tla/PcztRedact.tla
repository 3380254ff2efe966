------------------------------- MODULE PcztRedact -------------------------------
(***************************************************************************)
(* `pczt redact --key foo.bar.baz ...` (src/commands/pczt/redact.rs).      *)
(* Every key is walked token by token down to a field, which is removed    *)
(* from one item, or from all of a list.  The keys are taken in order, and *)
(* one that names nothing that can be redacted fails the command.          *)
(*                                                                         *)
(* A transaction is the set of the values that can be taken out of it.     *)
(***************************************************************************)
EXTENDS Integers, FiniteSets, Sequences

CONSTANTS
    MaxItems,   \* spends, outputs and so on of each kind are numbered from 0
    MapKey,     \* keys of maps, written as hex of the right length
    Name,       \* names of proprietary fields
    KeyList     \* what users ask for: sequences of keys, a key being its tokens

VARIABLES
    keys,      \* what the user named
    pczt,      \* the values it still has
    taken,     \* how many keys were taken
    redactor   \* "ready", "folding", "failed" or "written"

redactVars == <<keys, pczt, taken, redactor>>

Item == 0..(MaxItems - 1)
Whole == {"global", "sapling", "orchard"}
Listed == {"t_input", "t_output", "s_spend", "s_output", "action", "o_spend", "o_output"}

\* How an index is written: of the items there are, and one past the last.
Digits == [i \in 0..MaxItems |-> <<"0", "1", "2", "3">>[i + 1]]

\* A key is an argument split at its dots, so its tokens are strings.
ASSUME RedactAssumption ==
    /\ MaxItems \in 1..3
    /\ KeyList \subseteq Seq(Seq(STRING))

-----------------------------------------------------------------------------
(* The fields: those that are removed, those with a map under them, and those  *)
(* that are refused.                                                           *)

Shared == {"recipient", "value", "rseed", "zip32_derivation"}
Plain == [
    global |-> {},
    transparent |-> {},
    sapling |-> {"bsk"},
    orchard |-> {"zkproof", "bsk"},
    t_input |-> {"script_sig", "redeem_script"},
    t_output |-> {"redeem_script", "user_address"},
    s_spend |-> Shared \cup {"zkproof", "spend_auth_sig", "rcm", "rcv",
                             "proof_generation_key", "witness", "alpha", "dummy_ask"},
    s_output |-> Shared \cup {"zkproof", "rcv", "ock", "user_address"},
    action |-> {"rcv"},
    o_spend |-> Shared \cup {"spend_auth_sig", "rho", "fvk", "witness", "alpha", "dummy_sk"},
    o_output |-> Shared \cup {"ock", "user_address"}]

Preimages == {"ripemd160_preimages", "sha256_preimages", "hash160_preimages", "hash256_preimages"}
Maps(s) ==
    IF s = "t_input" THEN Preimages \cup {"partial_signatures", "bip32_derivation"}
    ELSE IF s = "t_output" THEN {"bip32_derivation"} ELSE {}

Proprietary(s) ==
    IF s \in {"transparent", "sapling", "orchard", "action"} THEN {} ELSE {"proprietary"}

Ciphertexts == {"ephemeral_key", "enc_ciphertext", "out_ciphertext"}
Fixed == [
    global |-> {"tx_version", "version_group_id", "consensus_branch_id", "fallback_lock_time",
                "expiry_height", "coin_type", "tx_modifiable"},
    transparent |-> {},
    sapling |-> {"value_sum", "anchor"},
    orchard |-> {"flags", "value_sum", "anchor"},
    t_input |-> {"prevout_txid", "prevout_index", "sequence", "required_time_lock_time",
                 "required_height_lock_time", "value", "script_pubkey", "sighash_type"},
    t_output |-> {"value", "script_pubkey"},
    s_spend |-> {"cv", "nullifier", "rk"},
    s_output |-> {"cv", "cmu"} \cup Ciphertexts,
    action |-> {"cv_net"},
    o_spend |-> {"nullifier", "rk"},
    o_output |-> {"cmx"} \cup Ciphertexts]

ValuesOf(s) ==
    {<<f, "">> : f \in Plain[s]} \cup Maps(s) \X MapKey \cup Proprietary(s) \X Name
Value == UNION {{[section |-> s, item |-> i, field |-> v[1], key |-> v[2]] :
                    i \in IF s \in Listed THEN Item ELSE {0}, v \in ValuesOf(s)} :
                s \in Whole \cup Listed}

-----------------------------------------------------------------------------
(* Where a key leads: a section, the items of it, and the tokens that are left. *)

\* The names of a list and of one of its items, in each section.
ListNamed == [
    transparent |-> [inputs |-> "t_input", outputs |-> "t_output"],
    sapling |-> [spends |-> "s_spend", outputs |-> "s_output"],
    orchard |-> [actions |-> "action"]]
ItemNamed == [
    sapling |-> [spend |-> "s_spend", output |-> "s_output"],
    orchard |-> [action |-> "action"]]
PartNamed == [action |-> [spend |-> "o_spend", output |-> "o_output"]]

Enters(table, r) ==
    /\ r.rest # << >> /\ r.section \in DOMAIN table
    /\ Head(r.rest) \in DOMAIN table[r.section]

\* redact_transparent, redact_sapling, redact_orchard, redact_orchard_action.  An index
\* that is none leaves a token that is no field of the section.
Descend(r) ==
    IF Enters(ListNamed, r)
    THEN [section |-> ListNamed[r.section][Head(r.rest)], items |-> Item, rest |-> Tail(r.rest)]
    ELSE IF Enters(PartNamed, r)
    THEN [section |-> PartNamed[r.section][Head(r.rest)], items |-> r.items,
          rest |-> Tail(r.rest)]
    ELSE IF Enters(ItemNamed, r) /\ Len(r.rest) > 1 /\ \E i \in DOMAIN Digits : Digits[i] = r.rest[2]
    THEN [section |-> ItemNamed[r.section][Head(r.rest)],
          items |-> {i \in Item : Digits[i] = r.rest[2]}, rest |-> Tail(Tail(r.rest))]
    ELSE r

\* redact_pczt
Reached(key) ==
    {Descend(Descend([section |-> s, items |-> {0}, rest |-> Tail(key)])) :
        s \in {x \in Whole \cup {"transparent"} : key # << >> /\ x = Head(key)}}

\* Whether the key ends in a field that can be redacted, with a key under it if any is
\* given that a map can have.
Redactable(r) ==
    /\ r.rest # << >>
    /\ Head(r.rest) \notin Fixed[r.section]
    /\ Head(r.rest) \in Plain[r.section] \cup Maps(r.section) \cup Proprietary(r.section)
    /\ Head(r.rest) \in Maps(r.section) /\ Len(r.rest) > 1 => r.rest[2] \in MapKey

\* Mutant: the names of the items are the numbers of those before them.
ItemsBefore(r) == {i \in Item : i + 1 \in r.items}

ItemsOf(r) == r.items

\* The key that is redacted of a map, if one is named.
MapKeyFor(r) == {r.rest[2] : n \in {2} \cap DOMAIN r.rest}

\* The name that is redacted of an item's proprietary fields.  The token is read anew
\* for every item: the first gets the name, the next what follows it, and the others
\* none.
NameFor(r, i) ==
    LET turn == 2 + Cardinality({j \in ItemsOf(r) : j < i})
    IN {r.rest[n] : n \in {turn} \cap DOMAIN r.rest}

\* Mutant: the name or map key is not looked at.
KeyIgnored(r, v) == {}

\* The keys under the field that are redacted of an item; none stands for all.
KeyFor(r, v) ==
    IF v.field \in Maps(r.section) THEN MapKeyFor(r)
    ELSE IF v.field = "proprietary" THEN NameFor(r, v.item) ELSE {}

Removed(r) ==
    {v \in Value :
        /\ v.section = r.section /\ v.item \in ItemsOf(r) /\ v.field = Head(r.rest)
        /\ KeyFor(r, v) # {} => v.key \in KeyFor(r, v)}

-----------------------------------------------------------------------------
(* Command::run *)

BeginRedact ==
    /\ redactor = "ready" /\ redactor' = "folding"
    /\ \E ks \in KeyList : keys' = ks
    /\ UNCHANGED <<pczt, taken>>

\* try_fold: one key.
RedactKey ==
    /\ redactor = "folding" /\ taken < Len(keys)
    /\ \E r \in Reached(keys[taken + 1]) :
        Redactable(r) /\ pczt' = pczt \ Removed(r)
    /\ taken' = taken + 1
    /\ UNCHANGED <<keys, redactor>>

FailKey ==
    /\ redactor = "folding" /\ taken < Len(keys)
    /\ \A r \in Reached(keys[taken + 1]) : ~Redactable(r)
    /\ redactor' = "failed"
    /\ UNCHANGED <<keys, pczt, taken>>

WriteRedacted ==
    /\ redactor = "folding" /\ taken = Len(keys) /\ redactor' = "written"
    /\ UNCHANGED <<keys, pczt, taken>>

RedactStep == BeginRedact \/ RedactKey \/ FailKey \/ WriteRedacted

InitRedact == keys = << >> /\ pczt = Value /\ taken = 0 /\ redactor = "ready"
IdleRedact == keys = << >> /\ pczt = {} /\ taken = 0 /\ redactor = "failed"

-----------------------------------------------------------------------------
(* What a key names, read from the notation instead of walked: the path of a   *)
(* value, with the number of its item or with the name of the list it is in.   *)

PathsTo(s, i, end) ==
    LET list(p, many, one, t) == {<<p, many>> \o t, <<p, one, Digits[i]>> \o t}
    IN CASE s \in Whole -> {<<s>> \o end}
         [] s = "t_input" -> {<<"transparent", "inputs">> \o end}
         [] s = "t_output" -> {<<"transparent", "outputs">> \o end}
         [] s = "s_spend" -> list("sapling", "spends", "spend", end)
         [] s = "s_output" -> list("sapling", "outputs", "output", end)
         [] s = "action" -> list("orchard", "actions", "action", end)
         [] s = "o_spend" -> list("orchard", "actions", "action", <<"spend">> \o end)
         [] s = "o_output" -> list("orchard", "actions", "action", <<"output">> \o end)

\* The paths that end in the value, and those of its field: a field without the key
\* under it stands for all its keys.
FullPaths(v) ==
    PathsTo(v.section, v.item, IF v.key = "" THEN <<v.field>> ELSE <<v.field, v.key>>)
Paths(v) == FullPaths(v) \cup PathsTo(v.section, v.item, <<v.field>>)
Names(key, v) == key \in Paths(v)

\* A key may go on after it has named a value; what follows is not looked at.
FirstOf(key, n) == [j \in 1..n |-> key[j]]
Covers(key, v) == Names(key, v) \/ \E n \in 1..Len(key) : FirstOf(key, n) \in FullPaths(v)

Named == {v \in Value : \E n \in DOMAIN keys : Names(keys[n], v)}
Covered == {v \in Value : \E n \in DOMAIN keys : Covers(keys[n], v)}

RedactTypeOK ==
    /\ pczt \subseteq Value /\ taken \in 0..Len(keys)
    /\ redactor \in {"ready", "folding", "failed", "written"}

\* The transaction that is written has nothing left of what the user named: a key that
\* names a value is never taken for another, or passed over without an error.
NamedAreGone == redactor = "written" => pczt \cap Named = {}

\* Other roles still find every field that no key names, nor passes and goes on.
\* Proprietary fields are not among those: see OnlyNamedGo.
OtherFieldsStay ==
    redactor = "written" =>
        \A v \in Value \ Covered : v.field # "proprietary" => v \in pczt

\* redact.rs:17, "A list of PCZT keys to redact, in foo.bar.baz notation": what no key
\* names is not redacted.  Naming one proprietary field of a list's items takes it from
\* the first and all proprietary fields from the others.
OnlyNamedGo == redactor = "written" => Value \ pczt \subseteq Covered
=============================================================================
