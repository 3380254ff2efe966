------------------------------ MODULE PcztOutputs ------------------------------
(***************************************************************************)
(* How `pczt pay-manual` (src/commands/pczt/pay_manual.rs) finds the       *)
(* output on which to record the address it pays.  The builder keeps a     *)
(* list of outputs per pool; the command counts, beside it, how many it    *)
(* has given to each pool.                                                 *)
(***************************************************************************)
EXTENDS Integers, Sequences

CONSTANTS
    AddressType,   \* the types of address paid
    NoPool,        \* for an address none of whose receivers is understood
    MaxRecipients  \* bound: addresses paid in one transaction, change included

VARIABLES
    recipients,  \* the types of address paid, in order
    tags,        \* [output -> whose address is recorded on it, 0 for none]
    tagged,      \* how many addresses are recorded
    maker        \* "ready", "tagging", "written" or "failed"

payVars == <<recipients, tags, tagged, maker>>

Pool == {"transparent", "sapling", "orchard"}

\* The receivers of a unified address, in the order they are understood; the other
\* types of address have one.
ReceiversOf == [
    sapling |-> <<"sapling">>,
    transparent |-> <<"transparent">>,
    tex |-> <<"transparent">>,
    unified |-> <<"orchard", "sapling", "transparent">>,
    unified_sapling |-> <<"sapling", "transparent">>,
    unified_unknown |-> << >>]

ASSUME AddressTypesAssumption ==
    AddressType \subseteq DOMAIN ReceiversOf /\ MaxRecipients \in Nat

\* handle_recipient
PoolOf(a) == IF ReceiversOf[a] = << >> THEN NoPool ELSE Head(ReceiversOf[a])

-----------------------------------------------------------------------------
(* The builder (external): one list per pool, of the outputs' own numbers. *)

\* The numbers of the outputs of as in pool p, in the order they are added.
BuiltIn(as, p) ==
    LET list[n \in 0..Len(as)] ==
            IF n = 0 THEN << >>
            ELSE IF PoolOf(as[n]) = p THEN Append(list[n - 1], n) ELSE list[n - 1]
    IN list[Len(as)]

-----------------------------------------------------------------------------
(* The command's own count. *)

\* Mutant: a pool's count starts where and_modify would leave it, at 1.
CountFromOne(n, present) == IF present THEN n + 1 ELSE 1

\* .and_modify(|n| *n += 1).or_default()
CountOne(n, present) == IF present THEN n + 1 ELSE 0

\* output_counts after the first n outputs: each pool's last index, if it has one.
Counts(as) ==
    LET c[n \in 0..Len(as)] ==
            IF n = 0 THEN [p \in {} |-> 0]
            ELSE LET p == PoolOf(as[n])
                     old == IF p \in DOMAIN c[n - 1] THEN c[n - 1][p] ELSE 0
                 IN [q \in DOMAIN c[n - 1] \cup {p} |->
                        IF q = p THEN CountOne(old, p \in DOMAIN c[n - 1]) ELSE c[n - 1][q]]
    IN c

\* output_mapping and change_mapping: the index of output i in its pool, from 0.
IndexInPool(as, i) == Counts(as)[i][PoolOf(as[i])]

\* set_verification_address: which output gets the address of output i, 0 for none.
TaggedBy(as, i) ==
    LET list == BuiltIn(as, PoolOf(as[i]))
        at == IndexInPool(as, i) + 1
    IN IF at \in 1..Len(list) THEN list[at] ELSE 0

\* The command fails on an address it cannot pay.
CanBuild(as) == \A i \in 1..Len(as) : PoolOf(as[i]) # NoPool

\* pay-manual pays the addresses in order, then the change, and records them in the
\* same order.
BeginPay ==
    /\ maker = "ready" /\ maker' = IF CanBuild(recipients) THEN "tagging" ELSE "failed"
    /\ UNCHANGED <<recipients, tags, tagged>>

TagNext ==
    /\ maker = "tagging" /\ tagged < Len(recipients) /\ tagged' = tagged + 1
    /\ IF TaggedBy(recipients, tagged') = 0
       THEN maker' = "failed" /\ UNCHANGED tags
       ELSE /\ tags' = [tags EXCEPT ![TaggedBy(recipients, tagged')] = tagged']
            /\ UNCHANGED maker
    /\ UNCHANGED recipients

WritePay ==
    /\ maker = "tagging" /\ tagged = Len(recipients) /\ maker' = "written"
    /\ UNCHANGED <<recipients, tags, tagged>>

-----------------------------------------------------------------------------
PayStep == BeginPay \/ TagNext \/ WritePay

InitPay ==
    /\ recipients \in UNION {[1..n -> AddressType] : n \in 0..MaxRecipients}
    /\ tags = [i \in 1..Len(recipients) |-> 0] /\ tagged = 0 /\ maker = "ready"
IdlePay == recipients = << >> /\ tags = << >> /\ tagged = 0 /\ maker = "failed"

\* A signer that checks an output against the address recorded on it checks it against
\* the address that the output pays, in whatever pools the addresses fall.
AddressesOnTheirOutputs ==
    /\ \A i \in 1..Len(recipients) : tags[i] \in {0, i}
    /\ maker = "written" => \A i \in 1..Len(recipients) : tags[i] = i
=============================================================================
