--------------------------------- MODULE Pczt ---------------------------------
(***************************************************************************)
(* The `pczt` commands (src/commands/pczt/): one transaction is put        *)
(* together by several wallets that hand copies of it around as files.     *)
(* Each command reads copies and writes a new one.  A copy is the set of   *)
(* facts it holds beyond what the transaction does, which no command can   *)
(* change: that is why copies of one transaction can be merged.            *)
(*                                                                         *)
(* The roles themselves (Prover, Signer, Combiner, ...) are in the pczt    *)
(* library, and modelled from what the commands ask of them.  A signature  *)
(* of a shielded spend and a proof are randomised: the run that made them  *)
(* is part of the fact.  A transparent signature is deterministic.         *)
(***************************************************************************)
EXTENDS Integers, FiniteSets

CONSTANTS
    Spend,     \* the coins and notes the wallets could spend
    pool,      \* [Spend -> Pool]
    Seed,      \* the wallets: a seed, with one account of it
    holders,   \* [Spend -> SUBSET Seed]: whose key is in the spend's script or note
    quorum,    \* [Spend -> Nat]: signatures that it takes
    None,
    MaxExtra   \* bound: commands besides those of the walkthrough

Shielded == {"sapling", "orchard"}
Pool == Shielded \cup {"transparent"}

ASSUME ConstantsAssumption ==
    /\ pool \in [Spend -> Pool]
    /\ holders \in [Spend -> SUBSET Seed]
    /\ quorum \in [Spend -> Nat \ {0}]
    /\ \A s \in Spend : pool[s] \in Shielded =>
           quorum[s] = 1 /\ \E w \in Seed : holders[s] = {w}
    /\ None \notin Seed /\ MaxExtra \in Nat
    /\ Spend \cap Shielded = {}

VARIABLES
    spends,    \* what the transaction spends
    bundles,   \* the shielded pools it spends from or pays to
    origin,    \* the copy written by the command that created it
    copies,    \* the files
    mode,      \* the walkthrough is taken by one copy to each wallet, or by a relay
    results,   \* the copies it made
    current,   \* the last of them in a relay, else the origin
    done,      \* the steps of it that were taken
    extra,     \* other commands run
    sent       \* the copy that was sent, {} if none was

walk == <<results, current, done>>
vars == <<spends, bundles, origin, copies, mode, results, current, done, extra, sent>>

Kind == {"derivation", "recipient", "witness", "alpha", "pgk", "bsk", "proof", "sig"}
Fact == [kind : Kind, of : Spend \cup Shielded, by : Seed \cup {None}, run : 0..MaxExtra]
Copy == SUBSET Fact

Known(k, s) == [kind |-> k, of |-> s, by |-> None, run |-> 0]
Derivation(s, w) == [kind |-> "derivation", of |-> s, by |-> w, run |-> 0]
Signature(s, w, n) ==
    [kind |-> "sig", of |-> s, by |-> w, run |-> IF pool[s] = "transparent" THEN 0 ELSE n]
Proof(b, n) == [kind |-> "proof", of |-> b, by |-> None, run |-> n]

InPool(p) == {s \in spends : pool[s] = p}
All(c, k, s) == {f \in c : f.kind = k /\ f.of = s}
Has(c, k, s) == All(c, k, s) # {}

-----------------------------------------------------------------------------
(* The roles, each from the copy it reads to the copy it writes. *)

\* What the creator and the IO finalizer leave for the other roles.
Built(S, B, D) ==
    {Known(k, s) : k \in {"recipient", "witness", "alpha"},
                   s \in {x \in S : pool[x] \in Shielded}}
    \cup {Known("bsk", b) : b \in B}
    \cup {Derivation(s, w) : s \in S, w \in D}

\* update-with-derivation: the spends in pool p that can be seen to be w's.  A
\* coin shows its script; a note must show its recipient.
Matches(c, w, p) ==
    {s \in InPool(p) : w \in holders[s] /\ (p \in Shielded => Has(c, "recipient", s))}

\* Mutant: the derivation is set on every spend of the pool once one matched.
UpdatedAll(c, w, p) == c \cup {Derivation(s, w) : s \in InPool(p)}

Updated(c, w, p) == c \cup {Derivation(s, w) : s \in Matches(c, w, p)}

\* prove: a Sapling spend needs its proof generation key, which is given, or
\* derived from the wallet's seed along the path of the spend's derivation.
Provable(c, w) ==
    /\ \A s \in InPool("sapling") : Has(c, "pgk", s) \/ w \in holders[s]
    /\ \A s \in spends : pool[s] \in Shielded => Has(c, "witness", s) /\ Has(c, "recipient", s)

Proven(c, n) ==
    {f \in c : f.kind # "proof"}
    \cup {Known("pgk", s) : s \in InPool("sapling")}
    \cup {Proof(b, n) : b \in bundles}

\* sign: the spends with a derivation from w's seed.  One that cannot be signed
\* fails the command.
Signs(c, w) == {s \in spends : Derivation(s, w) \in c}
Signable(c, w) ==
    \A s \in Signs(c, w) : /\ w \in holders[s]
                           /\ pool[s] \in Shielded => Has(c, "alpha", s)

\* Mutant: a signature starts the spend anew, without what others signed.
SignedAlone(c, w, n) ==
    {f \in c : ~(f.kind = "sig" /\ f.of \in Signs(c, w))}
    \cup {Signature(s, w, n) : s \in Signs(c, w)}

Signed(c, w, n) ==
    {f \in c : ~(f.kind = "sig" /\ f.of \in Signs(c, w) /\ f.by = w)}
    \cup {Signature(s, w, n) : s \in Signs(c, w)}

\* combine: two copies agree unless a field that can be set once is set twice.
Agree(a, b) ==
    \A f \in a, g \in b :
        f.kind = g.kind /\ f.of = g.of /\ f.kind \in {"sig", "proof"} /\ f.by = g.by => f = g

\* send and send-without-storing: the extractor takes a transaction only with
\* every proof and enough signatures.
Extractable(c) ==
    /\ \A b \in bundles : Has(c, "proof", b) /\ Has(c, "bsk", b)
    /\ \A s \in spends : Cardinality(All(c, "sig", s)) >= quorum[s]

-----------------------------------------------------------------------------
(* The transaction is created. *)

Created(S, B, D) ==
    /\ spends = {}
    /\ spends' = S /\ bundles' = B
    /\ origin' = Built(S, B, D)
    /\ copies' = {origin'} /\ current' = origin'
    /\ mode' \in {"parallel", "relay"}
    /\ UNCHANGED <<results, done, extra, sent>>

\* Mutant: a proof is expected of the transparent bundle too.
PoolsOfAll(S) == {pool[s] : s \in S}

PoolsOf(S) == {pool[s] : s \in S} \cap Shielded

\* create and shield: the wallet chooses among the notes and coins of its account,
\* and knows how they were derived.
CreateFromProposal ==
    \E w \in Seed, S \in (SUBSET Spend) \ {{}}, B \in SUBSET Shielded :
        /\ \A s \in S : holders[s] = {w}
        /\ Created(S, B \cup PoolsOf(S), {w})

\* create-manual and pay-manual: the user names coins, which come without
\* derivations.
CreateManually ==
    \E S \in (SUBSET Spend) \ {{}}, B \in SUBSET Shielded :
        /\ \A s \in S : pool[s] = "transparent"
        /\ Created(S, B, {})

-----------------------------------------------------------------------------
(* Commands on copies, at any time and on any copy. *)

Write(c) ==
    /\ copies' = copies \cup {c}
    /\ UNCHANGED <<spends, bundles, origin, mode, sent>>

Another(c) == Write(c) /\ extra' = extra + 1 /\ UNCHANGED walk

Update ==
    \E c \in copies, w \in Seed, p \in Pool :
        Matches(c, w, p) # {} /\ Another(Updated(c, w, p))

Prove ==
    \E c \in copies, w \in Seed : Provable(c, w) /\ Another(Proven(c, extra + 1))

Sign ==
    \E c \in copies, w \in Seed :
        Signable(c, w) /\ Another(Signed(c, w, extra + 1))

\* redact: one field, of one spend or of a whole pool, from one holder or all.
Redact ==
    \E c \in copies, k \in Kind, p \in Pool, W \in {Seed \cup {None}} \cup {{w} : w \in Seed} :
        \E S \in {InPool(p) \cup {p}} \cup {{s} : s \in InPool(p)} :
            Another({f \in c : ~(f.kind = k /\ f.of \in S /\ f.by \in W)})

Combine ==
    \E a, b \in copies : Agree(a, b) /\ Another(a \cup b)

Extra ==
    /\ extra < MaxExtra /\ sent = {}
    /\ Update \/ Prove \/ Sign \/ Redact \/ Combine

-----------------------------------------------------------------------------
(* The walkthrough (doc/walkthrough.md): prove and sign the copy that was      *)
(* created, combine what comes out, and send it.  In a relay each wallet takes *)
(* the copy of the one before instead, and nothing is combined.  A wallet whose *)
(* coins came without derivations updates its copy before it signs.            *)

Take(step, c) ==
    /\ Write(c)
    /\ done' = done \cup {step} /\ results' = results \cup {c}
    /\ current' = IF mode = "relay" THEN c ELSE current
    /\ UNCHANGED extra

\* Whose signatures the transaction waits for.
Signers == UNION {holders[s] : s \in spends}

WalkProve ==
    /\ "proven" \notin done /\ spends # {}
    /\ \E w \in Seed : Provable(current, w)
    /\ Take("proven", Proven(current, 0))

WalkUpdate(w) == UNION {Updated(current, w, p) : p \in Pool}

WalkSign(w) ==
    /\ w \in Signers \ done
    /\ Signable(WalkUpdate(w), w)
    /\ Take(w, Signed(WalkUpdate(w), w, 0))

WalkCombine ==
    /\ mode = "parallel" /\ spends # {}
    /\ {"proven"} \cup Signers \subseteq done /\ "combined" \notin done
    /\ \A a, b \in results : Agree(a, b)
    /\ Take("combined", UNION results)

\* send and send-without-storing: any copy that is complete.
Send ==
    /\ sent = {} /\ spends # {}
    /\ \E c \in copies : Extractable(c) /\ sent' = c
    /\ UNCHANGED <<spends, bundles, origin, copies, mode, walk, extra>>

Walk == WalkProve \/ (\E w \in Seed : WalkSign(w)) \/ WalkCombine \/ Send

-----------------------------------------------------------------------------
Init ==
    /\ spends = {} /\ bundles = {} /\ origin = {} /\ copies = {} /\ mode = "parallel"
    /\ results = {} /\ current = {} /\ done = {} /\ extra = 0 /\ sent = {}

\* The transaction was sent: nothing is left to do.
Finished == sent # {} /\ UNCHANGED vars

Next == CreateFromProposal \/ CreateManually \/ Extra \/ Walk \/ Finished

Spec == Init /\ [][Next]_vars

\* Those who hold the files go on with the walkthrough, whatever else they run.
FairSpec == Spec /\ WF_vars(Walk)

-----------------------------------------------------------------------------
TypeOK ==
    /\ spends \subseteq Spend /\ bundles \subseteq Shielded
    /\ origin \subseteq Fact /\ current \subseteq Fact /\ sent \subseteq Fact
    /\ copies \subseteq Copy /\ results \subseteq Copy
    /\ mode \in {"parallel", "relay"}
    /\ done \subseteq Seed \cup {"proven", "combined"}
    /\ extra \in 0..MaxExtra

\* sign takes a derivation at its word and fails as a whole if one is not its own:
\* no sequence of commands records one on a spend the wallet has no key for.
DerivationsAreTrue ==
    \A c \in copies, w \in Seed : Signs(c, w) \subseteq {s \in spends : w \in holders[s]}

\* The walkthrough completes, in parallel or by relay, whatever was created and
\* whatever other commands are run on whichever copies meanwhile: no role needs
\* another to come first, or undoes what another has done.
Completes == spends # {} ~> sent # {}
=============================================================================
