------------------------------- MODULE PcztProofs -------------------------------
(***************************************************************************)
(* No sequence of `pczt` commands records a wallet's derivation on a spend *)
(* the wallet has no key for, whatever is spent, by however many wallets.  *)
(***************************************************************************)
EXTENDS Pczt, TLAPS

\* The derivations in a copy are true of the spends' keys.
Sound(c) == \A s \in Spend, w \in Seed : Derivation(s, w) \in c => w \in holders[s]

IInv ==
    /\ TypeOK
    /\ current \in copies \cup {{}}
    /\ \A c \in copies \cup results : Sound(c)

\* The roles work on copies of facts, and keep them sound.
Good(c) == c \in Copy /\ Sound(c)

LEMMA KnownFact ==
    ASSUME NEW k \in Kind, NEW x \in Spend \cup Shielded
    PROVE  Known(k, x) \in Fact /\ (k # "derivation" => \A s, w : Known(k, x) # Derivation(s, w))
  BY ConstantsAssumption DEF Known, Fact, Derivation

LEMMA DerivationFact ==
    ASSUME NEW s \in Spend, NEW w \in Seed
    PROVE  /\ Derivation(s, w) \in Fact
           /\ \A x, v : Derivation(s, w) = Derivation(x, v) => s = x /\ w = v
  BY ConstantsAssumption DEF Derivation, Fact, Kind

LEMMA SignatureFact ==
    ASSUME NEW s \in Spend, NEW w \in Seed, NEW n \in 0..MaxExtra
    PROVE  Signature(s, w, n) \in Fact /\ \A x, v : Signature(s, w, n) # Derivation(x, v)
  BY ConstantsAssumption DEF Signature, Derivation, Fact, Kind

LEMMA ProofFact ==
    ASSUME NEW b \in Shielded, NEW n \in 0..MaxExtra
    PROVE  Proof(b, n) \in Fact /\ \A x, v : Proof(b, n) # Derivation(x, v)
  BY ConstantsAssumption DEF Proof, Derivation, Fact, Kind

LEMMA UpdatedGood ==
    ASSUME NEW c, Good(c), NEW w \in Seed, NEW p \in Pool, spends \subseteq Spend
    PROVE  Good(Updated(c, w, p))
<1>1. Matches(c, w, p) \subseteq {s \in Spend : w \in holders[s]}
  BY DEF Matches, InPool
<1>2. Updated(c, w, p) \in Copy
  BY <1>1, DerivationFact DEF Updated, Good, Copy
<1>3. Sound(Updated(c, w, p))
  <2> SUFFICES ASSUME NEW s \in Spend, NEW v \in Seed, Derivation(s, v) \in Updated(c, w, p)
               PROVE  v \in holders[s]
    BY DEF Sound
  <2>1. CASE Derivation(s, v) \in c
    BY <2>1 DEF Good, Sound
  <2>2. CASE \E x \in Matches(c, w, p) : Derivation(s, v) = Derivation(x, w)
    BY <2>2, <1>1, DerivationFact
  <2>3. QED
    BY <2>1, <2>2 DEF Updated
<1>4. QED
  BY <1>2, <1>3 DEF Good

LEMMA ProvenGood ==
    ASSUME NEW c, Good(c), NEW n \in 0..MaxExtra, spends \subseteq Spend, bundles \subseteq Shielded
    PROVE  Good(Proven(c, n))
<1>1. \A s \in InPool("sapling") : Known("pgk", s) \in Fact /\ \A x, v : Known("pgk", s) # Derivation(x, v)
  BY KnownFact DEF InPool, Kind
<1>2. \A b \in bundles : Proof(b, n) \in Fact /\ \A x, v : Proof(b, n) # Derivation(x, v)
  BY ProofFact
<1>3. QED
  BY <1>1, <1>2 DEF Good, Sound, Copy, Proven

LEMMA SignedGood ==
    ASSUME NEW c, Good(c), NEW w \in Seed, NEW n \in 0..MaxExtra, spends \subseteq Spend
    PROVE  Good(Signed(c, w, n))
<1>1. \A s \in Signs(c, w) : Signature(s, w, n) \in Fact /\ \A x, v : Signature(s, w, n) # Derivation(x, v)
  BY SignatureFact DEF Signs
<1>2. QED
  BY <1>1 DEF Good, Sound, Copy, Signed

LEMMA UnionGood ==
    ASSUME NEW D, \A c \in D : Good(c)
    PROVE  Good(UNION D)
  BY DEF Good, Sound, Copy

LEMMA SubsetGood ==
    ASSUME NEW c, Good(c), NEW d \in SUBSET c
    PROVE  Good(d)
  BY DEF Good, Sound, Copy

LEMMA BuiltGood ==
    ASSUME NEW S \in SUBSET Spend, NEW B \in SUBSET Shielded, NEW D \in SUBSET Seed,
           \A s \in S, w \in D : w \in holders[s]
    PROVE  Good(Built(S, B, D))
<1> DEFINE notes == {Known(k, s) : k \in {"recipient", "witness", "alpha"},
                                   s \in {x \in S : pool[x] \in Shielded}}
           keys == {Known("bsk", b) : b \in B}
           derivations == {Derivation(s, w) : s \in S, w \in D}
<1>1. \A f \in notes \cup keys : f \in Fact /\ \A x, v : f # Derivation(x, v)
  BY KnownFact DEF Kind
<1>2. \A f \in derivations : f \in Fact
  BY DerivationFact
<1>3. \A s \in Spend, w \in Seed : Derivation(s, w) \in derivations => w \in holders[s]
  BY DerivationFact
<1>4. Built(S, B, D) = notes \cup keys \cup derivations
  BY DEF Built
<1> HIDE DEF notes, keys, derivations
<1>5. QED
  BY <1>1, <1>2, <1>3, <1>4 DEF Good, Copy, Sound

-----------------------------------------------------------------------------

LEMMA CreatedKeeps ==
    ASSUME IInv, NEW S \in SUBSET Spend, NEW B \in SUBSET Shielded, NEW D \in SUBSET Seed,
           \A s \in S, w \in D : w \in holders[s], Created(S, B, D)
    PROVE  IInv'
<1>1. Good(Built(S, B, D))
  BY BuiltGood
<1>2. TypeOK'
  BY <1>1 DEF IInv, TypeOK, Created, Good, Copy
<1>3. QED
  BY <1>1, <1>2 DEF IInv, Created, Good, Sound

\* A command that writes a good copy.
LEMMA AnotherKeeps ==
    ASSUME IInv, NEW c, Good(c), extra < MaxExtra, Another(c)
    PROVE  IInv'
<1>1. TypeOK'
  BY ConstantsAssumption DEF IInv, TypeOK, Another, Write, walk, Good, Copy
<1>2. QED
  BY <1>1 DEF IInv, Another, Write, walk, Good, Sound

LEMMA TakeKeeps ==
    ASSUME IInv, NEW c, Good(c), NEW step \in Seed \cup {"proven", "combined"}, Take(step, c)
    PROVE  IInv'
<1>1. TypeOK'
  BY DEF IInv, TypeOK, Take, Write, Good, Copy
<1>2. QED
  BY <1>1 DEF IInv, Take, Write, Good, Sound

LEMMA CopiesGood == IInv => (\A c \in copies \cup results : Good(c)) /\ Good(current)
  BY DEF IInv, TypeOK, Good, Sound, Copy

LEMMA ExtraKeeps == ASSUME IInv, Extra PROVE IInv'
<1> USE CopiesGood, AnotherKeeps
<1>1. /\ extra < MaxExtra /\ extra + 1 \in 0..MaxExtra
      /\ spends \subseteq Spend /\ bundles \subseteq Shielded
  BY ConstantsAssumption DEF IInv, TypeOK, Extra
<1>2. CASE Update
  BY <1>1, <1>2, UpdatedGood DEF Update
<1>3. CASE Prove
  BY <1>1, <1>3, ProvenGood DEF Prove
<1>4. CASE Sign
  BY <1>1, <1>4, SignedGood DEF Sign
<1>5. CASE Redact
  <2>1. PICK c \in copies : \E d \in SUBSET c : Another(d)
    BY <1>5 DEF Redact
  <2>2. PICK d \in SUBSET c : Another(d)
    BY <2>1
  <2>3. QED
    BY <1>1, <2>2, SubsetGood
<1>6. CASE Combine
  <2>1. PICK a \in copies, b \in copies : Another(a \cup b)
    BY <1>6 DEF Combine
  <2>2. Good(a \cup b)
    BY UnionGood DEF Good, Sound, Copy
  <2>3. QED
    BY <1>1, <2>1, <2>2
<1>7. QED
  BY <1>2, <1>3, <1>4, <1>5, <1>6 DEF Extra

LEMMA WalkKeeps == ASSUME IInv, Walk PROVE IInv'
<1> USE CopiesGood, TakeKeeps
<1>1. /\ 0 \in 0..MaxExtra
      /\ spends \subseteq Spend /\ bundles \subseteq Shielded
  BY ConstantsAssumption DEF IInv, TypeOK
<1>2. CASE WalkProve
  BY <1>1, <1>2, ProvenGood DEF WalkProve
<1>3. ASSUME NEW w \in Seed, WalkSign(w) PROVE IInv'
  <2>1. Good(WalkUpdate(w))
    <3>1. \A c \in {Updated(current, w, p) : p \in Pool} : Good(c)
      BY <1>1, UpdatedGood
    <3>2. QED
      BY <3>1, UnionGood DEF WalkUpdate
  <2>2. Good(Signed(WalkUpdate(w), w, 0))
    BY <1>1, <2>1, SignedGood
  <2>3. QED
    BY <1>3, <2>2 DEF WalkSign
<1>4. CASE WalkCombine
  <2>1. Take("combined", UNION results)
    BY <1>4 DEF WalkCombine
  <2>2. Good(UNION results)
    BY UnionGood DEF IInv
  <2>3. QED
    BY <2>1, <2>2
<1>5. CASE Send
  BY <1>5 DEF Send, IInv, TypeOK, Copy, walk, Sound
<1>6. QED
  BY <1>2, <1>3, <1>4, <1>5 DEF Walk

LEMMA InvariantStep == IInv /\ [Next]_vars => IInv'
<1> SUFFICES ASSUME IInv, [Next]_vars PROVE IInv'
  OBVIOUS
<1>1. CASE CreateFromProposal
  <2>1. PICK w \in Seed, S \in (SUBSET Spend) \ {{}}, B \in SUBSET Shielded :
          (\A s \in S : holders[s] = {w}) /\ Created(S, B \cup PoolsOf(S), {w})
    BY <1>1 DEF CreateFromProposal
  <2>2. B \cup PoolsOf(S) \in SUBSET Shielded
    BY DEF PoolsOf
  <2>3. QED
    BY <2>1, <2>2, CreatedKeeps
<1>2. CASE CreateManually
  BY <1>2, CreatedKeeps DEF CreateManually
<1>3. CASE Finished \/ UNCHANGED vars
  BY <1>3 DEF Finished, vars, walk, IInv, TypeOK, Sound
<1>4. QED
  BY <1>1, <1>2, <1>3, ExtraKeeps, WalkKeeps DEF Next

LEMMA PcztInvariant == Spec => []IInv
<1>1. Init => IInv
  BY ConstantsAssumption DEF Init, IInv, TypeOK, Sound
<1>2. QED
  BY <1>1, InvariantStep, PTL DEF Spec

\* The facts in every copy are facts of the transaction's spends and bundles.
THEOREM TypeCorrect == Spec => []TypeOK
<1>1. IInv => TypeOK
  BY DEF IInv
<1>2. QED
  BY <1>1, PcztInvariant, PTL

\* Whatever was created, updated, signed, redacted and combined, in any order, a
\* derivation names a wallet that has a key for the spend: signing never fails
\* because of what another command recorded.
THEOREM DerivationsTrue == Spec => []DerivationsAreTrue
<1>1. IInv => DerivationsAreTrue
  BY DEF IInv, TypeOK, DerivationsAreTrue, Signs, Sound
<1>2. QED
  BY <1>1, PcztInvariant, PTL

=============================================================================
