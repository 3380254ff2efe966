------------------------------ MODULE ScreenProofs ------------------------------
(***************************************************************************)
(* Proofs about what two screens show: the region of the wallet's tree     *)
(* that `wallet tree explore` walks (TreeWalk), and the wallet's queue     *)
(* that `sync --defrag` draws (Defrag).  Both keep an inductive invariant, *)
(* TreeInv and DefragInv; the theorems are in ToolsProofs, of the program  *)
(* that runs one of the two.                                               *)
(***************************************************************************)
EXTENDS TreeWalk, Defrag, TLAPS, WellFoundedInduction, FiniteSetTheorems

-----------------------------------------------------------------------------
(* Induction, and definitions by recursion, stated of sets and functions: the    *)
(* library's theorems of them have operators as parameters.                      *)

\* A set of numbers that is not empty has a least one.
LEMMA LeastNumber ==
    ASSUME NEW S \in SUBSET Nat, S # {} PROVE \E x \in S : \A y \in S : x <= y
<1> DEFINE Less == {ss \in Nat \X Nat : ss[1] < ss[2]}
<1>1. IsWellFoundedOn(Less, Nat)
  BY NatLessThanWellFounded DEF OpToRel
<1> HIDE DEF Less
<1>2. PICK x \in S : \A y \in S : ~(<<y, x>> \in Less)
  BY <1>1, WFMin
<1>3. \A y \in S : ~(y < x)
  BY <1>2 DEF Less
<1>4. QED
  BY <1>3

\* A set that has 0, and n + 1 whenever it has n, has every number.
LEMMA Induction ==
    ASSUME NEW S, 0 \in S, \A n \in Nat : n \in S => n + 1 \in S
    PROVE  Nat \subseteq S
<1> SUFFICES ASSUME Nat \ S # {} PROVE FALSE
  OBVIOUS
<1>1. PICK x \in Nat \ S : \A y \in Nat \ S : x <= y
  BY LeastNumber
<1>2. x # 0 /\ x - 1 \in Nat
  BY <1>1
<1>3. x - 1 \in S
  BY <1>1, <1>2
<1>4. QED
  BY <1>1, <1>2, <1>3

\* A function of n that is given by its value at 0 and by each value's successor.
Recursion(g, K, base, step) ==
    /\ g[0] = base
    /\ \A n \in 1..K : g[n] = step[n][g[n - 1]]

\* There is one, whatever the base and the step.
LEMMA RecursionExists ==
    ASSUME NEW K \in Nat, NEW S, NEW base \in S, NEW step \in [1..K -> [S -> S]]
    PROVE  \E g \in [0..K -> S] : Recursion(g, K, base, step)
<1> DEFINE G == {m \in Nat : m <= K => \E g \in [0..m -> S] : Recursion(g, m, base, step)}
<1>1. 0 \in G
  <2> DEFINE g0 == [i \in 0..0 |-> base]
  <2>1. g0 \in [0..0 -> S] /\ Recursion(g0, 0, base, step)
    BY DEF Recursion
  <2>2. QED
    BY <2>1
<1>2. ASSUME NEW n \in Nat, n \in G PROVE n + 1 \in G
  <2> SUFFICES ASSUME n + 1 <= K
               PROVE  \E g \in [0..(n + 1) -> S] : Recursion(g, n + 1, base, step)
    OBVIOUS
  <2>1. PICK g \in [0..n -> S] : Recursion(g, n, base, step)
    BY <1>2
  <2> DEFINE h == [i \in 0..(n + 1) |-> IF i = n + 1 THEN step[n + 1][g[n]] ELSE g[i]]
  <2>2. n + 1 \in 1..K /\ g[n] \in S
    BY <2>1
  <2>3. step[n + 1][g[n]] \in S
    BY <2>2
  <2>4. h \in [0..(n + 1) -> S]
    BY <2>1, <2>3
  <2>5. h[0] = base
    BY <2>1 DEF Recursion
  <2>6. ASSUME NEW i \in 1..(n + 1) PROVE h[i] = step[i][h[i - 1]]
    BY <2>1, <2>6 DEF Recursion
  <2>7. QED
    BY <2>4, <2>5, <2>6 DEF Recursion
<1>3. K \in G
  <2> HIDE DEF G
  <2>1. QED
    BY <1>1, <1>2, Induction
<1>4. QED
  BY <1>3

\* A function that obeys the recursion where its values are in S.
Obeys(f, K, S, base, step) ==
    /\ K \in Nat /\ base \in S /\ step \in [1..K -> [S -> S]]
    /\ f[0] = base
    /\ \A n \in 1..K : f[n - 1] \in S => f[n] = step[n][f[n - 1]]

\* It has all its values there.
LEMMA RecursionValues ==
    ASSUME NEW f, NEW K, NEW S, NEW base, NEW step, Obeys(f, K, S, base, step)
    PROVE  \A n \in 0..K : f[n] \in S
<1> USE DEF Obeys
<1> DEFINE G == {n \in Nat : n <= K => f[n] \in S}
<1>1. 0 \in G
  OBVIOUS
<1>2. ASSUME NEW n \in Nat, n \in G PROVE n + 1 \in G
  <2> SUFFICES ASSUME n + 1 <= K PROVE f[n + 1] \in S
    OBVIOUS
  <2>1. n + 1 \in 1..K /\ (n + 1) - 1 = n /\ f[n] \in S
    BY <1>2
  <2>2. f[n + 1] = step[n + 1][f[n]]
    BY <2>1
  <2>3. step[n + 1] \in [S -> S]
    BY <2>1
  <2>4. QED
    BY <2>1, <2>2, <2>3
<1> HIDE DEF G
<1>3. Nat \subseteq G
  BY <1>1, <1>2, Induction
<1>4. QED
  BY <1>3 DEF G

-----------------------------------------------------------------------------
(* Powers of two. *)

\* The recursion that defines Pow2 has a solution: it is one.
LEMMA Pow2Def ==
    /\ Pow2 \in [0..Top -> Nat] /\ Pow2[0] = 1
    /\ \A n \in 1..Top : Pow2[n] = 2 * Pow2[n - 1]
<1> USE TreeAssumption
<1> DEFINE step == [n \in 1..Top |-> [v \in Nat |-> 2 * v]]
           body(g) == [n \in 0..Top |-> IF n = 0 THEN 1 ELSE 2 * g[n - 1]]
<1>1. step \in [1..Top -> [Nat -> Nat]]
  OBVIOUS
<1>2. PICK g \in [0..Top -> Nat] : Recursion(g, Top, 1, step)
  BY <1>1, RecursionExists
<1>3. ASSUME NEW n \in 1..Top PROVE g[n] = 2 * g[n - 1]
  <2>1. n - 1 \in 0..Top
    OBVIOUS
  <2>2. step[n][g[n - 1]] = 2 * g[n - 1]
    BY <1>2, <2>1
  <2>3. QED
    BY <1>2, <2>2 DEF Recursion
<1>4. g = body(g)
  BY <1>2, <1>3 DEF Recursion
<1>5. Pow2 = body(Pow2)
  BY <1>4 DEF Pow2
<1>6. Pow2[0] = 1 /\ \A n \in 1..Top : Pow2[n] = 2 * Pow2[n - 1]
  BY <1>5
<1>7. Obeys(Pow2, Top, Nat, 1, step)
  BY <1>1, <1>6 DEF Obeys
<1>8. \A n \in 0..Top : Pow2[n] \in Nat
  BY <1>7, RecursionValues
<1>9. Pow2 = [n \in 0..Top |-> Pow2[n]]
  BY <1>5
<1>10. QED
  BY <1>6, <1>8, <1>9

\* A power of two is positive.
LEMMA Pow2Positive == \A n \in 0..Top : Pow2[n] \in Nat /\ Pow2[n] >= 1
<1> DEFINE G == {n \in Nat : n <= Top => Pow2[n] >= 1}
<1>1. 0 \in G
  BY Pow2Def
<1>2. ASSUME NEW n \in Nat, n \in G PROVE n + 1 \in G
  <2> SUFFICES ASSUME n + 1 <= Top PROVE Pow2[n + 1] >= 1
    OBVIOUS
  <2>1. n + 1 \in 1..Top /\ n \in 0..Top
    BY TreeAssumption
  <2>2. Pow2[n + 1] = 2 * Pow2[n] /\ Pow2[n] \in Nat
    BY <2>1, Pow2Def
  <2>3. QED
    BY <1>2, <2>1, <2>2
<1> HIDE DEF G
<1>3. Nat \subseteq G
  BY <1>1, <1>2, Induction
<1>4. QED
  BY <1>3, Pow2Def, TreeAssumption DEF G

\* The powers of two multiply as their exponents add.
LEMMA Pow2Sum ==
    \A m, n \in Nat : m + n <= Top => Pow2[m + n] = Pow2[m] * Pow2[n]
<1> USE TreeAssumption
<1> TAKE m \in Nat
<1> DEFINE G == {n \in Nat : m + n <= Top => Pow2[m + n] = Pow2[m] * Pow2[n]}
<1>1. 0 \in G
  <2> SUFFICES ASSUME m <= Top PROVE Pow2[m + 0] = Pow2[m] * Pow2[0]
    OBVIOUS
  <2>1. m \in 0..Top /\ m + 0 = m
    OBVIOUS
  <2>2. Pow2[m] \in Nat /\ Pow2[0] = 1
    BY <2>1, Pow2Def
  <2>3. QED
    BY <2>1, <2>2
<1>2. ASSUME NEW n \in Nat, n \in G PROVE n + 1 \in G
  <2> SUFFICES ASSUME m + (n + 1) <= Top PROVE Pow2[m + (n + 1)] = Pow2[m] * Pow2[n + 1]
    OBVIOUS
  <2>1. n + 1 \in 1..Top /\ m + (n + 1) \in 1..Top /\ m \in 0..Top /\ n \in 0..Top
        /\ (m + (n + 1)) - 1 = m + n /\ (n + 1) - 1 = n
    OBVIOUS
  <2>2. Pow2[m + (n + 1)] = 2 * Pow2[m + n] /\ Pow2[n + 1] = 2 * Pow2[n]
    BY <2>1, Pow2Def
  <2>3. Pow2[m + n] = Pow2[m] * Pow2[n]
    BY <1>2
  <2>4. Pow2[m] \in Nat /\ Pow2[n] \in Nat
    BY <2>1, Pow2Def
  <2>5. \A x, y \in Nat : 2 * (x * y) = x * (2 * y)
    OBVIOUS
  <2>6. QED
    BY <2>2, <2>3, <2>4, <2>5
<1> HIDE DEF G
<1>3. Nat \subseteq G
  BY <1>1, <1>2, Induction
<1>4. QED
  BY <1>3 DEF G

-----------------------------------------------------------------------------
(* Nodes. *)

LEMMA NodeParts ==
    ASSUME NEW a \in Node
    PROVE  a[1] \in 0..Top /\ a[2] \in 0..(Pow2[Top - a[1]] - 1) /\ a = <<a[1], a[2]>>
BY DEF Node

LEMMA IsNode ==
    ASSUME NEW l \in 0..Top, NEW i \in 0..(Pow2[Top - l] - 1) PROVE <<l, i>> \in Node
BY DEF Node

\* The nodes above a node are nodes; the one at the top is the root.
LEMMA NodesAbove ==
    ASSUME NEW a \in Node
    PROVE  /\ \A l \in a[1]..Top : Above(a, l) \in Node
           /\ Above(a, Top) = Root /\ Above(a, a[1]) = a
<1> USE TreeAssumption
<1>1. a[1] \in 0..Top /\ a[2] \in 0..(Pow2[Top - a[1]] - 1) /\ a = <<a[1], a[2]>>
  BY NodeParts
<1>2. ASSUME NEW l \in a[1]..Top PROVE Above(a, l)[2] \in 0..(Pow2[Top - l] - 1)
  <2>1. l - a[1] \in 0..Top /\ Top - l \in 0..Top /\ Top - a[1] \in 0..Top
        /\ (Top - l) + (l - a[1]) = Top - a[1]
    BY <1>1
  <2> DEFINE p == Pow2[Top - l]
             q == Pow2[l - a[1]]
  <2>2. p \in Nat /\ p >= 1 /\ q \in Nat /\ q >= 1 /\ Pow2[Top - a[1]] = p * q
    BY <2>1, Pow2Positive, Pow2Sum
  <2>3. a[2] \in Nat /\ a[2] < p * q
    BY <1>1, <2>2
  <2> HIDE DEF p, q
  <2>4. \A x, y, z \in Nat : y >= 1 /\ z >= 1 /\ x < y * z => x \div z \in 0..(y - 1)
    <3> SUFFICES ASSUME NEW x \in Nat, NEW y \in Nat, NEW z \in Nat, y >= 1, z >= 1, x < y * z
                 PROVE x \div z \in 0..(y - 1)
      OBVIOUS
    <3>1. x \div z \in Nat /\ z * (x \div z) <= x
      OBVIOUS
    <3>2. x \div z < y
      <4> SUFFICES ASSUME x \div z >= y PROVE FALSE
        BY <3>1
      <4> DEFINE d == x \div z
      <4>1. \A u, v \in Nat : u >= v => z * u >= z * v
        OBVIOUS
      <4>2. z * d >= z * y
        BY <3>1, <4>1
      <4>3. QED
        BY <3>1, <4>2
    <3>3. QED
      BY <3>1, <3>2
  <2>5. a[2] \div q \in 0..(p - 1)
    BY <2>2, <2>3, <2>4
  <2>6. QED
    BY <2>5 DEF Above, p, q
<1>3. ASSUME NEW l \in a[1]..Top PROVE Above(a, l) \in Node
  <2>1. l \in 0..Top /\ Above(a, l) = <<l, Above(a, l)[2]>>
    BY <1>1 DEF Above
  <2>2. QED
    BY <1>2, <2>1, IsNode
<1>4. Above(a, Top) = Root
  <2>1. Top \in a[1]..Top /\ Top - Top = 0 /\ Pow2[0] = 1
    BY <1>1, Pow2Def
  <2>2. Above(a, Top)[2] = 0
    BY <1>2, <2>1
  <2>3. QED
    BY <2>2 DEF Above, Root
<1>5. Above(a, a[1]) = a
  <2>1. a[1] - a[1] = 0 /\ Pow2[0] = 1 /\ a[2] \in Nat
    BY <1>1, Pow2Def
  <2>2. a[2] \div 1 = a[2]
    BY <2>1
  <2>3. QED
    BY <1>1, <2>1, <2>2 DEF Above
<1>6. QED
  BY <1>3, <1>4, <1>5

LEMMA RootIsNode == Root \in Node
<1>1. Top \in 0..Top /\ 0 \in 0..(Pow2[Top - Top] - 1)
  BY TreeAssumption, Pow2Def
<1>2. QED
  BY <1>1, IsNode DEF Root

LEMMA FirstLeafIsNode == <<0, 0>> \in Node
<1>1. 0 \in 0..Top /\ Top - 0 \in 0..Top
  BY TreeAssumption
<1>2. Pow2[Top - 0] \in Nat /\ Pow2[Top - 0] >= 1
  BY <1>1, Pow2Positive
<1>3. QED
  BY <1>1, <1>2, IsNode

LEMMA ChildrenAreNodes == ASSUME NEW a \in Node PROVE Children(a) \subseteq Node
<1> SUFFICES ASSUME a[1] # 0
             PROVE  <<a[1] - 1, 2 * a[2]>> \in Node /\ <<a[1] - 1, 2 * a[2] + 1>> \in Node
  BY DEF Children
<1>1. a[1] \in 0..Top /\ a[2] \in 0..(Pow2[Top - a[1]] - 1)
  BY NodeParts
<1>2. a[1] - 1 \in 0..Top /\ Top - (a[1] - 1) \in 1..Top
      /\ (Top - (a[1] - 1)) - 1 = Top - a[1] /\ Top - a[1] \in 0..Top
  BY <1>1, TreeAssumption
<1>3. Pow2[Top - (a[1] - 1)] = 2 * Pow2[Top - a[1]] /\ Pow2[Top - a[1]] \in Nat
  BY <1>2, Pow2Def
<1>4. 2 * a[2] \in 0..(Pow2[Top - (a[1] - 1)] - 1)
      /\ 2 * a[2] + 1 \in 0..(Pow2[Top - (a[1] - 1)] - 1)
  BY <1>1, <1>3
<1>5. QED
  BY <1>2, <1>4, IsNode

\* There is a closest node, going up, in every tree.
LEMMA ExistingIsThere ==
    ASSUME NEW t, t \subseteq Node, Root \in t, NEW a \in Node
    PROVE  /\ Existing(t, a) \in t
           /\ a \in t => Existing(t, a) = a
<1> USE TreeAssumption
<1>1. a[1] \in 0..Top /\ \A l \in a[1]..Top : Above(a, l)[1] = l
  BY NodeParts DEF Above
<1> DEFINE L == {l \in a[1]..Top : Above(a, l) \in t}
<1>2. L \in SUBSET Nat /\ L # {}
  BY <1>1, NodesAbove
<1>3. PICK l \in L : \A k \in L : l <= k
  BY <1>2, LeastNumber
<1> DEFINE A == {Above(a, k) : k \in a[1]..Top}
           Closest(b) == b \in t /\ \A c \in A : c \in t => b[1] <= c[1]
<1>4. Above(a, l) \in A /\ Closest(Above(a, l))
  BY <1>1, <1>3
<1>5. Existing(t, a) = CHOOSE b \in A : Closest(b)
  BY DEF Existing
<1>6. Existing(t, a) \in A /\ Closest(Existing(t, a))
  <2> HIDE DEF A, Closest
  <2>1. QED
    BY <1>4, <1>5
<1>7. ASSUME a \in t PROVE Existing(t, a) = a
  <2>1. a \in A /\ a[1] \in a[1]..Top
    BY <1>1, NodesAbove
  <2>2. Existing(t, a)[1] <= a[1]
    BY <1>6, <1>7, <2>1
  <2>3. PICK k \in a[1]..Top : Existing(t, a) = Above(a, k)
    BY <1>6
  <2>4. k = a[1]
    BY <1>1, <2>2, <2>3
  <2>5. QED
    BY <2>3, <2>4, NodesAbove
<1>8. QED
  BY <1>6, <1>7

LEMMA Halves == \A k \in Int : k % 2 \in {0, 1} /\ k = 2 * (k \div 2) + (k % 2)
OBVIOUS

-----------------------------------------------------------------------------
(* What is on the screen. *)

\* The level and the index of what is drawn at a height y, relative to the node n at
\* the centre, and its place in the row.
Placed(d, n) ==
    /\ d.node[1] \in Int /\ d.node[2] \in Int /\ d.x \in Int
    /\ d = [node |-> <<d.node[1], d.node[2]>>, x |-> d.x, y |-> d.y]
    /\ d.y \in -1..2 /\ d.node[1] = n[1] + d.y
    /\ d.y = -1 => d.x = 2 * d.node[2] - 1 - 4 * n[2]
    /\ d.y = 0 => d.x = 4 * d.node[2] - 4 * n[2]
    /\ d.y = 1 => d.x = 8 * d.node[2] + 2 - 4 * n[2]
    /\ d.y = 2 => d.x = 16 * d.node[2] + 6 - 4 * n[2]

LEMMA ChildrenPlaced ==
    ASSUME NEW t, NEW n \in Int \X Int, NEW a \in Int \X Int, a[1] = n[1],
           NEW d \in ChildrenAt(t, a, 4 * a[2] - 4 * n[2])
    PROVE  Placed(d, n) /\ d.node \in t
<1>1. PICK c \in Children(a) \cap t :
          d = At(c, IF IsLeftChild(c) THEN (4 * a[2] - 4 * n[2]) - 1
                    ELSE (4 * a[2] - 4 * n[2]) + 1, -1)
  BY DEF ChildrenAt, ChildOffset
<1>2. c = <<a[1] - 1, 2 * a[2]>> \/ c = <<a[1] - 1, 2 * a[2] + 1>>
  BY DEF Children
<1>3. c[1] = n[1] - 1 /\ c[2] \in Int /\ d.node = c /\ d.y = -1 /\ c = <<c[1], c[2]>>
      /\ d = [node |-> d.node, x |-> d.x, y |-> d.y]
  BY <1>1, <1>2 DEF At
<1>4. d.x = 2 * c[2] - 1 - 4 * n[2]
  <2>1. CASE c[2] = 2 * a[2]
    <3>1. c[2] % 2 = 0
      BY <2>1
    <3>2. QED
      BY <1>1, <2>1, <3>1 DEF At, IsLeftChild
  <2>2. CASE c[2] = 2 * a[2] + 1
    <3>1. c[2] % 2 # 0
      BY <2>2
    <3>2. QED
      BY <1>1, <2>2, <3>1 DEF At, IsLeftChild
  <2>3. QED
    BY <1>2, <2>1, <2>2
<1>5. QED
  BY <1>1, <1>3, <1>4 DEF Placed

\* A sibling s, in the row of n, is drawn four units from n for each index between.
LEMMA SiblingPlaced ==
    ASSUME NEW t, NEW n \in Int \X Int, NEW s \in Int \X Int, s[1] = n[1],
           NEW isLeft \in BOOLEAN, s[2] = IF isLeft THEN n[2] - 1 ELSE n[2] + 1,
           NEW d \in SiblingAt(t, s, isLeft)
    PROVE  Placed(d, n) /\ d.node \in t
<1> DEFINE x == IF isLeft THEN -4 ELSE 4
<1>1. s \in t /\ x = 4 * s[2] - 4 * n[2] /\ d \in {At(s, x, 0)} \cup ChildrenAt(t, s, x)
  BY DEF SiblingAt, NodeGap, ChildOffset
<1> HIDE DEF x
<1>2. CASE d = At(s, x, 0)
  <2>1. s = <<s[1], s[2]>>
    OBVIOUS
  <2>2. QED
    BY <1>1, <1>2, <2>1 DEF At, Placed
<1>3. CASE d \in ChildrenAt(t, s, x)
  BY <1>1, <1>3, ChildrenPlaced
<1>4. QED
  BY <1>1, <1>2, <1>3

\* What is above s: s is the sibling of n, or the node on the other side.
LEMMA ParentPlaced ==
    ASSUME NEW t, NEW n \in Int \X Int, NEW s \in Int \X Int, s[1] = n[1],
           NEW ofRegion \in BOOLEAN, NEW isLeft \in BOOLEAN,
           s[2] = IF isLeft THEN n[2] - 1 ELSE n[2] + 1,
           ofRegion => (isLeft <=> s[2] % 2 = 0),
           ~ofRegion => (isLeft <=> s[2] % 2 = 1),
           NEW d \in ParentAt(t, ofRegion, s, isLeft)
    PROVE  Placed(d, n) /\ d.node \in t
<1> DEFINE p == Parent(s)
           x == ParentX(ofRegion, isLeft)
<1>1. p = <<s[1] + 1, s[2] \div 2>> /\ p[1] = n[1] + 1 /\ p[2] \in Int /\ p = <<p[1], p[2]>>
  BY DEF Parent
<1>2. s[2] % 2 \in {0, 1} /\ s[2] = 2 * p[2] + (s[2] % 2)
  <2>1. s[2] % 2 \in {0, 1} /\ s[2] = 2 * (s[2] \div 2) + (s[2] % 2)
    BY Halves
  <2>2. QED
    BY <1>1, <2>1
<1>3. x = 8 * p[2] + 2 - 4 * n[2]
  <2>1. CASE ofRegion /\ isLeft
    <3>1. x = -2
      BY <2>1 DEF ParentX, NodeOffset, NodeGap, ChildOffset
    <3>2. QED
      BY <3>1, <2>1, <1>1, <1>2
  <2>2. CASE ofRegion /\ ~isLeft
    <3>1. x = 2
      BY <2>2 DEF ParentX, NodeOffset, NodeGap, ChildOffset
    <3>2. QED
      BY <3>1, <2>2, <1>1, <1>2
  <2>3. CASE ~ofRegion /\ isLeft
    <3>1. x = -6
      BY <2>3 DEF ParentX, NodeOffset, NodeGap, ParentGap, ChildOffset
    <3>2. QED
      BY <3>1, <2>3, <1>1, <1>2
  <2>4. CASE ~ofRegion /\ ~isLeft
    <3>1. x = 6
      BY <2>4 DEF ParentX, NodeOffset, NodeGap, ParentGap, ChildOffset
    <3>2. QED
      BY <3>1, <2>4, <1>1, <1>2
  <2>5. QED
    BY <2>1, <2>2, <2>3, <2>4
<1> HIDE DEF x, p
<1>4. p \in t /\ \/ d = At(p, x, 1)
                 \/ d \in SiblingAt(t, s, isLeft)
                 \/ \E g \in Fetched(t, Parent(p)) : d = At(g, GrandparentX(p, x, isLeft), 2)
  BY DEF ParentAt, x, p
<1>5. CASE d = At(p, x, 1)
  BY <1>1, <1>3, <1>4, <1>5 DEF At, Placed
<1>6. CASE d \in SiblingAt(t, s, isLeft)
  BY <1>6, SiblingPlaced
<1>7. CASE \E g \in Fetched(t, Parent(p)) : d = At(g, GrandparentX(p, x, isLeft), 2)
  <2>1. PICK g \in Fetched(t, Parent(p)) : d = At(g, GrandparentX(p, x, isLeft), 2)
    BY <1>7
  <2>2. g \in t /\ g = <<p[1] + 1, p[2] \div 2>> /\ g[1] = n[1] + 2 /\ g[2] \in Int
    BY <1>1 DEF Fetched, Parent
  <2>3. p[2] % 2 \in {0, 1} /\ p[2] = 2 * (p[2] \div 2) + (p[2] % 2)
    BY <1>1, Halves
  <2>4. GrandparentX(p, x, isLeft) = 16 * g[2] + 6 - 4 * n[2]
    <3>1. CASE p[2] % 2 = 0
      BY <1>1, <1>3, <2>2, <2>3, <3>1 DEF GrandparentX, IsLeftChild, NodeGap, ChildOffset
    <3>2. CASE p[2] % 2 = 1
      BY <1>1, <1>3, <2>2, <2>3, <3>2 DEF GrandparentX, IsLeftChild, NodeGap, ChildOffset
    <3>3. QED
      BY <2>3, <3>1, <3>2
  <2>5. g = <<g[1], g[2]>>
    BY <2>2
  <2>6. QED
    BY <2>1, <2>2, <2>4, <2>5 DEF At, Placed
<1>8. QED
  BY <1>4, <1>5, <1>6, <1>7

LEMMA RegionPlaced ==
    ASSUME NEW t, NEW n \in Node, n \in t, NEW d \in RegionOf(t, n)
    PROVE  Placed(d, n) /\ d.node \in t
<1>1. n \in Int \X Int /\ n = <<n[1], n[2]>> /\ n[2] \in Nat
  BY NodeParts, TreeAssumption
<1>2. n[2] % 2 \in {0, 1} /\ n[2] = 2 * (n[2] \div 2) + (n[2] % 2)
  BY <1>1, Halves
<1>3. CASE d = At(n, 0, 0)
  BY <1>1, <1>3 DEF At, Placed
<1>4. CASE d \in ChildrenAt(t, n, 0)
  <2>1. 0 = 4 * n[2] - 4 * n[2]
    BY <1>1
  <2>2. d \in ChildrenAt(t, n, 4 * n[2] - 4 * n[2])
    BY <1>4, <2>1
  <2>3. QED
    BY <1>1, <2>2, ChildrenPlaced
<1>5. CASE d \in ParentAt(t, TRUE, Sibling(n), ~IsLeftChild(n))
  <2> DEFINE s == Sibling(n)
             isLeft == ~IsLeftChild(n)
  <2>1. s \in Int \X Int /\ s[1] = n[1] /\ isLeft \in BOOLEAN
        /\ s[2] = IF isLeft THEN n[2] - 1 ELSE n[2] + 1
    BY <1>1 DEF Sibling, IsLeftChild
  <2>2. isLeft <=> s[2] % 2 = 0
    BY <1>1, <1>2 DEF Sibling, IsLeftChild
  <2> HIDE DEF s, isLeft
  <2>3. d \in ParentAt(t, TRUE, s, isLeft)
    BY <1>5 DEF s, isLeft
  <2>4. QED
    BY <1>1, <2>1, <2>2, <2>3, ParentPlaced
<1>6. ASSUME NEW o \in OtherSibling(n), d \in ParentAt(t, FALSE, o, IsLeftChild(n))
      PROVE  Placed(d, n) /\ d.node \in t
  <2> DEFINE isLeft == IsLeftChild(n)
  <2>1. o \in Int \X Int /\ o[1] = n[1] /\ isLeft \in BOOLEAN
        /\ o[2] = IF isLeft THEN n[2] - 1 ELSE n[2] + 1
    BY <1>1 DEF OtherSibling, IsLeftChild
  <2>2. isLeft <=> o[2] % 2 = 1
    BY <1>1, <1>2, <2>1 DEF IsLeftChild
  <2> HIDE DEF isLeft
  <2>3. d \in ParentAt(t, FALSE, o, isLeft)
    BY <1>6 DEF isLeft
  <2>4. QED
    BY <1>1, <2>1, <2>2, <2>3, ParentPlaced
<1>7. QED
  BY <1>3, <1>4, <1>5, <1>6 DEF RegionOf

\* Places that are so given tell nodes apart, and rows and their order.
LEMMA PlacedInPlace ==
    ASSUME NEW n \in Node, NEW d, NEW e, Placed(d, n), Placed(e, n)
    PROVE  /\ d.node = e.node => d = e
           /\ d.node[1] = e.node[1] => d.y = e.y /\ (d.node[2] < e.node[2] <=> d.x < e.x)
           /\ d.node[1] < e.node[1] => d.y < e.y
<1>1. n[1] \in Int /\ n[2] \in Int /\ d.y \in -1..2 /\ e.y \in -1..2
      /\ d.node[1] \in Int /\ d.node[2] \in Int /\ d.x \in Int
      /\ e.node[1] \in Int /\ e.node[2] \in Int /\ e.x \in Int
      /\ d.node[1] = n[1] + d.y /\ e.node[1] = n[1] + e.y
  BY NodeParts DEF Placed
<1>2. d.node[1] < e.node[1] => d.y < e.y
  BY <1>1
<1>3. d.node[1] = e.node[1] => d.y = e.y
  BY <1>1
<1>4. ASSUME d.y = e.y
      PROVE  /\ d.node[2] < e.node[2] <=> d.x < e.x
             /\ d.node[2] = e.node[2] => d.x = e.x
  <2>1. d.y = -1 \/ d.y = 0 \/ d.y = 1 \/ d.y = 2
    BY <1>1
  <2>2. CASE d.y = -1
    BY <1>1, <1>4, <2>2 DEF Placed
  <2>3. CASE d.y = 0
    BY <1>1, <1>4, <2>3 DEF Placed
  <2>4. CASE d.y = 1
    BY <1>1, <1>4, <2>4 DEF Placed
  <2>5. CASE d.y = 2
    BY <1>1, <1>4, <2>5 DEF Placed
  <2>6. QED
    BY <2>1, <2>2, <2>3, <2>4, <2>5
<1>5. ASSUME d.node = e.node PROVE d = e
  <2>1. d.y = e.y /\ d.x = e.x
    BY <1>3, <1>4, <1>5
  <2>2. d = [node |-> <<d.node[1], d.node[2]>>, x |-> d.x, y |-> d.y]
        /\ e = [node |-> <<e.node[1], e.node[2]>>, x |-> e.x, y |-> e.y]
    BY DEF Placed
  <2>3. QED
    BY <1>5, <2>1, <2>2
<1>6. QED
  BY <1>2, <1>3, <1>4, <1>5

-----------------------------------------------------------------------------
(* Block boundaries. *)

\* The leaves below a node are leaves of the tree.
LEMMA LeavesBelow ==
    ASSUME NEW a \in Node PROVE MaxPosition(a) + 1 \in 1..Pow2[Top]
<1>1. a[1] \in 0..Top /\ a[2] \in 0..(Pow2[Top - a[1]] - 1)
  BY NodeParts
<1>2. Top - a[1] \in 0..Top /\ (Top - a[1]) + a[1] = Top /\ Top - a[1] \in Nat /\ a[1] \in Nat
  BY <1>1, TreeAssumption
<1> DEFINE p == Pow2[Top - a[1]]
           q == Pow2[a[1]]
<1>3. p \in Nat /\ q \in Nat /\ q >= 1 /\ Pow2[Top] = p * q /\ Pow2[Top] \in Nat
  <2>1. Pow2[(Top - a[1]) + a[1]] = p * q
    BY <1>2, Pow2Sum, TreeAssumption
  <2>2. QED
    BY <1>1, <1>2, <2>1, Pow2Positive, TreeAssumption
<1>4. a[2] + 1 \in Nat /\ a[2] + 1 >= 1 /\ a[2] + 1 <= p
  BY <1>1, <1>3
<1> HIDE DEF p, q
<1>5. \A x, y, z \in Nat : x >= 1 /\ z >= 1 /\ x <= y => x * z \in 1..(y * z)
  <2> SUFFICES ASSUME NEW x \in Nat, NEW y \in Nat, NEW z \in Nat, x >= 1, z >= 1, x <= y
               PROVE  x * z >= 1 /\ x * z <= y * z /\ x * z \in Int /\ y * z \in Int
    OBVIOUS
  <2>1. x * z \in Int /\ y * z \in Int
    OBVIOUS
  <2>2. x * z >= 1 * z
    <3>1. \A u, v \in Nat : u >= v => u * z >= v * z
      OBVIOUS
    <3>2. QED
      BY <3>1
  <2>3. x * z <= y * z
    OBVIOUS
  <2>4. QED
    BY <2>1, <2>2, <2>3
<1>6. (a[2] + 1) * q \in 1..(p * q)
  BY <1>3, <1>4, <1>5
<1>7. MaxPosition(a) + 1 = (a[2] + 1) * q
  <2>1. (a[2] + 1) * q \in Int
    BY <1>6
  <2>2. QED
    BY <2>1 DEF MaxPosition, q
<1>8. QED
  BY <1>3, <1>6, <1>7

\* A boundary that is not where the 32 bits end is after the last note of its block.
LEMMA BoundaryExact ==
    ASSUME NEW a \in Node, NEW m \in BoundaryAt(a), Sizes[m[2]] # 0
    PROVE  /\ Sizes[m[2]] = MaxPosition(m[1]) + 1
           /\ \A h \in DOMAIN Sizes : h < m[2] => Sizes[h] < Sizes[m[2]]
<1> USE TreeAssumption
<1> DEFINE size == (MaxPosition(a) + 1) % Pow2[Top]
<1>1. PICK h \in DOMAIN Sizes :
          m = <<a, h>> /\ Sizes[h] = size /\ \A g \in DOMAIN Sizes : Sizes[g] = size => h <= g
  BY DEF BoundaryAt, BlockOf
<1>2. size = 0 \/ size = MaxPosition(a) + 1
  <2>1. \A x, y \in Nat : x >= 1 /\ x <= y => x % y = 0 \/ x % y = x
    <3> SUFFICES ASSUME NEW x \in Nat, NEW y \in Nat, x >= 1, x <= y
                 PROVE x % y = 0 \/ x % y = x
      OBVIOUS
    <3>1. CASE x = y
      BY <3>1
    <3>2. CASE x < y
      BY <3>2
    <3>3. QED
      BY <3>1, <3>2
  <2>2. Pow2[Top] \in Nat
    BY Pow2Def
  <2>3. QED
    BY <2>1, <2>2, LeavesBelow
<1> HIDE DEF size
<1>3. ASSUME NEW g \in DOMAIN Sizes, g < h PROVE Sizes[g] < Sizes[h]
  <2>1. Sizes[g] \in Int /\ Sizes[h] \in Int /\ Sizes[g] <= Sizes[h] /\ g \in Nat /\ h \in Nat
    BY <1>3, Pow2Def
  <2>2. Sizes[g] # size
    BY <1>1, <1>3, <2>1
  <2>3. QED
    BY <1>1, <2>1, <2>2
<1>4. QED
  BY <1>1, <1>2, <1>3

-----------------------------------------------------------------------------
(* The walk. *)

\* The type invariant; where the region is drawn; and of what the boundaries are.
TreeInv ==
    /\ TreeTypeOK
    /\ shownAt \in Node /\ \A d \in shown : Placed(d, shownAt)
    /\ \A m \in marks : m[1] \in Node /\ m \in BoundaryAt(m[1])

LEMMA LowestIsThere ==
    ASSUME NEW t, NEW n \in t PROVE Lowest(t, n) \subseteq t
<1> DEFINE below(a) == IF \E c \in Children(a) \cap t : ~IsLeftChild(c)
                       THEN Children(a) \cap t ELSE {a}
           under(s) == IF Parent(s) \notin t THEN {}
                       ELSE IF s \in t THEN below(s) ELSE {Parent(s)}
<1>1. \A a \in t : below(a) \subseteq t
  OBVIOUS
<1>2. \A s : under(s) \subseteq t
  BY <1>1
<1>3. Lowest(t, n) = below(n) \cup UNION {under(s) : s \in {Sibling(n)} \cup OtherSibling(n)}
  BY DEF Lowest
<1> HIDE DEF below, under
<1>4. QED
  BY <1>1, <1>2, <1>3

\* What a look at the tree shows.
LEMMA ShowRegionInv ==
    ASSUME TreeTypeOK, ShowRegion(LooksFrom(address))
    PROVE  /\ shownAt' \in Node
           /\ \A d \in shown' : Placed(d, shownAt') /\ d.node \in Node
           /\ \A m \in marks' : m[1] \in Node /\ m \in BoundaryAt(m[1])
           /\ marks' \subseteq Node \X DOMAIN Sizes
           /\ address \in tree => shownAt' = address
<1> DEFINE n == Existing(tree, LooksFrom(address))
<1>0. LooksFrom(address) \in Node /\ (address \in Node => LooksFrom(address) = address)
  BY FirstLeafIsNode DEF LooksFrom
<1>1. n \in tree /\ n \in Node /\ tree \subseteq Node /\ (address \in tree => n = address)
  BY <1>0, ExistingIsThere DEF TreeTypeOK, IsTree
<1>2. shownAt' = n /\ shown' = RegionOf(tree, n)
      /\ marks' = UNION {BoundaryAt(b) : b \in Lowest(tree, n)}
  BY DEF ShowRegion
<1> HIDE DEF n
<1>3. \A d \in shown' : Placed(d, n) /\ d.node \in tree
  BY <1>1, <1>2, RegionPlaced
<1>4. Lowest(tree, n) \subseteq Node
  BY <1>1, LowestIsThere
<1>5. \A b : \A m \in BoundaryAt(b) : m = <<b, m[2]>> /\ m[2] \in DOMAIN Sizes /\ m[1] = b
  BY DEF BoundaryAt, BlockOf
<1>6. \A m \in marks' : m[1] \in Node /\ m \in BoundaryAt(m[1]) /\ m \in Node \X DOMAIN Sizes
  <2> TAKE m \in marks'
  <2>1. PICK b \in Lowest(tree, n) : m \in BoundaryAt(b)
    BY <1>2
  <2>2. QED
    BY <1>4, <1>5, <2>1
<1>7. QED
  BY <1>1, <1>2, <1>3, <1>6

LEMMA InitTreeInv == InitTree \/ IdleTree => TreeInv
<1> SUFFICES ASSUME InitTree \/ IdleTree PROVE TreeInv
  OBVIOUS
<1>1. IsTree({Root})
  BY DEF IsTree
<1>2. IsTree(tree) /\ tree \subseteq Node /\ address \in Node \cup Beyond /\ shownAt \in Node
  BY <1>1, RootIsNode DEF InitTree, IdleTree
<1>3. shown = {} /\ marks = {} /\ reload = FALSE
      /\ explorer = "off" /\ changes = 0
  BY DEF InitTree, IdleTree
<1>4. TreeTypeOK
  <2>1. reload \in BOOLEAN /\ explorer \in {"off", "walking", "over"}
    BY <1>3
  <2>2. marks \subseteq Node \X DOMAIN Sizes /\ \A d \in shown : FALSE
    BY <1>3
  <2>3. changes \in 0..MaxChanges
    BY <1>3, TreeAssumption
  <2>4. QED
    BY <1>2, <2>1, <2>2, <2>3 DEF TreeTypeOK
<1>5. QED
  BY <1>2, <1>3, <1>4 DEF TreeInv

LEMMA TreeStepInv ==
    ASSUME TreeInv, [TreeStep]_treeVars PROVE TreeInv'
<1> USE TreeAssumption DEF TreeInv
<1>1. CASE UNCHANGED treeVars
  BY <1>1 DEF treeVars, TreeTypeOK, IsTree, Placed
<1>2. CASE Explore
  <2>1. TreeTypeOK'
    BY <1>2, ShowRegionInv DEF Explore, TreeTypeOK, IsTree, Placed
  <2>2. QED
    BY <1>2, <2>1, ShowRegionInv DEF Explore
<1>3. CASE Move
  BY <1>3 DEF Move, Valid, TreeTypeOK, IsTree
<1>8. CASE ExploreBeyond
  BY <1>8 DEF ExploreBeyond, TreeTypeOK, IsTree
<1>4. CASE Reload
  <2>1. TreeTypeOK'
    BY <1>4, ShowRegionInv DEF Reload, TreeTypeOK, IsTree, Placed
  <2>2. QED
    BY <1>4, <2>1, ShowRegionInv DEF Reload
<1>5. CASE Quit
  BY <1>5 DEF Quit, TreeTypeOK, IsTree
<1>6. CASE TreeChanges
  <2>1. tree' \subseteq Node
    BY <1>6, ChildrenAreNodes DEF TreeChanges, TreeTypeOK
  <2>2. TreeTypeOK'
    BY <1>6, <2>1 DEF TreeChanges, TreeTypeOK
  <2>3. QED
    BY <1>6, <2>2 DEF TreeChanges
<1>7. QED
  BY <1>1, <1>2, <1>3, <1>4, <1>5, <1>6, <1>8 DEF TreeStep

\* What the properties say, from the invariant.
LEMMA TreeInvSafe == TreeInv => DrawnInPlace /\ BoundariesExact
<1> SUFFICES ASSUME TreeInv PROVE DrawnInPlace /\ BoundariesExact
  OBVIOUS
<1>1. DrawnInPlace
  BY PlacedInPlace DEF TreeInv, DrawnInPlace
<1>2. BoundariesExact
  BY BoundaryExact DEF TreeInv, BoundariesExact
<1>3. QED
  BY <1>1, <1>2

LEMMA WalkStaysHereStep ==
    ASSUME TreeTypeOK, TreeStep, changes' = 0, address \in tree
    PROVE  address' \in tree' /\ (explorer' = "walking" /\ ~reload' => shownAt' = address')
<1>1. CASE Explore
  BY <1>1, ShowRegionInv DEF Explore
<1>2. CASE Move
  BY <1>2 DEF Move, Valid
<1>3. CASE Reload
  BY <1>3, ShowRegionInv DEF Reload
<1>4. CASE Quit
  BY <1>4 DEF Quit
<1>5. CASE TreeChanges
  BY <1>5, TreeAssumption DEF TreeChanges, TreeTypeOK
<1>6. CASE ExploreBeyond
  BY <1>6 DEF ExploreBeyond, TreeTypeOK
<1>7. QED
  BY <1>1, <1>2, <1>3, <1>4, <1>5, <1>6 DEF TreeStep

\* What Least and Greatest choose.
LEMMA LeastIs ==
    ASSUME NEW S \in SUBSET Nat, S # {}
    PROVE  Least(S) \in S /\ \A y \in S : Least(S) <= y
<1>1. PICK x \in S : \A y \in S : x <= y
  BY LeastNumber
<1>2. QED
  BY <1>1 DEF Least

LEMMA GreatestIs ==
    ASSUME NEW S \in SUBSET Nat, S # {}, NEW b \in Nat, \A y \in S : y <= b
    PROVE  Greatest(S) \in S /\ \A y \in S : y <= Greatest(S)
<1> DEFINE T == {b - y : y \in S}
<1>1. T \in SUBSET Nat /\ T # {}
  <2>1. \A y \in S : b - y \in Nat
    OBVIOUS
  <2>2. QED
    BY <2>1
<1>2. PICK z \in T : \A y \in T : z <= y
  BY <1>1, LeastNumber
<1>3. PICK x \in S : z = b - x
  BY <1>2
<1>4. \A y \in S : y <= x
  BY <1>2, <1>3
<1>5. QED
  BY <1>3, <1>4 DEF Greatest

LEMMA LeastOfTwo ==
    ASSUME NEW m \in Nat, NEW n \in Nat
    PROVE  Least({m, n}) = IF m <= n THEN m ELSE n
<1>1. {m, n} \in SUBSET Nat /\ {m, n} # {}
  OBVIOUS
<1>2. Least({m, n}) \in {m, n} /\ \A y \in {m, n} : Least({m, n}) <= y
  BY <1>1, LeastIs
<1>3. QED
  BY <1>2

-----------------------------------------------------------------------------
(* The ranges that are suggested. *)

\* A range is a run of one priority that is wanted, up to where another begins.
LEMMA RangeIsRun ==
    ASSUME NEW q \in Queue, NEW r \in Suggested(q)
    PROVE  /\ r = [start |-> r.start, end |-> r.end, priority |-> r.priority]
           /\ r.start \in Heights /\ r.end \in (r.start + 1)..(MaxTip + 1)
           /\ r.priority \in Wanted /\ q[r.start] = r.priority
           /\ \A h \in r.start..(r.end - 1) : h \in Heights /\ q[h] = r.priority
           /\ r.end <= MaxTip => q[r.end] # r.priority
           /\ r.start - 1 \in Heights => q[r.start - 1] # r.priority
<1> USE DefragAssumption
<1> DEFINE ends(s) == {h \in s..(MaxTip + 1) : h > MaxTip \/ q[h] # q[s]}
<1>1. PICK s \in Heights :
          /\ q[s] \in Wanted /\ (s - 1 \in Heights => q[s - 1] # q[s])
          /\ r = [start |-> s, end |-> Least(ends(s)), priority |-> q[s]]
  BY DEF Suggested
<1>2. s \in Nat /\ s <= MaxTip /\ MaxTip + 1 \in ends(s) /\ ends(s) \in SUBSET Nat
  BY DEF Heights
<1>3. Least(ends(s)) \in ends(s) /\ \A y \in ends(s) : Least(ends(s)) <= y
  BY <1>2, LeastIs
<1> DEFINE e == Least(ends(s))
<1>4. e \in (s + 1)..(MaxTip + 1) /\ (e <= MaxTip => q[e] # q[s])
  BY <1>2, <1>3
<1>5. \A h \in s..(e - 1) : h \in Heights /\ q[h] = q[s]
  <2> TAKE h \in s..(e - 1)
  <2>1. h \in s..(MaxTip + 1) /\ ~(h \in ends(s)) /\ h <= MaxTip
    BY <1>2, <1>3, <1>4
  <2>2. QED
    BY <2>1, <1>2 DEF Heights
<1> HIDE DEF e
<1>6. r.start = s /\ r.end = e /\ r.priority = q[s]
  BY <1>1 DEF e
<1>7. QED
  BY <1>1, <1>4, <1>5, <1>6

\* Ranges do not overlap.
LEMMA RangesApart ==
    ASSUME NEW q \in Queue, NEW r \in Suggested(q), NEW s \in Suggested(q)
    PROVE  /\ r.start = s.start => r = s
           /\ r.start < s.start => r.end <= s.start
<1> USE DefragAssumption
<1>1. r.start \in Int /\ r.end \in Int /\ s.start \in Int /\ s.end \in Int
      /\ r.start < r.end /\ s.start < s.end
  BY RangeIsRun DEF Heights
<1>2. ASSUME r.start < s.start, s.start < r.end PROVE FALSE
  <2>1. s.start \in r.start..(r.end - 1) /\ s.start - 1 \in r.start..(r.end - 1)
    BY <1>1, <1>2
  <2>2. q[s.start] = r.priority /\ q[s.start - 1] = r.priority /\ s.start - 1 \in Heights
    BY <2>1, RangeIsRun
  <2>3. QED
    BY <2>2, RangeIsRun
<1>3. ASSUME r.start = s.start PROVE r = s
  <2>1. r.priority = s.priority
    BY <1>3, RangeIsRun
  <2>2. ~(r.end < s.end)
    <3> SUFFICES ASSUME r.end < s.end PROVE FALSE
      OBVIOUS
    <3>1. r.end \in s.start..(s.end - 1) /\ r.end <= MaxTip
      BY <1>1, <1>3, RangeIsRun
    <3>2. QED
      BY <3>1, <2>1, RangeIsRun
  <2>3. ~(s.end < r.end)
    <3> SUFFICES ASSUME s.end < r.end PROVE FALSE
      OBVIOUS
    <3>1. s.end \in r.start..(r.end - 1) /\ s.end <= MaxTip
      BY <1>1, <1>3, RangeIsRun
    <3>2. QED
      BY <3>1, <2>1, RangeIsRun
  <2>4. r.end = s.end
    BY <1>1, <2>2, <2>3
  <2>5. QED
    BY <1>3, <2>1, <2>4, RangeIsRun
<1>4. QED
  BY <1>1, <1>2, <1>3

\* Every height that is wanted is in a range.
LEMMA RangesCover ==
    ASSUME NEW q \in Queue, NEW h \in Heights, q[h] \in Wanted
    PROVE  \E r \in Suggested(q) : r.start <= h /\ h < r.end
<1> USE DefragAssumption
<1> DEFINE S == {s \in Heights : s <= h /\ \A x \in s..h : q[x] = q[h]}
<1>1. h \in Nat /\ h <= MaxTip /\ Birthday <= h
  BY DEF Heights
<1>2. h \in S /\ S \in SUBSET Nat
  BY <1>1 DEF Heights
<1>3. PICK s \in S : \A y \in S : s <= y
  BY <1>2, LeastNumber
<1>4. s \in Heights /\ s <= h /\ q[s] = q[h] /\ s \in Nat /\ \A x \in s..h : q[x] = q[h]
  BY <1>1, <1>3 DEF Heights
<1>5. s - 1 \in Heights => q[s - 1] # q[s]
  <2> SUFFICES ASSUME s - 1 \in Heights, q[s - 1] = q[s] PROVE FALSE
    OBVIOUS
  <2>1. \A x \in (s - 1)..h : x = s - 1 \/ x \in s..h
    BY <1>1, <1>4
  <2>2. s - 1 \in S
    BY <1>1, <1>4, <2>1
  <2>3. QED
    BY <1>3, <1>4, <2>2
<1> DEFINE ends == {x \in s..(MaxTip + 1) : x > MaxTip \/ q[x] # q[s]}
           r == [start |-> s, end |-> Least(ends), priority |-> q[s]]
<1>6. r \in Suggested(q)
  BY <1>4, <1>5 DEF Suggested
<1>7. ends \in SUBSET Nat /\ MaxTip + 1 \in ends
  BY <1>1, <1>4
<1>8. Least(ends) \in ends
  BY <1>7, LeastIs
<1>9. Least(ends) > h
  BY <1>1, <1>4, <1>8
<1>10. QED
  BY <1>4, <1>6, <1>9

-----------------------------------------------------------------------------
(* The entries that are kept of them. *)

Ending(r, m) == Least({r.end, m})
Writers(R, m, h) == {r \in R : h \in {r.start, Ending(r, m)}}
LastOf(W) == CHOOSE r \in W : \A s \in W \ {r} : After(r, s)
Ends(R, m) == {r.start : r \in R} \cup {Ending(r, m) : r \in R}

LEMMA CollectedIs ==
    ASSUME NEW R, NEW m
    PROVE  Collected(R, m) =
              [h \in Ends(R, m) |-> IF h = Ending(LastOf(Writers(R, m, h)), m) THEN Scanned
                                    ELSE LastOf(Writers(R, m, h)).priority]
BY DEF Collected, Ends, Ending, Writers, LastOf

LEMMA EndingIs ==
    ASSUME NEW q \in Queue, NEW r \in Suggested(q), NEW m \in Nat
    PROVE  /\ Ending(r, m) \in Nat
           /\ r.end <= m => Ending(r, m) = r.end
           /\ r.end > m => Ending(r, m) = m
<1>1. r.end \in Nat
  BY RangeIsRun, DefragAssumption DEF Heights
<1>2. QED
  BY <1>1, LeastOfTwo DEF Ending

\* Of ranges, the one that is written last begins last.
LEMMA LastOfIs ==
    ASSUME NEW q \in Queue, NEW W, W \subseteq Suggested(q), W # {}
    PROVE  LastOf(W) \in W /\ \A s \in W \ {LastOf(W)} : s.start < LastOf(W).start
<1> USE DefragAssumption
<1> DEFINE S == {r.start : r \in W}
<1>1. \A r \in W : r.start \in Nat /\ r.start <= MaxTip
  BY RangeIsRun DEF Heights
<1>2. S \in SUBSET Nat /\ S # {} /\ \A y \in S : y <= MaxTip
  BY <1>1
<1>3. Greatest(S) \in S /\ \A y \in S : y <= Greatest(S)
  BY <1>2, GreatestIs
<1>4. PICK r \in W : r.start = Greatest(S)
  BY <1>3
<1>5. \A s \in W \ {r} : After(r, s)
  <2> TAKE s \in W \ {r}
  <2>1. s.start \in S /\ s.start # r.start
    BY RangesApart
  <2>2. s.start \in Nat /\ r.start \in Nat /\ s.start <= r.start
    BY <1>1, <1>3, <1>4, <2>1
  <2>3. QED
    BY <2>1, <2>2 DEF After
<1> HIDE DEF S
<1>6. LastOf(W) \in W /\ \A s \in W \ {LastOf(W)} : After(LastOf(W), s)
  BY <1>5 DEF LastOf
<1>7. QED
  BY <1>1, <1>6 DEF After

\* Where the entries are, and of what priorities.
LEMMA ScanEntriesType ==
    ASSUME NEW q \in Queue, NEW t \in (Birthday - 1)..MaxTip
    PROVE  LET E == ScanEntries(Suggested(q), t) IN
           /\ DOMAIN E = Ends(Suggested(q), t + 1) \cup {Birthday, t + 1}
           /\ DOMAIN E \subseteq Birthday..(MaxTip + 1)
           /\ \A h \in DOMAIN E : E[h] \in Wanted \cup {Ignored, Scanned}
<1> USE DefragAssumption
<1> DEFINE R == Suggested(q)
           m == t + 1
           E == ScanEntries(R, t)
<1>1. m \in Nat /\ m \in Birthday..(MaxTip + 1) /\ Birthday \in Birthday..(MaxTip + 1)
  OBVIOUS
<1>2. DOMAIN Collected(R, m) = Ends(R, m)
  BY CollectedIs
<1>3. /\ DOMAIN E = Ends(R, m) \cup {Birthday, m}
      /\ \A h \in DOMAIN E : E[h] = IF h = m THEN Ignored
                                    ELSE IF h \in Ends(R, m) THEN Collected(R, m)[h] ELSE Scanned
  BY <1>2 DEF ScanEntries
<1>4. Ends(R, m) \subseteq Birthday..(MaxTip + 1)
  <2>1. \A r \in R : r.start \in Birthday..MaxTip /\ r.end \in Birthday..(MaxTip + 1)
    BY RangeIsRun DEF Heights
  <2>2. \A r \in R : Ending(r, m) \in {r.end, m}
    BY <1>1, <2>1, EndingIs
  <2> HIDE DEF R, m
  <2>3. QED
    BY <1>1, <2>1, <2>2 DEF Ends
<1>5. \A h \in Ends(R, m) : Collected(R, m)[h] \in Wanted \cup {Scanned}
  <2> TAKE h \in Ends(R, m)
  <2>1. Writers(R, m, h) \subseteq R /\ Writers(R, m, h) # {}
    BY DEF Writers, Ends
  <2>2. LastOf(Writers(R, m, h)) \in R
    BY <2>1, LastOfIs
  <2>3. LastOf(Writers(R, m, h)).priority \in Wanted
    BY <2>2, RangeIsRun
  <2>4. Collected(R, m)[h] \in {Scanned, LastOf(Writers(R, m, h)).priority}
    BY CollectedIs
  <2>5. QED
    BY <2>3, <2>4
<1> HIDE DEF R, m, E
<1>6. /\ DOMAIN E = Ends(R, m) \cup {Birthday, m}
      /\ DOMAIN E \subseteq Birthday..(MaxTip + 1)
      /\ \A h \in DOMAIN E : E[h] \in Wanted \cup {Ignored, Scanned}
  BY <1>1, <1>3, <1>4, <1>5
<1>7. QED
  BY <1>6 DEF E, m, R

\* The entry at or before a height has the priority that the queue gives the height.
LEMMA EntriesSay ==
    ASSUME NEW q \in Queue, NEW t \in (Birthday - 1)..MaxTip, NEW h \in Birthday..t
    PROVE  LET E == ScanEntries(Suggested(q), t)
           IN E[Greatest({k \in DOMAIN E : k <= h})] = q[h]
<1> USE DefragAssumption
<1> DEFINE R == Suggested(q)
           m == t + 1
           E == ScanEntries(R, t)
           K == {k \in DOMAIN E : k <= h}
           k == Greatest(K)
           W == Writers(R, m, k)
<1>1. m \in Nat /\ h \in Nat /\ h < m /\ h \in Heights
  BY DEF Heights
<1>2. DOMAIN E = Ends(R, m) \cup {Birthday, m} /\ DOMAIN E \subseteq Birthday..(MaxTip + 1)
  BY ScanEntriesType
<1>3. K \in SUBSET Nat /\ K # {} /\ \A y \in K : y <= h
  BY <1>2
<1>4. k \in K /\ \A y \in K : y <= k
  BY <1>1, <1>3, GreatestIs
<1>5. k \in Nat /\ k <= h /\ k # m /\ k \in DOMAIN E
  BY <1>1, <1>3, <1>4
<1>6. E[k] = IF k \in Ends(R, m) THEN Collected(R, m)[k] ELSE Scanned
  <2>1. DOMAIN Collected(R, m) = Ends(R, m)
    BY CollectedIs
  <2>2. \A x \in DOMAIN E : E[x] = IF x = m THEN Ignored
                                   ELSE IF x \in Ends(R, m) THEN Collected(R, m)[x] ELSE Scanned
    BY <2>1 DEF ScanEntries
  <2> HIDE DEF E, k, R, m
  <2>3. QED
    BY <1>5, <2>2
<1>7. k \in Ends(R, m) =>
         Collected(R, m)[k] = IF k = Ending(LastOf(W), m) THEN Scanned ELSE LastOf(W).priority
  BY CollectedIs
<1>8. \A r \in R : /\ r.start \in Nat /\ r.end \in Nat /\ r.start < r.end
                   /\ Ending(r, m) \in Nat /\ (r.end <= m => Ending(r, m) = r.end)
                   /\ (r.end > m => Ending(r, m) = m)
  BY <1>1, RangeIsRun, EndingIs DEF Heights
<1>9. \A r \in R : r.start \in Ends(R, m) /\ Ending(r, m) \in Ends(R, m)
  BY DEF Ends
<1>10. \A r, s \in R : (r.start = s.start => r = s) /\ (r.start < s.start => r.end <= s.start)
  BY RangesApart
<1>11. k \in Ends(R, m) => W # {}
  BY DEF Writers, Ends
<1>12. W # {} => LastOf(W) \in W /\ \A s \in W \ {LastOf(W)} : s.start < LastOf(W).start
  BY LastOfIs DEF Writers
<1>13. \A r : r \in W <=> r \in R /\ (k = r.start \/ k = Ending(r, m))
  BY DEF Writers
<1>14. q[h] \in Wanted \cup {Scanned}
  BY <1>1 DEF Queue
<1>15. ASSUME NEW r \in R, r.start <= h, h < r.end PROVE q[h] = r.priority
  <2>1. h \in r.start..(r.end - 1)
    BY <1>1, <1>8, <1>15
  <2>2. QED
    BY <2>1, RangeIsRun
<1>16. \A r \in R : r.start <= h => r.start \in K
  BY <1>2, <1>9
<1>17. \A r \in R : r.end <= h => r.end \in K
  BY <1>1, <1>2, <1>8, <1>9
<1>18. CASE q[h] \in Wanted
  <2>1. PICK r \in R : r.start <= h /\ h < r.end
    BY <1>1, <1>18, RangesCover
  <2>2. r.start <= k
    BY <1>4, <1>16, <2>1
  <2>3. k \in Ends(R, m)
    <3>1. CASE k = Birthday
      <4>1. r.start = Birthday
        BY <2>2, <3>1, RangeIsRun DEF Heights
      <4>2. QED
        BY <1>9, <3>1, <4>1
    <3>2. QED
      BY <1>2, <1>5, <3>1
  <2> HIDE DEF k, W, E, K, R
  <2>4. ASSUME NEW s \in W, s # r PROVE s.start < r.start /\ k = r.start
    <3>1. s \in R /\ (k = s.start \/ k = Ending(s, m))
      BY <1>13
    <3>2. s.start # r.start /\ (s.start < r.start => s.end <= r.start)
          /\ (r.start < s.start => r.end <= s.start)
      BY <1>10, <2>4, <3>1
    <3>3. ~(r.start < s.start)
      BY <1>5, <1>8, <1>1, <2>1, <3>1, <3>2
    <3>4. s.start < r.start
      BY <1>8, <3>1, <3>2, <3>3
    <3>5. k = r.start
      BY <1>5, <1>1, <1>8, <2>1, <2>2, <3>1, <3>2, <3>4
    <3>6. QED
      BY <3>4, <3>5
  <2>5. k = r.start
    <3>1. PICK s \in W : TRUE
      BY <1>11, <2>3
    <3>2. CASE s = r
      BY <1>1, <1>5, <1>8, <1>13, <2>1, <3>2
    <3>3. QED
      BY <2>4, <3>2
  <2>6. r \in W
    BY <1>13, <2>5
  <2>7. LastOf(W) = r
    <3>1. LastOf(W) \in W /\ \A s \in W \ {LastOf(W)} : s.start < LastOf(W).start
      BY <1>12, <2>6
    <3>2. SUFFICES ASSUME LastOf(W) # r PROVE FALSE
      OBVIOUS
    <3>3. LastOf(W).start < r.start /\ r.start < LastOf(W).start
      BY <2>4, <2>6, <3>1, <3>2
    <3>4. LastOf(W) \in R
      BY <1>13, <3>1
    <3>5. QED
      BY <1>8, <3>3, <3>4
  <2>8. k # Ending(r, m)
    BY <1>1, <1>5, <1>8, <2>1, <2>5
  <2>9. q[h] = r.priority
    BY <1>15, <2>1
  <2>10. E[k] = q[h]
    BY <1>6, <1>7, <2>3, <2>7, <2>8, <2>9
  <2>11. QED
    BY <2>10 DEF E, k, K, R
<1>19. CASE q[h] = Scanned
  <2>1. Scanned \notin Wanted
    BY DEF Scanned
  <2>2. \A r \in R : k # r.start
    <3> SUFFICES ASSUME NEW r \in R, k = r.start PROVE FALSE
      OBVIOUS
    <3>1. h >= r.end
      <4> SUFFICES ASSUME h < r.end PROVE FALSE
        BY <1>1, <1>8
      <4>1. q[h] = r.priority
        BY <1>5, <1>15
      <4>2. QED
        BY <1>19, <2>1, <4>1, RangeIsRun
    <3>2. r.end <= k
      BY <1>4, <1>17, <3>1
    <3>3. QED
      BY <1>8, <3>2
  <2>3. \A r \in W : k = Ending(r, m)
    BY <1>13, <2>2
  <2> HIDE DEF k, W, E, K, R
  <2>4. E[k] = q[h]
    BY <1>6, <1>7, <1>11, <1>12, <1>19, <2>3
  <2>5. QED
    BY <2>4 DEF E, k, K, R
<1>20. QED
  BY <1>14, <1>18, <1>19

-----------------------------------------------------------------------------
(* The cells. *)

\* The quotient is the one number whose multiple a number is at, or not far after.
LEMMA Quotient ==
    ASSUME NEW d \in Nat, NEW b \in Nat, b >= 1
    PROVE  /\ d \div b \in Nat /\ b * (d \div b) <= d /\ d < b * (d \div b) + b
           /\ d = b * (d \div b) + (d % b) /\ d % b \in 0..(b - 1)
           /\ \A j \in Nat : b * j <= d /\ d < b * j + b => j = d \div b
<1> DEFINE e == d \div b
<1>1. e \in Nat /\ d % b \in 0..(b - 1) /\ d = b * e + (d % b)
  OBVIOUS
<1>2. b * e \in Nat
  BY <1>1
<1>3. b * e <= d /\ d < b * e + b
  BY <1>1, <1>2
<1> HIDE DEF e
<1>4. ASSUME NEW i \in Nat, NEW j \in Nat, i < j PROVE b * i + b <= b * j
  <2>1. \A x, y \in Nat : x <= y => b * x <= b * y
    OBVIOUS
  <2>2. b * (i + 1) = b * i + b /\ b * i \in Nat /\ b * j \in Nat
    OBVIOUS
  <2>3. QED
    BY <1>4, <2>1, <2>2
<1>5. ASSUME NEW j \in Nat, b * j <= d, d < b * j + b PROVE j = e
  <2>1. b * j \in Nat
    OBVIOUS
  <2>2. ~(j < e)
    BY <1>1, <1>2, <1>3, <1>4, <1>5, <2>1
  <2>3. ~(e < j)
    BY <1>1, <1>2, <1>3, <1>4, <1>5, <2>1
  <2>4. QED
    BY <1>1, <2>2, <2>3
<1>6. QED
  BY <1>1, <1>3, <1>5 DEF e

\* A quotient that is rounded up is enough.
LEMMA RoundedEnough ==
    ASSUME NEW n \in Nat, NEW d \in Nat, n >= 1, d >= 1
    PROVE  Rounded(n, d) \in Nat /\ Rounded(n, d) >= 1 /\ n <= d * Rounded(n, d)
<1>1. n + d - 1 \in Nat /\ n + d - 1 >= d
  OBVIOUS
<1> DEFINE e == (n + d - 1) \div d
<1>2. e \in Nat /\ n + d - 1 < d * e + d
  BY <1>1, Quotient
<1>3. d * e \in Nat
  BY <1>2
<1> HIDE DEF e
<1>4. n <= d * e
  BY <1>2, <1>3
<1>5. e # 0
  BY <1>2, <1>1
<1>6. QED
  BY <1>2, <1>4, <1>5 DEF Rounded, e

\* Every height before the last entry is in one cell.
LEMMA OneCell ==
    ASSUME DefragTypeOK, NEW last \in Nat, last = Greatest(DOMAIN entries),
           NEW h \in Nat, Birthday <= h, h < last
    PROVE  \E e \in Cells : {c \in Cells : h \in CellOf(c)} = {e}
<1> USE DefragAssumption
<1> DEFINE w == area[1]
           v == area[2]
           b == BlocksPerCell
           d == h - Birthday
           j == d \div b
           e == <<j % w, j \div w>>
<1>1. w \in Nat /\ w >= 1 /\ v \in Nat /\ v >= 1
  BY DEF DefragTypeOK
<1>2. w * v \in Nat /\ w * v >= 1
  <2>1. \A x, y \in Nat : x >= 1 /\ y >= 1 => x * y \in Nat /\ x * y >= 1
    OBVIOUS
  <2>2. QED
    BY <1>1, <2>1
<1>3. last - Birthday \in Nat /\ last - Birthday >= 1 /\ d \in Nat /\ d < last - Birthday
      /\ Birthday \in Nat /\ last > Birthday
  OBVIOUS
<1>4. b = Rounded(last - Birthday, w * v)
  BY <1>3 DEF BlocksPerCell
<1>5. b \in Nat /\ b >= 1 /\ d < (w * v) * b
  <2>1. b \in Nat /\ b >= 1 /\ last - Birthday <= (w * v) * b
    BY <1>2, <1>3, <1>4, RoundedEnough
  <2>2. (w * v) * b \in Nat
    BY <1>2, <2>1
  <2> HIDE DEF b, d
  <2>3. QED
    BY <1>3, <2>1, <2>2
<1> HIDE DEF b, d
<1>6. j \in Nat /\ b * j <= d /\ d < b * j + b
      /\ \A i \in Nat : b * i <= d /\ d < b * i + b => i = j
  BY <1>3, <1>5, Quotient
<1>7. j < w * v
  <2> SUFFICES ASSUME j >= w * v PROVE FALSE
    BY <1>2, <1>6
  <2> HIDE DEF j
  <2>1. \A x, y, z \in Nat : x >= y => z * x >= y * z
    OBVIOUS
  <2>2. b * j >= (w * v) * b
    BY <1>2, <1>5, <1>6, <2>1
  <2>3. b * j \in Nat /\ (w * v) * b \in Nat
    BY <1>2, <1>5, <1>6
  <2>4. QED
    BY <1>3, <1>5, <1>6, <2>2, <2>3
<1> HIDE DEF j
<1>8. j \div w \in Nat /\ j = w * (j \div w) + (j % w) /\ j % w \in 0..(w - 1)
      /\ \A y \in Nat : w * y <= j /\ j < w * y + w => y = j \div w
  BY <1>1, <1>6, Quotient
<1>9. j \div w < v
  <2> DEFINE y == j \div w
  <2> SUFFICES ASSUME y >= v PROVE FALSE
    BY <1>1, <1>8
  <2>1. y \in Nat /\ w * y <= j
    <3>1. w * y \in Int
      BY <1>1, <1>8
    <3>2. QED
      BY <1>1, <1>8, <3>1
  <2> HIDE DEF y
  <2>2. w * y >= w * v
    <3>1. \A x, z \in Nat : x >= z => w * x >= w * z
      BY <1>1
    <3>2. QED
      BY <1>1, <2>1, <3>1
  <2>3. w * y \in Nat /\ w * v \in Nat
    BY <1>1, <1>2, <2>1
  <2>4. QED
    BY <1>6, <1>7, <2>1, <2>2, <2>3
<1>10. e \in Cells
  BY <1>1, <1>8, <1>9 DEF Cells
<1>11. ASSUME NEW c \in Cells
       PROVE  /\ c[1] \in Nat /\ c[2] \in Nat /\ c[1] < w /\ c = <<c[1], c[2]>>
              /\ h \in CellOf(c) <=> j = w * c[2] + c[1]
  <2>1. c[1] \in Nat /\ c[2] \in Nat /\ c[1] < w /\ c = <<c[1], c[2]>>
    BY <1>1 DEF Cells
  <2> DEFINE i == w * c[2] + c[1]
  <2>2. i \in Nat
    BY <1>1, <2>1
  <2>3. \A p, q, r, s \in Nat : p * q * r + p * s = p * (q * r + s)
    OBVIOUS
  <2>4. b * w * c[2] + b * c[1] = b * i
    BY <1>1, <1>5, <2>1, <2>3
  <2>5. b * w * c[2] \in Nat /\ b * c[1] \in Nat /\ b * i \in Nat
    <3>1. \A p, q, r \in Nat : p * q * r \in Nat /\ p * q \in Nat
      OBVIOUS
    <3>2. QED
      BY <1>1, <1>5, <2>1, <2>2, <3>1
  <2> HIDE DEF i
  <2>6. CellStart(c) = Birthday + b * i
    BY <1>3, <2>4, <2>5 DEF CellStart, b
  <2>7. h \in CellOf(c) <=> b * i <= d /\ d < b * i + b
    BY <1>3, <1>5, <2>5, <2>6 DEF CellOf, b, d
  <2>8. h \in CellOf(c) <=> j = i
    BY <1>6, <2>2, <2>7
  <2>9. QED
    BY <2>1, <2>8 DEF i
<1>12. h \in CellOf(e)
  BY <1>8, <1>10, <1>11
<1>13. ASSUME NEW c \in Cells, h \in CellOf(c) PROVE c = e
  <2>1. c[1] \in Nat /\ c[2] \in Nat /\ c[1] < w /\ c = <<c[1], c[2]>> /\ j = w * c[2] + c[1]
    BY <1>11, <1>13
  <2>2. w * c[2] \in Nat
    BY <1>1, <2>1
  <2>3. w * c[2] <= j /\ j < w * c[2] + w
    BY <1>1, <2>1, <2>2
  <2>4. c[2] = j \div w
    BY <1>8, <2>1, <2>3
  <2>5. c[1] = j % w
    <3>1. j % w \in Nat
      BY <1>1, <1>8
    <3>2. QED
      BY <1>8, <2>1, <2>2, <2>4, <3>1
  <2>6. QED
    BY <2>1, <2>4, <2>5
<1>14. QED
  BY <1>10, <1>12, <1>13

-----------------------------------------------------------------------------
(* What the reports leave. *)

DefragInv ==
    /\ DefragTypeOK
    /\ viewer # "nothing" => entries = ScanEntries(Suggested(queue), tip)

LEMMA InitDefragInv == InitDefrag \/ IdleDefrag => DefragInv
<1> SUFFICES ASSUME InitDefrag \/ IdleDefrag PROVE DefragInv
  OBVIOUS
<1> USE DefragAssumption
<1>1. area \in Areas \cup {<<1, 1>>} /\ NothingShown
  BY DEF InitDefrag, IdleDefrag
<1>2. queue \in Queue /\ tip \in (Birthday - 1)..MaxTip
  BY <1>1 DEF NothingShown, Queue
<1>3. DOMAIN entries = {} /\ viewer = "nothing" /\ fetching = {} /\ fetched = {} /\ scanning = {}
  BY <1>1 DEF NothingShown
<1>4. QED
  BY <1>1, <1>2, <1>3 DEF DefragInv, DefragTypeOK

\* A new queue is reported.
LEMMA NewEntries ==
    ASSUME queue' \in Queue, tip' \in (Birthday - 1)..MaxTip,
           entries' = ScanEntries(Suggested(queue'), tip')
    PROVE  /\ DOMAIN entries' \subseteq Birthday..(MaxTip + 1)
           /\ \A h \in DOMAIN entries' : entries'[h] \in Wanted \cup {Ignored, Scanned}
BY ScanEntriesType

LEMMA DefragStepInv ==
    ASSUME DefragInv, [DefragStep]_defragVars PROVE DefragInv'
<1> USE DefragAssumption DEF DefragInv
<1>1. CASE UNCHANGED defragVars
  BY <1>1 DEF defragVars, DefragTypeOK
<1>2. CASE ReportRanges
  <2>1. DefragTypeOK'
    BY <1>2, NewEntries DEF ReportRanges, DefragTypeOK
  <2>2. QED
    BY <1>2, <2>1 DEF ReportRanges
<1>3. CASE ReportFetching
  <2>1. PICK r \in Suggested(queue) : \E last \in Blocks(r) : fetching' = r.start..last
    BY <1>3 DEF ReportFetching
  <2>2. \A h \in r.start..(r.end - 1) : h \in Heights
    BY RangeIsRun DEF DefragTypeOK
  <2>3. r.start \in Int /\ r.end \in Int
    BY RangeIsRun DEF DefragTypeOK, Heights
  <2>4. fetching' \subseteq Heights
    BY <2>1, <2>2, <2>3 DEF Blocks
  <2>5. QED
    BY <1>3, <2>4 DEF ReportFetching, DefragTypeOK
<1>4. CASE ReportFetched
  <2>1. fetching \in SUBSET Nat /\ fetching # {} /\ fetching \subseteq Heights
    BY <1>4 DEF ReportFetched, DefragTypeOK, Heights
  <2>2. Least(fetching) \in Heights
    BY <2>1, LeastIs
  <2>3. fetching' \subseteq Heights /\ fetched' \subseteq Heights
    BY <1>4, <2>1, <2>2 DEF ReportFetched, DefragTypeOK
  <2>4. QED
    BY <1>4, <2>3 DEF ReportFetched, DefragTypeOK
<1>5. CASE ReportScanning
  BY <1>5 DEF ReportScanning, DefragTypeOK
<1>6. CASE ReportScanned
  <2>1. queue' \in Queue
    BY <1>6 DEF ReportScanned, DefragTypeOK, Queue
  <2>2. tip' = tip /\ viewer' = "ranges" /\ entries' = ScanEntries(Suggested(queue'), tip')
    BY <1>6 DEF ReportScanned
  <2>3. DefragTypeOK'
    BY <1>6, <2>1, <2>2, NewEntries DEF ReportScanned, DefragTypeOK
  <2>4. QED
    BY <2>2, <2>3
<1>7. CASE ReportRewound
  <2>1. queue' \in Queue /\ tip' \in (Birthday - 1)..MaxTip
    BY <1>7 DEF ReportRewound, DefragTypeOK, Queue
  <2>2. DefragTypeOK'
    BY <1>7, <2>1, NewEntries DEF ReportRewound, DefragTypeOK
  <2>3. QED
    BY <1>7, <2>2 DEF ReportRewound
<1>8. QED
  BY <1>1, <1>2, <1>3, <1>4, <1>5, <1>6, <1>7 DEF DefragStep

\* What the properties say, from the invariant.
LEMMA DefragInvQueue == DefragInv => EntriesAreQueue
BY EntriesSay DEF DefragInv, DefragTypeOK, EntriesAreQueue

LEMMA DefragInvShown == DefragInv => RangesAreShown
<1> SUFFICES ASSUME DefragInv, viewer # "nothing" PROVE RangesAreShown
  BY DEF RangesAreShown
<1> USE DefragAssumption
<1>1. queue \in Queue /\ tip \in (Birthday - 1)..MaxTip /\ DefragTypeOK
      /\ entries = ScanEntries(Suggested(queue), tip)
  BY DEF DefragInv, DefragTypeOK
<1>2. /\ DOMAIN entries = Ends(Suggested(queue), tip + 1) \cup {Birthday, tip + 1}
      /\ DOMAIN entries \subseteq Birthday..(MaxTip + 1)
      /\ \A h \in DOMAIN entries : entries[h] \in Wanted \cup {Ignored, Scanned}
  BY <1>1, ScanEntriesType
<1>3. ASSUME NEW h \in Birthday..tip
      PROVE  Cardinality({c \in Cells : h \in CellOf(c)}) = 1
  <2> DEFINE last == Greatest(DOMAIN entries)
  <2>1. DOMAIN entries \in SUBSET Nat /\ DOMAIN entries # {} 
        /\ MaxTip + 1 \in Nat /\ \A y \in DOMAIN entries : y <= MaxTip + 1
    BY <1>2
  <2>2. last \in DOMAIN entries /\ \A y \in DOMAIN entries : y <= last
    BY <2>1, GreatestIs
  <2>3. last \in Nat /\ tip + 1 <= last
    BY <1>2, <2>1, <2>2
  <2> HIDE DEF last
  <2>4. h \in Nat /\ Birthday <= h /\ h < last
    BY <1>1, <2>3
  <2>5. PICK e \in Cells : {c \in Cells : h \in CellOf(c)} = {e}
    BY <1>1, <2>3, <2>4, OneCell DEF last
  <2>6. QED
    BY <2>5, FS_Singleton
<1>4. ASSUME NEW r \in Suggested(queue), NEW c \in Cells, r.start <= tip, r.start \in CellOf(c)
      PROVE  CellPriority(c) >= r.priority
  <2> DEFINE inside == DOMAIN entries \cap CellOf(c)
             P == {entries[h] : h \in inside}
             K == {k \in DOMAIN entries : k <= r.start}
  <2>1. r.start \in Heights /\ r.start \in Birthday..tip /\ queue[r.start] = r.priority
    BY <1>1, <1>4, RangeIsRun DEF Heights
  <2>2. r.start \in inside
    BY <1>2, <1>4 DEF Ends
  <2>3. r.start = Greatest(K)
    <3>1. K \in SUBSET Nat /\ r.start \in K /\ r.start \in Nat /\ \A y \in K : y <= r.start
      BY <1>2, <2>1, <2>2
    <3>2. Greatest(K) \in K /\ \A y \in K : y <= Greatest(K)
      BY <3>1, GreatestIs
    <3>3. QED
      BY <3>1, <3>2
  <2>4. entries[r.start] = r.priority
    BY <1>1, <2>1, <2>3, EntriesSay
  <2>5. P \in SUBSET Nat /\ P # {} /\ \A y \in P : y <= 6
    <3>1. \A x \in Wanted \cup {Ignored, Scanned} : x \in Nat /\ x <= 6
      BY DEF Ignored, Scanned
    <3>2. inside \subseteq DOMAIN entries
      OBVIOUS
    <3> HIDE DEF inside
    <3>3. QED
      BY <1>2, <2>2, <3>1, <3>2
  <2>6. Greatest(P) \in P /\ \A y \in P : y <= Greatest(P)
    BY <2>5, GreatestIs
  <2>7. r.priority <= Greatest(P)
    BY <2>2, <2>4, <2>6
  <2>8. CellPriority(c) = Greatest(P)
    BY <2>2 DEF CellPriority
  <2>9. Greatest(P) \in Nat /\ r.priority \in Nat
    BY <2>2, <2>4, <2>5, <2>6
  <2>10. QED
    BY <2>7, <2>8, <2>9
<1>5. QED
  BY <1>3, <1>4 DEF RangesAreShown
=============================================================================
