-------------------------------- MODULE TreeWalk --------------------------------
(***************************************************************************)
(* `wallet tree explore` (src/commands/wallet/tree/explore.rs): the user   *)
(* walks through a pool's note commitment tree and is shown the region     *)
(* around the node he is at.  Every look at the tree is a transaction of   *)
(* its own on the wallet database, and a sync in another process may       *)
(* extend or prune the tree between two of them.                           *)
(*                                                                         *)
(* A node is a level and an index.  The nodes above Shard are in the cap,  *)
(* the others in shards; the code has Shard = 16 and Top = 32.             *)
(***************************************************************************)
EXTENDS Integers, FiniteSets

CONSTANTS
    Top, Shard,
    Sizes,       \* [block height -> size of the tree at its end], as scanned
    MaxChanges   \* bound: changes of the tree by other processes

\* 2^n: the number of nodes n levels below a node.
Pow2[n \in 0..Top] == IF n = 0 THEN 1 ELSE 2 * Pow2[n - 1]

\* No block takes a note out of the tree.
ASSUME TreeAssumption ==
    /\ Shard \in Nat /\ Top \in Nat /\ Shard < Top /\ MaxChanges \in Nat
    /\ DOMAIN Sizes \subseteq Nat
    /\ \A h \in DOMAIN Sizes : Sizes[h] \in 0..Pow2[Top]
    /\ \A g, h \in DOMAIN Sizes : g < h => Sizes[g] <= Sizes[h]

VARIABLES
    tree,      \* the nodes that are in the wallet's tree
    address,   \* where the user is
    shown,     \* the region on the screen: where each of its nodes is drawn
    shownAt,   \* the node in its middle
    marks,     \* the block boundaries in it
    reload,    \* whether the user has moved and the region is not yet read
    explorer,  \* "off", "walking" or "over"
    changes

treeVars == <<tree, address, shown, shownAt, marks, reload, explorer, changes>>

Node == UNION {{l} \X (0..(Pow2[Top - l] - 1)) : l \in 0..Top}

\* Addresses of no node that parse_address takes too: those past the right edge, which
\* stand for all that are further out, or above the root.
Beyond == {<<l, Pow2[Top - l]>> : l \in 0..Top}
Root == <<Top, 0>>

Parent(a) == <<a[1] + 1, a[2] \div 2>>
IsLeftChild(a) == a[2] % 2 = 0
Sibling(a) == <<a[1], IF IsLeftChild(a) THEN a[2] + 1 ELSE a[2] - 1>>
Children(a) == IF a[1] = 0 THEN {} ELSE {<<a[1] - 1, 2 * a[2]>>, <<a[1] - 1, 2 * a[2] + 1>>}
Above(a, l) == <<l, a[2] \div Pow2[l - a[1]]>>
MaxPosition(a) == (a[2] + 1) * Pow2[a[1]] - 1

\* A node comes with its parent and sibling, except the roots of the cap and the shards.
IsTree(t) ==
    /\ Root \in t
    /\ \A a \in t \ {Root} : a[1] # Shard => {Parent(a), Sibling(a)} \subseteq t

\* NodeFetcher::get
Fetched(t, a) == {a} \cap t

-----------------------------------------------------------------------------
(* Region::get, and where its nodes are drawn.  One unit is CHILD_OFFSET.     *)

ChildOffset == 1
NodeGap == 4 * ChildOffset
NodeOffset == NodeGap \div 2
ParentGap == 2 * NodeGap

At(a, x, y) == [node |-> a, x |-> x, y |-> y]
ChildrenAt(t, a, x) ==
    {At(c, IF IsLeftChild(c) THEN x - ChildOffset ELSE x + ChildOffset, -1) :
        c \in Children(a) \cap t}

\* The node before or after n that is not its sibling.
OtherSibling(n) ==
    IF IsLeftChild(n) THEN IF n[2] = 0 THEN {} ELSE {<<n[1], n[2] - 1>>}
                      ELSE {<<n[1], n[2] + 1>>}

ParentX(ofRegion, siblingIsLeft) ==
    IF ofRegion THEN IF siblingIsLeft THEN -NodeOffset ELSE NodeOffset
    ELSE IF siblingIsLeft THEN NodeOffset - ParentGap ELSE ParentGap - NodeOffset

\* Mutant: the grandparent is drawn on the side of the sibling.
GrandparentXBySibling(p, x, siblingIsLeft) ==
    IF siblingIsLeft THEN x - NodeGap ELSE x + NodeGap

GrandparentX(p, x, siblingIsLeft) == IF IsLeftChild(p) THEN x + NodeGap ELSE x - NodeGap

SiblingAt(t, s, isLeft) ==
    LET x == IF isLeft THEN -NodeGap ELSE NodeGap
    IN IF s \in t THEN {At(s, x, 0)} \cup ChildrenAt(t, s, x) ELSE {}

\* Parent::get: nothing of it is shown when the parent is pruned.
ParentAt(t, ofRegion, s, isLeft) ==
    LET p == Parent(s)
        x == ParentX(ofRegion, isLeft)
    IN IF p \notin t THEN {}
       ELSE {At(p, x, 1)} \cup SiblingAt(t, s, isLeft)
            \cup {At(g, GrandparentX(p, x, isLeft), 2) : g \in Fetched(t, Parent(p))}

RegionOf(t, n) ==
    {At(n, 0, 0)} \cup ChildrenAt(t, n, 0)
    \cup ParentAt(t, TRUE, Sibling(n), ~IsLeftChild(n))
    \cup UNION {ParentAt(t, FALSE, o, IsLeftChild(n)) : o \in OtherSibling(n)}

-----------------------------------------------------------------------------
(* Block boundaries: the first block at whose end the tree has a given size. *)

\* Mutant: a later block of the same size takes its place.
BlockOfLast(size) ==
    {h \in DOMAIN Sizes : Sizes[h] = size /\ \A g \in DOMAIN Sizes : Sizes[g] = size => g <= h}

\* block_boundaries.entry(key).or_insert(..): with --show-block-boundaries, made once
\* from the blocks the wallet has scanned.
BlockOf(size) ==
    {h \in DOMAIN Sizes : Sizes[h] = size /\ \A g \in DOMAIN Sizes : Sizes[g] = size => h <= g}

\* The sum is computed in 32 bits: here, modulo the number of leaves.
BoundaryAt(a) == {<<a, h>> : h \in BlockOf((MaxPosition(a) + 1) % Pow2[Top])}

\* Of the region, of the parent and of the other parent: the nodes furthest down.
Lowest(t, n) ==
    LET below(a) == IF \E c \in Children(a) \cap t : ~IsLeftChild(c)
                    THEN Children(a) \cap t ELSE {a}
        under(s) == IF Parent(s) \notin t THEN {}
                    ELSE IF s \in t THEN below(s) ELSE {Parent(s)}
    IN below(n) \cup UNION {under(s) : s \in {Sibling(n)} \cup OtherSibling(n)}

-----------------------------------------------------------------------------
\* The closest node, going up, that does exist.
Existing(t, a) ==
    CHOOSE b \in {Above(a, l) : l \in a[1]..Top} :
        b \in t /\ \A c \in {Above(a, l) : l \in a[1]..Top} : c \in t => b[1] <= c[1]

ShowRegion(a) ==
    LET n == Existing(tree, a) IN
    /\ shownAt' = n /\ shown' = RegionOf(tree, n)
    /\ marks' = UNION {BoundaryAt(b) : b \in Lowest(tree, n)}

\* Where reload_region looks for a node.  Going up from an address of no node it passes
\* the root and counts its level in 8 bits, until that is 0 again, and so is the index.
LooksFrom(a) == IF a \in Node THEN a ELSE <<0, 0>>

\* App::new, with the address the user names, or that of the first shard.
Explore ==
    /\ explorer = "off" /\ explorer' = "walking" /\ ~reload
    /\ ShowRegion(LooksFrom(address))
    /\ UNCHANGED <<tree, address, reload, changes>>

\* A build that checks for overflow panics there.
ExploreBeyond ==
    /\ explorer = "off" /\ explorer' = "over" /\ address \notin Node
    /\ UNCHANGED <<tree, address, shown, shownAt, marks, reload, changes>>

\* The address each key asks for: w, a, d, z and x.
Up(a) == IF a[1] < Top THEN {Parent(a)} ELSE {}
Left(a) == {<<a[1], IF a[2] = 0 THEN 0 ELSE a[2] - 1>>}
Right(a) == {<<a[1], a[2] + 1>>}
Targets(a) == Up(a) \cup Left(a) \cup Right(a) \cup Children(a)

\* Mutant: the address is not looked up.
ValidInRange(a) == a \in Node

\* Mutant: any address is moved to.
ValidAlways(a) == TRUE

Valid(a) == a \in tree

\* move_through_tree, set_address_if_valid
Move ==
    /\ explorer = "walking" /\ ~reload
    /\ \E a \in Targets(address) : Valid(a) /\ address' = a
    /\ reload' = TRUE
    /\ UNCHANGED <<tree, shown, shownAt, marks, explorer, changes>>

\* reload_region
Reload ==
    /\ reload /\ ShowRegion(LooksFrom(address)) /\ reload' = FALSE
    /\ UNCHANGED <<tree, address, explorer, changes>>

Quit ==
    /\ explorer = "walking" /\ ~reload /\ explorer' = "over"
    /\ UNCHANGED <<tree, address, shown, shownAt, marks, reload, changes>>

\* Another process scans, which adds nodes, or prunes nodes that are not needed.
TreeChanges ==
    /\ changes < MaxChanges /\ changes' = changes + 1 /\ explorer = "walking"
    /\ \E a \in Node :
        LET below == {b \in Node : b[1] < a[1] /\ Above(b, a[1]) = a}
        IN tree' \in {tree \ below, tree \cup Children(a), tree \cup {a}}
    /\ tree' # tree /\ IsTree(tree')
    /\ UNCHANGED <<address, shown, shownAt, marks, reload, explorer>>

TreeStep == Explore \/ ExploreBeyond \/ Move \/ Reload \/ Quit \/ TreeChanges

\* The command line names any address, and other commands have left the tree as it is.
InitTree ==
    /\ tree \in {t \in SUBSET Node : IsTree(t)} /\ address \in Node \cup Beyond
    /\ shown = {} /\ shownAt = Root /\ marks = {} /\ reload = FALSE
    /\ explorer = "off" /\ changes = 0

IdleTree ==
    /\ tree = {Root} /\ address = Root
    /\ shown = {} /\ shownAt = address /\ marks = {} /\ reload = FALSE
    /\ explorer = "off" /\ changes = 0

-----------------------------------------------------------------------------
TreeTypeOK ==
    /\ IsTree(tree) /\ tree \subseteq Node /\ address \in Node \cup Beyond
    /\ \A d \in shown : d.node \in Node /\ d.x \in Int /\ d.y \in -1..2
    /\ marks \subseteq Node \X DOMAIN Sizes
    /\ reload \in BOOLEAN /\ explorer \in {"off", "walking", "over"}
    /\ changes \in 0..MaxChanges

\* The region drawn is a picture of the tree: a node has one place, nodes of one level
\* stand in a row in their order, parents above their children, wherever the user is
\* and however much of the tree is pruned.
DrawnInPlace ==
    \A d, e \in shown :
        /\ d.node = e.node => d = e
        /\ d.node[1] = e.node[1] => d.y = e.y /\ (d.node[2] < e.node[2] <=> d.x < e.x)
        /\ d.node[1] < e.node[1] => d.y < e.y

\* Where nothing changes the tree, a walk that is at a node of the tree never leaves
\* it, and the region on the screen is that of the node the next key moves from.
WalkStaysHere ==
    [][changes' = 0 /\ address \in tree =>
        /\ address' \in tree'
        /\ explorer' = "walking" /\ ~reload' => shownAt' = address']_treeVars

\* A boundary is drawn after a node if the last leaf below it is the last note of a
\* block, and names the block that brought that note.  (A block that left the tree
\* empty brought none: its boundary is drawn where the 32 bits end.)
BoundariesExact ==
    \A m \in {x \in marks : Sizes[x[2]] # 0} :
        /\ Sizes[m[2]] = MaxPosition(m[1]) + 1
        /\ \A h \in DOMAIN Sizes : h < m[2] => Sizes[h] < Sizes[m[2]]
=============================================================================
