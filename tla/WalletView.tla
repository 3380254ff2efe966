------------------------------ MODULE WalletView ------------------------------
(***************************************************************************)
(* What a sync promises about the wallet, whatever happens to the cache,   *)
(* the server and the process: the wallet only takes in runs of blocks     *)
(* that are linked to each other and to its block below, only truncates    *)
(* itself on the evidence of two blocks that do not link, and a sync ends  *)
(* by itself only with every height scanned that the wallet knew of.       *)
(***************************************************************************)
EXTENDS Integers

CONSTANTS Block, height, parent, RewindBlocks

VARIABLES
    scanned,   \* the wallet's blocks
    known,     \* the heights the wallet has heard of
    outcome    \* how the last sync ended, "none" while one runs

view == <<scanned, known, outcome>>

HeightsOf(S) == {height[b] : b \in S}

\* p is at the height below b and is not what b was mined on.
Unlinked(p, b) == height[p] = height[b] - 1 /\ parent[b] # p

Begin ==
    /\ outcome' = "none"
    /\ UNCHANGED <<scanned, known>>

\* A new chain tip: known heights are only ever added.
Learn ==
    /\ outcome = "none"
    /\ known \subseteq known'
    /\ UNCHANGED <<scanned, outcome>>

\* How the step leaves the sync: running, or ended before it was done.
NotDone == outcome = "none" /\ outcome' \in {"none", "interrupted", "error"}

\* A run S of blocks at heights known and not yet scanned.
Adopt(S) ==
    /\ S # {}
    /\ HeightsOf(S) \subseteq known \ HeightsOf(scanned)
    /\ \A b, d \in S : height[b] = height[d] => b = d
    /\ \A h \in known : (\E b, d \in S : height[b] < h /\ h < height[d]) => h \in HeightsOf(S)
    /\ \A b \in S, p \in S \cup scanned : ~Unlinked(p, b)
    /\ scanned' = scanned \cup S
    /\ NotDone
    /\ UNCHANGED known

\* b is not what the chain below it promised: what is less than RewindBlocks
\* blocks below b is given up, the block b contradicts included.
Truncate(b, p) ==
    /\ Unlinked(p, b)
    /\ scanned' = {x \in scanned : height[x] + RewindBlocks <= height[b]}
    /\ p \notin scanned'
    /\ NotDone
    /\ UNCHANGED known

\* The sync ends; by itself only when nothing is left to scan.
End ==
    /\ outcome = "none"
    /\ outcome' \in {"ok", "interrupted", "error"}
    /\ outcome' = "ok" => known = HeightsOf(scanned)
    /\ UNCHANGED <<scanned, known>>

Init == scanned = {} /\ known = {} /\ outcome = "none"

Next ==
    \/ Begin \/ Learn \/ End
    \/ Adopt(scanned' \ scanned)
    \/ \E b, p \in Block : Truncate(b, p)

Spec == Init /\ [][Next]_view
=============================================================================
