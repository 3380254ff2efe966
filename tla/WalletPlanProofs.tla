--------------------------- MODULE WalletPlanProofs ---------------------------
(***************************************************************************)
(* The ranges that sync holds are those the wallet would suggest now, and  *)
(* a sync that ends by itself has nothing left to scan: for every set of   *)
(* blocks, every set of chains and every value of the bounds.  And the     *)
(* sync implements WalletView: every step of the process, its tasks, the   *)
(* server and the user is a step of the view or leaves it alone.           *)
(***************************************************************************)
EXTENDS WalletSyncProofs, WellFoundedInduction

\* The heights a queue wants scanned, and those of some ranges.
Want(q) == {h \in Height : q[h] > Scanned}
Covered(R) == UNION {Heights(r) : r \in R}
Disjoint(R) == \A r, s \in R : r # s => Heights(r) \cap Heights(s) = {}

-----------------------------------------------------------------------------
(* The maximal runs of a queue. *)

\* A set of numbers that is not empty has a least one.
LEMMA LeastElement ==
    ASSUME NEW S \in SUBSET Nat, S # {} PROVE \E x \in S : \A y \in S : x <= y
<1> DEFINE Less == {ss \in Nat \X Nat : ss[1] < ss[2]}
<1>1. IsWellFoundedOn(Less, Nat)
  BY NatLessThanWellFounded DEF OpToRel
<1> HIDE DEF Less
<1>2. PICK x \in S : \A y \in S : ~(<<y, x>> \in Less)
  BY <1>1, WFMin
<1>3. \A y \in S : ~(y < x)
  BY <1>2 DEF Less
<1>4. QED
  BY <1>3

\* Every height that is to be scanned lies in a maximal run.
LEMMA RunExists ==
    ASSUME NEW q \in [Height -> Priority], NEW h \in Want(q)
    PROVE  \E r \in Ranges(q) : h \in Heights(r)
<1> USE ConstantsAssumption
<1> DEFINE S == {s \in Height : s <= h /\ \A k \in s..h : q[k] = q[h]}
           T == {e \in 2..(MaxHeight + 1) : e > h /\ (e = MaxHeight + 1 \/ q[e] # q[h])}
<1>1. h \in Height /\ q[h] \in Historic..Verify
  BY DEF Want, Priority, Scanned, Historic, Verify, Ignored
<1>2. h \in S /\ S \subseteq Nat
  BY <1>1 DEF Height
<1>3. MaxHeight + 1 \in T /\ T \subseteq Nat
  BY <1>1 DEF Height
<1>4. PICK s \in S : \A y \in S : s <= y
  BY <1>2, LeastElement
<1>5. PICK e \in T : \A y \in T : e <= y
  BY <1>3, LeastElement
<1>6. s \in Height /\ s <= h /\ \A k \in s..h : q[k] = q[h]
  BY <1>4
<1>7. e \in 2..(MaxHeight + 1) /\ h < e
  BY <1>5
<1>8. \A k \in s..(e - 1) : q[k] = q[h]
  <2>1. SUFFICES ASSUME NEW k \in s..(e - 1), k > h PROVE q[k] = q[h]
    BY <1>1, <1>6, <1>7 DEF Height
  <2>2. k \in 2..(MaxHeight + 1) /\ k < e
    BY <2>1, <1>1, <1>6, <1>7 DEF Height
  <2>3. k \notin T
    BY <1>5, <2>2
  <2>4. QED
    BY <2>1, <2>2, <2>3
<1>9. s > 1 => q[s - 1] # q[h]
  <2>1. SUFFICES ASSUME s > 1, q[s - 1] = q[h] PROVE FALSE
    OBVIOUS
  <2>2. s - 1 \in Height /\ s - 1 <= h
    BY <1>6, <1>1, <2>1 DEF Height
  <2>3. \A k \in (s - 1)..h : k = s - 1 \/ k \in s..h
    BY <1>6, <1>1 DEF Height
  <2>4. \A k \in (s - 1)..h : q[k] = q[h]
    BY <2>1, <2>3, <1>6
  <2>5. s - 1 \in S
    BY <2>2, <2>4
  <2>6. QED
    BY <1>4, <2>5, <1>6 DEF Height
<1>10. e <= MaxHeight => q[e] # q[h]
  BY <1>5, <1>7
<1> DEFINE r == [start |-> s, end |-> e, prio |-> q[h]]
<1>11. r \in Ranges(q)
  BY <1>1, <1>6, <1>7, <1>8, <1>9, <1>10 DEF Ranges, Heights, Height
<1>12. h \in Heights(r)
  BY <1>1, <1>6, <1>7 DEF Heights, Height
<1>13. QED
  BY <1>11, <1>12

\* Two maximal runs that share a height are one.
LEMMA RunsDisjoint == ASSUME NEW q PROVE Disjoint(Ranges(q))
<1> USE ConstantsAssumption
<1>1. SUFFICES ASSUME NEW r \in Ranges(q), NEW s \in Ranges(q),
                      NEW h \in Heights(r), h \in Heights(s)
               PROVE  r = s
  BY DEF Disjoint
<1>2. /\ r.start \in Height /\ r.end \in 2..(MaxHeight + 1) /\ r.prio = q[h]
      /\ s.start \in Height /\ s.end \in 2..(MaxHeight + 1) /\ s.prio = q[h]
      /\ \A k \in r.start..(r.end - 1) : q[k] = q[h]
      /\ \A k \in s.start..(s.end - 1) : q[k] = q[h]
      /\ h \in r.start..(r.end - 1) /\ h \in s.start..(s.end - 1)
  BY <1>1 DEF Ranges, Heights
<1>3. /\ r.start > 1 => q[r.start - 1] # q[h]
      /\ s.start > 1 => q[s.start - 1] # q[h]
      /\ r.end <= MaxHeight => q[r.end] # q[h]
      /\ s.end <= MaxHeight => q[s.end] # q[h]
  BY <1>1, <1>2 DEF Ranges
<1>4. r.start = s.start
  BY <1>2, <1>3 DEF Height
<1>5. r.end = s.end
  BY <1>2, <1>3 DEF Height
<1>6. QED
  BY <1>1, <1>2, <1>4, <1>5 DEF Ranges

\* The suggested ranges cover what is to be scanned, and nothing else.
LEMMA RangesCover ==
    ASSUME NEW q \in [Height -> Priority] PROVE Covered(Ranges(q)) = Want(q)
<1>1. ASSUME NEW r \in Ranges(q), NEW h \in Heights(r) PROVE h \in Want(q)
  BY <1>1, ConstantsAssumption
     DEF Ranges, Heights, Want, Height, Historic, Scanned, Verify
<1>2. QED
  BY <1>1, RunExists DEF Covered

-----------------------------------------------------------------------------
(* The invariant. *)

\* The wallet knows of heights that the server's chain has.
QueueKnown == \A h \in Height : prio[h] # Ignored => At(chain, h) # {}

\* The range in hand is to be scanned.
RangeWanted == Working => Heights(range) \subseteq Want(prio)

\* No height is in the plan twice, and no range is empty.
PlanDisjoint ==
    Working /\ phase = "batch" =>
        /\ Heights(range) \cap Heights(acc) = {}
        /\ (Heights(range) \cup Heights(acc)) \cap Covered(todo) = {}
        /\ Disjoint(todo)
        /\ \A r \in todo : r.start < r.end

\* The cache has every block of the range that is about to be scanned.
RangeFetched ==
    pc \in {"treestate", "scan"} => \A h \in Heights(range) : At(meta, h) # {}

\* When the plan has run out, nothing is left to scan.
DrainDone == pc = "drain" /\ ~again => Want(prio) = {}

PlanState ==
    /\ PlanIsQueue /\ FinishedMeansScanned
    /\ RangeWanted /\ PlanDisjoint /\ RangeFetched /\ DrainDone

PlanInv == QueueKnown /\ PlanState

\* A plan that is about to be worked through: the rest of a range, and ranges.
Plan(rest, left, q) ==
    /\ rest \in Range /\ left \subseteq Range
    /\ Heights(rest) \cup Covered(left) = Want(q)
    /\ Heights(rest) \cap Covered(left) = {}
    /\ Disjoint(left)
    /\ \A r \in left : r.start < r.end

\* What the wallet suggests is a plan.
LEMMA SuggestedPlan ==
    ASSUME NEW q \in [Height -> Priority] PROVE Plan(NoRange, Ranges(q), q)
<1>1. Heights(NoRange) = {}
  BY DEF Heights, NoRange
<1>2. \A r \in Ranges(q) : r.start < r.end
  BY DEF Ranges
<1>3. QED
  BY <1>1, <1>2, NoRangeIsRange, RangesAreRanges, RangesCover, RunsDisjoint DEF Plan

\* A batch is cut off a range without losing a height.
LEMMA CutHeights ==
    ASSUME NEW r \in Range, r.start < r.end
    PROVE  /\ Heights([r EXCEPT !.end = Cut(r)]) \cup Heights([r EXCEPT !.start = Cut(r)])
                  = Heights(r)
           /\ Heights([r EXCEPT !.end = Cut(r)]) \cap Heights([r EXCEPT !.start = Cut(r)]) = {}
<1>1. Cut(r) \in Int /\ r.start <= Cut(r) /\ Cut(r) <= r.end
  BY ConstantsAssumption DEF Cut, Range
<1>2. /\ Heights([r EXCEPT !.end = Cut(r)]) = r.start..(Cut(r) - 1)
      /\ Heights([r EXCEPT !.start = Cut(r)]) = Cut(r)..(r.end - 1)
      /\ r.start \in Int /\ r.end \in Int
  BY ConstantsAssumption DEF Heights, Range
<1>3. QED
  BY <1>1, <1>2 DEF Heights

\* A process that ends, but not by itself, has no plan.
LEMMA ExitPlan ==
    ASSUME NEW how \in {"interrupted", "error"}, Exit(how) PROVE PlanState'
  BY DEF Exit, PlanState, PlanIsQueue, FinishedMeansScanned, RangeWanted, PlanDisjoint,
         RangeFetched, DrainDone, Working, Running

\* One that waits for its deletions and will go on, neither.
LEMMA DrainAgain == ASSUME Drain(TRUE) PROVE PlanState'
  BY DEF Drain, PlanState, PlanIsQueue, FinishedMeansScanned, RangeWanted, PlanDisjoint,
         RangeFetched, DrainDone, Working, Running

\* Its first batch is in hand, and the plan is what is left.
LEMMA FetchBatchPlan ==
    ASSUME NEW q, prio' = q, NEW r, NEW left, Plan(r, left, q), r.start < r.end,
           FetchBatch(r, left)
    PROVE  PlanState'
<1>1. /\ pc' = "fetch" /\ phase' = "batch" /\ todo' = left
      /\ range' = [r EXCEPT !.end = Cut(r)] /\ acc' = [r EXCEPT !.start = Cut(r)]
  BY DEF FetchBatch, Fetch
<1>2. Heights(range') \cup Heights(acc') = Heights(r) /\ Heights(range') \cap Heights(acc') = {}
  BY <1>1, CutHeights DEF Plan
<1>3. Heights(range') \cup Heights(acc') \cup Covered(todo') = Want(q)
  BY <1>1, <1>2 DEF Plan
<1>4. PlanIsQueue' /\ RangeWanted'
  BY <1>3 DEF PlanIsQueue, RangeWanted, Want, Covered
<1>5. PlanDisjoint'
  BY <1>1, <1>2 DEF PlanDisjoint, Plan
<1>6. QED
  BY <1>1, <1>4, <1>5 DEF PlanState, FinishedMeansScanned, RangeFetched, DrainDone, Running

\* The head of the loop of step 7 takes the plan up.
LEMMA NextBatchPlan ==
    ASSUME NEW q, prio' = q, NEW rest, NEW left, Plan(rest, left, q), NextBatch(rest, left)
    PROVE  PlanState'
<1>1. CASE rest.start < rest.end /\ FetchBatch(rest, left)
  BY <1>1, FetchBatchPlan
<1>2. CASE rest.start >= rest.end /\ left = {} /\ Drain(FALSE)
  <2>1. Heights(rest) = {} /\ Covered(left) = {}
    BY <1>2, ConstantsAssumption DEF Plan, Heights, Range, Covered
  <2>2. Want(prio') = {}
    BY <2>1 DEF Plan
  <2>3. QED
    BY <1>2, <2>2
       DEF Drain, PlanState, PlanIsQueue, FinishedMeansScanned, RangeWanted, PlanDisjoint,
           RangeFetched, DrainDone, Working, Running
<1>3. CASE rest.start >= rest.end /\ \E r \in First(left) : FetchBatch(r, left \ {r})
  <2>1. PICK r \in left : FetchBatch(r, left \ {r})
    BY <1>3 DEF First
  <2>2. Heights(rest) = {}
    BY <1>3, ConstantsAssumption DEF Plan, Heights, Range
  <2>3. Covered(left) = Heights(r) \cup Covered(left \ {r})
    BY <2>1 DEF Covered
  <2>4. Heights(r) \cap Covered(left \ {r}) = {}
    BY <2>1 DEF Covered, Plan, Disjoint
  <2>5. Plan(r, left \ {r}, q) /\ r.start < r.end
    BY <2>1, <2>2, <2>3, <2>4 DEF Plan, Disjoint
  <2>6. QED
    BY <2>1, <2>5, FetchBatchPlan
<1>4. QED
  BY <1>1, <1>2, <1>3 DEF NextBatch

\* The head of the loop of step 6 suggests a range that is to be scanned, or goes
\* on to step 7 with all the suggestions.
LEMMA NextVerifyPlan ==
    ASSUME NEW q \in [Height -> Priority], prio' = q, NextVerify(q) PROVE PlanState'
<1>1. CASE \E r \in First(Ranges(q)) : Fetch("verify", r, NoRange, {})
  <2>1. PICK r \in Ranges(q) : Fetch("verify", r, NoRange, {})
    BY <1>1 DEF First
  <2>2. pc' = "fetch" /\ phase' = "verify" /\ range' = r
    BY <2>1 DEF Fetch
  <2>3. Heights(r) \subseteq Want(q)
    BY RangesCover DEF Covered
  <2>4. QED
    BY <2>2, <2>3
       DEF PlanState, PlanIsQueue, FinishedMeansScanned, RangeWanted, PlanDisjoint,
           RangeFetched, DrainDone, Running, Want
<1>2. CASE NextBatch(NoRange, Ranges(q))
  BY <1>2, SuggestedPlan, NextBatchPlan
<1>3. QED
  BY <1>1, <1>2 DEF NextVerify

\* Where running() goes on after a scan it has a plan for the queue the scan left:
\* a new one, or in step 7 the old one if that still is one.
LEMMA AfterScanPlan ==
    ASSUME NEW q \in [Height -> Priority], prio' = q, NEW updated \in BOOLEAN,
           phase = "batch" /\ ~updated => Plan(acc, todo, q), AfterScan(updated, q)
    PROVE  PlanState'
<1>1. CASE Exit("interrupted")
  BY <1>1, ExitPlan
<1>2. CASE NextVerify(q)
  BY <1>2, NextVerifyPlan
<1>3. CASE NextBatch(NoRange, Ranges(q))
  BY <1>3, SuggestedPlan, NextBatchPlan
<1>4. CASE Drain(TRUE)
  BY <1>4, DrainAgain
<1>5. CASE phase = "batch" /\ ~updated /\ NextBatch(acc, todo)
  BY <1>5, NextBatchPlan
<1>6. QED
  BY <1>1, <1>2, <1>3, <1>4, <1>5 DEF AfterScan

\* A scan takes the heights of its range off what is wanted, and adds none: a note
\* it finds only moves a range forward that was wanted already.
LEMMA ScanTakesRange ==
    ASSUME TypeOK, PlanInv, pc = "scan", NEW f \in Discoveries(prio)
    PROVE  /\ Want(Recorded(Cached, f)) = Want(prio) \ Heights(range)
           /\ \A h \in Height : Recorded(Cached, f)[h] # Ignored => prio[h] # Ignored
<1>1. Heights(range) \subseteq Want(prio) /\ Want(prio) \subseteq Height
  BY DEF PlanInv, PlanState, RangeWanted, Working, Want
<1>2. \A h \in Heights(range) : At(Cached, h) # {}
  BY DEF PlanInv, PlanState, RangeFetched, Cached, At
<1>3. \A h \in Height : h \notin Heights(range) => At(Cached, h) = {}
  BY DEF Cached, At
<1>4. f \subseteq Want(prio)
  <2>1. prio \in [Height -> Priority]
    BY DEF TypeOK
  <2>2. QED
    BY <2>1, RangesCover DEF Discoveries, Covered
<1>5. \A h \in Height : Recorded(Cached, f)[h] =
          IF h \in Heights(range) THEN Scanned ELSE IF h \in f THEN FoundNote ELSE prio[h]
  BY <1>1, <1>2, <1>3 DEF Recorded
<1>6. \A h \in Height : prio[h] \in Int
  BY DEF TypeOK, Priority, Ignored, Verify
<1>7. QED
  BY <1>1, <1>4, <1>5, <1>6 DEF Want, Scanned, FoundNote, Ignored

\* So the rest of the plan is a plan for the queue that the scan leaves.
LEMMA RestIsPlan ==
    ASSUME TypeOK, PlanInv, pc = "scan", phase = "batch",
           NEW q, Want(q) = Want(prio) \ Heights(range)
    PROVE  Plan(acc, todo, q)
<1>1. Heights(range) \cup Heights(acc) \cup Covered(todo) = Want(prio)
  BY DEF PlanInv, PlanState, PlanIsQueue, Working, Want, Covered
<1>2. /\ Heights(range) \cap Heights(acc) = {}
      /\ (Heights(range) \cup Heights(acc)) \cap Covered(todo) = {}
      /\ Disjoint(todo) /\ \A r \in todo : r.start < r.end
  BY DEF PlanInv, PlanState, PlanDisjoint, Working
<1>3. acc \in Range /\ todo \subseteq Range
  BY DEF TypeOK
<1>4. QED
  BY <1>1, <1>2, <1>3 DEF Plan

\* A step that leaves the plan and what it is about alone keeps the invariant.
LEMMA PlanStutter ==
    ASSUME PlanInv,
           UNCHANGED <<prio, pc, phase, range, acc, todo, again, result>>,
           meta \subseteq meta', \A h \in Height : At(chain, h) # {} => At(chain', h) # {}
    PROVE  PlanInv'
<1>1. PlanIsQueue' /\ FinishedMeansScanned' /\ RangeWanted' /\ PlanDisjoint' /\ DrainDone'
  BY DEF PlanInv, PlanState, PlanIsQueue, FinishedMeansScanned, RangeWanted, PlanDisjoint,
         DrainDone, Working, Running, Want
<1>2. RangeFetched'
  BY DEF PlanInv, PlanState, RangeFetched, At
<1>3. QueueKnown'
  BY DEF PlanInv, QueueKnown
<1>4. QED
  BY <1>1, <1>2, <1>3 DEF PlanInv, PlanState

\* The empty queue asks for nothing.
LEMMA InitPlan == Init => PlanInv
  BY DEF Init, PlanInv, PlanState, QueueKnown, PlanIsQueue, FinishedMeansScanned,
         RangeWanted, PlanDisjoint, RangeFetched, DrainDone, Working, Running

\* Every step keeps the invariant.
LEMMA PlanStep == TypeOK /\ PlanInv /\ [Next]_vars => PlanInv'
<1> SUFFICES ASSUME TypeOK, PlanInv, [Next]_vars PROVE PlanInv'
  OBVIOUS
<1> USE DEF server, disk, wallet, locals, bounds
<1>0. prio \in [Height -> Priority] /\ QueueKnown
  BY DEF TypeOK, PlanInv
<1>1. CASE Start
  BY <1>1
     DEF Start, PlanInv, PlanState, QueueKnown, PlanIsQueue, FinishedMeansScanned,
         RangeWanted, PlanDisjoint, RangeFetched, DrainDone, Working, Running
<1>2. CASE UpdateChainTip
  <2>1. PICK e \in HistoricEnds, l \in 0..VerifyLookahead : prio' = WithTip(e, l)
    BY <1>2 DEF UpdateChainTip
  <2>2. QueueKnown'
    BY <1>0, <1>2, <2>1 DEF UpdateChainTip, QueueKnown, WithTip
  <2>3. PlanState'
    BY <1>2
       DEF UpdateChainTip, PlanState, PlanIsQueue, FinishedMeansScanned, RangeWanted,
           PlanDisjoint, RangeFetched, DrainDone, Working, Running
  <2>4. QED
    BY <2>2, <2>3 DEF PlanInv
<1>3. CASE SuggestRanges
  <2>1. QueueKnown'
    BY <1>0, <1>3 DEF SuggestRanges, QueueKnown
  <2>2. PlanState'
    BY <1>0, <1>3, ExitPlan, NextVerifyPlan DEF SuggestRanges
  <2>3. QED
    BY <2>1, <2>2 DEF PlanInv
<1>4. CASE FetchBlock
  <2>1. QueueKnown'
    BY <1>0, <1>4 DEF FetchBlock, QueueKnown
  <2>2. CASE Exit("interrupted")
    BY <2>1, <2>2, ExitPlan DEF PlanInv
  <2>3. CASE UNCHANGED <<prio, pc, phase, range, acc, todo, again, result, meta, chain>>
    BY <2>3, PlanStutter
  <2>4. QED
    BY <1>4, <2>2, <2>3 DEF FetchBlock
<1>5. CASE EndFetch
  <2>1. QueueKnown'
    BY <1>0, <1>5 DEF EndFetch, QueueKnown
  <2>2. CASE Exit("interrupted")
    BY <2>1, <2>2, ExitPlan DEF PlanInv
  <2>3. CASE pc' = "treestate" /\ UNCHANGED <<locals, result>>
    <3>1. \A h \in Heights(range) : At(chain, h) # {}
      BY <1>0, <1>5
         DEF EndFetch, PlanInv, PlanState, RangeWanted, QueueKnown, Working, Want,
             Scanned, Ignored
    <3>2. \A h \in Heights(range) : At(fetched, h) # {}
      BY <1>5, <3>1 DEF EndFetch
    <3>3. RangeFetched'
      BY <1>5, <2>3, <3>2 DEF EndFetch, RangeFetched, Upsert, At
    <3>4. QED
      BY <1>5, <2>1, <2>3, <3>3
         DEF EndFetch, PlanInv, PlanState, PlanIsQueue, FinishedMeansScanned, RangeWanted,
             PlanDisjoint, DrainDone, Working, Running, Want
  <2>4. QED
    BY <1>5, <2>2, <2>3 DEF EndFetch
<1>6. CASE FetchTreeState
  BY <1>6
     DEF FetchTreeState, PlanInv, PlanState, QueueKnown, PlanIsQueue,
         FinishedMeansScanned, RangeWanted, PlanDisjoint, RangeFetched, DrainDone,
         Working, Running, Want
<1>7. CASE ScanFails
  BY <1>0, <1>7, ExitPlan DEF ScanFails, PlanInv, QueueKnown
<1>8. CASE ScanSucceeds
  <2>1. PICK f \in Discoveries(prio) : prio' = Recorded(Cached, f)
    BY <1>8 DEF ScanSucceeds
  <2>2. /\ Want(prio') = Want(prio) \ Heights(range)
        /\ \A h \in Height : prio'[h] # Ignored => prio[h] # Ignored
    BY <1>8, <2>1, ScanTakesRange DEF ScanSucceeds
  <2>3. QueueKnown'
    BY <1>0, <1>8, <2>2 DEF ScanSucceeds, QueueKnown
  <2>4. prio' \in [Height -> Priority]
    BY <1>0, <2>1, QueueType
  <2>5. phase = "batch" => Plan(acc, todo, prio')
    BY <1>8, <2>2, RestIsPlan DEF ScanSucceeds
  <2>6. AfterScan(\E r \in First(Ranges(prio')) : r.prio > range.prio, prio')
    BY <1>8 DEF ScanSucceeds
  <2>7. PlanState'
    BY <2>4, <2>5, <2>6, AfterScanPlan
  <2>8. QED
    BY <2>3, <2>7 DEF PlanInv
<1>9. CASE ScanFindsReorg
  <2>1. PICK b \in Cached : ReorgAt(b, RewindHeight(height[b]))
    BY <1>9 DEF ScanFindsReorg
  <2>2. PICK l \in 0..VerifyLookahead : prio' = Rewound(RewindHeight(height[b]), l)
    BY <2>1 DEF ReorgAt
  <2>3. QueueKnown'
    BY <1>0, <1>9, <2>2 DEF ScanFindsReorg, QueueKnown, Rewound
  <2>4. prio' \in [Height -> Priority]
    BY <1>0, <2>2, QueueType
  <2>5. AfterScan(TRUE, prio') \/ Exit("error")
    BY <2>1 DEF ReorgAt
  <2>6. PlanState'
    BY <2>4, <2>5, AfterScanPlan, ExitPlan
  <2>7. QED
    BY <2>3, <2>6 DEF PlanInv
<1>10. CASE FinishRunning
  <2>1. QueueKnown'
    BY <1>0, <1>10 DEF FinishRunning, QueueKnown
  <2>2. CASE again /\ ~requested
    <3>1. pc' = "tip"
      BY <1>10, <2>2 DEF FinishRunning
    <3>2. QED
      BY <2>1, <3>1
         DEF PlanInv, PlanState, PlanIsQueue, FinishedMeansScanned, RangeWanted,
             PlanDisjoint, RangeFetched, DrainDone, Working, Running
  <2>3. CASE again /\ requested
    BY <1>10, <2>1, <2>3, ExitPlan DEF FinishRunning, PlanInv
  <2>4. CASE ~again
    <3>1. Want(prio') = {} /\ pc' = "off"
      BY <1>10, <2>4 DEF FinishRunning, Exit, PlanInv, PlanState, DrainDone
    <3>2. \A h \in Height : prio'[h] \in {Ignored, Scanned}
      BY <1>0, <1>10, <3>1
         DEF FinishRunning, Want, Priority, Ignored, Scanned, Verify
    <3>3. QED
      BY <2>1, <3>1, <3>2
         DEF PlanInv, PlanState, PlanIsQueue, FinishedMeansScanned, RangeWanted,
             PlanDisjoint, RangeFetched, DrainDone, Working
  <2>5. QED
    BY <2>2, <2>3, <2>4 DEF TypeOK
<1>11. CASE DeletionTasks
  BY <1>11, PlanStutter DEF DeletionTasks, DeleteFile
<1>12. CASE ServerAdvances
  BY <1>12, PlanStutter DEF ServerAdvances
<1>13. CASE Interrupt
  BY <1>13, PlanStutter DEF Interrupt
<1>14. CASE Stop
  BY <1>0, <1>14, ExitPlan DEF Stop, PlanInv, QueueKnown
<1>15. CASE UNCHANGED vars
  BY <1>15, PlanStutter DEF vars
<1>16. QED
  BY <1>1, <1>2, <1>3, <1>4, <1>5, <1>6, <1>7, <1>8, <1>9, <1>10, <1>11, <1>12,
     <1>13, <1>14, <1>15 DEF Next, Sync

\* The invariant holds throughout.
LEMMA PlanInvariant == Spec => []PlanInv
  BY InitPlan, PlanStep, TypeCorrect, PTL DEF Spec

\* What the loop of step 7 still holds is what the wallet would suggest now: the
\* ranges read before the downloads are used to the end, and are never stale.
THEOREM PlanStaysQueue == Spec => []PlanIsQueue
<1>1. PlanInv => PlanIsQueue
  BY DEF PlanInv, PlanState
<1>2. QED
  BY <1>1, PlanInvariant, PTL

\* A sync that ends by itself has scanned every height that the wallet knew of.
THEOREM FinishedScannedAll == Spec => []FinishedMeansScanned
<1>1. PlanInv => FinishedMeansScanned
  BY DEF PlanInv, PlanState
<1>2. QED
  BY <1>1, PlanInvariant, PTL

-----------------------------------------------------------------------------
(* The view that the sync implements. *)

known == {h \in Height : prio[h] # Ignored}

-----------------------------------------------------------------------------
(* What else the steps rely on. *)

\* No two of these blocks are at one height.
OnePerHeight(S) == \A b, d \in S : height[b] = height[d] => b = d

\* The queue marks as scanned exactly the heights of the wallet's blocks.
ScannedMarked == \A h \in Height : prio[h] = Scanned <=> At(scanned, h) # {}

\* The process has no result before it ends.
NoResultYet == Running => result = "none"

ViewInv ==
    /\ OnePerHeight(fetched) /\ OnePerHeight(meta)
    /\ ScannedMarked /\ NoResultYet

AllInv == TypeOK /\ PlanInv /\ ViewInv

\* Rows keyed by height stay one for each height.
LEMMA UpsertOnePerHeight ==
    ASSUME NEW R, NEW S, OnePerHeight(R), OnePerHeight(S)
    PROVE  OnePerHeight(Upsert(R, S))
  BY DEF OnePerHeight, Upsert, At

\* The next block of the stream is at a height of its own.
LEMMA StreamedOnePerHeight ==
    ASSUME NEW b, OnePerHeight(fetched), Streamed(b)
    PROVE  OnePerHeight(fetched \cup {b})
  BY DEF OnePerHeight, Streamed, At

\* How running() goes on after a scan: with no block in hand, or it has ended.
LEMMA AfterScanOpen ==
    ASSUME NEW updated, NEW q, AfterScan(updated, q)
    PROVE  /\ fetched' = {}
           /\ \/ result' = result
              \/ pc' = "off" /\ result' = "interrupted"
  BY DEF AfterScan, NextVerify, NextBatch, FetchBatch, Fetch, Drain, Exit

\* How it takes a range up: the same.
LEMMA NextVerifyOpen ==
    ASSUME NEW q, NextVerify(q) PROVE fetched' = {} /\ result' = result
  BY DEF NextVerify, NextBatch, FetchBatch, Fetch, Drain

\* The scan of a range that is wanted: its blocks are new to the wallet, and the
\* cache has one for each height.
LEMMA RangeIsNew ==
    ASSUME AllInv, pc = "scan"
    PROVE  /\ Heights(range) \subseteq known
           /\ \A h \in Heights(range) : At(scanned, h) = {} /\ At(Cached, h) # {}
           /\ OnePerHeight(Cached)
           /\ Cached \subseteq Block /\ scanned \subseteq Block
<1>1. \A h \in Heights(range) : h \in Height /\ prio[h] > Scanned
  BY DEF AllInv, PlanInv, PlanState, RangeWanted, Working, Want
<1>2. Heights(range) \subseteq known
  BY <1>1 DEF known, Scanned, Ignored
<1>3. \A h \in Heights(range) : At(scanned, h) = {}
  BY <1>1 DEF AllInv, ViewInv, ScannedMarked, Scanned
<1>4. \A h \in Heights(range) : At(Cached, h) # {}
  BY DEF AllInv, PlanInv, PlanState, RangeFetched, Cached, At
<1>5. OnePerHeight(Cached) /\ Cached \subseteq Block /\ scanned \subseteq Block
  BY DEF AllInv, ViewInv, TypeOK, OnePerHeight, Cached
<1>6. QED
  BY <1>2, <1>3, <1>4, <1>5

-----------------------------------------------------------------------------
(* The two steps that change the wallet's blocks. *)

\* A scan adopts the cached blocks of the range.
LEMMA ScanAdopts ==
    ASSUME AllInv, ScanSucceeds
    PROVE  View!Adopt(scanned' \ scanned) /\ ScannedMarked'
<1> USE DEF bounds
<1>1. PICK f \in Discoveries(prio) : prio' = Recorded(Cached, f)
  BY DEF ScanSucceeds
<1>2. /\ pc = "scan" /\ scanned' = scanned \cup Cached
      /\ At(Cached, range.start) # {} /\ \A b \in Cached : Follows(b)
  BY DEF ScanSucceeds, Readable
<1>3. /\ Heights(range) \subseteq known
      /\ \A h \in Heights(range) : At(scanned, h) = {} /\ At(Cached, h) # {}
      /\ OnePerHeight(Cached)
      /\ Cached \subseteq Block /\ scanned \subseteq Block
  BY <1>2, RangeIsNew
<1>4. \A b \in Cached : height[b] \in Heights(range) /\ b \notin scanned
  BY <1>3 DEF Cached, At
<1>5. scanned' \ scanned = Cached /\ Cached # {}
  BY <1>2, <1>4 DEF At
<1>6. \A b \in Block : height[b] \in Height
  BY ConstantsAssumption
<1>7. f \subseteq Want(prio)
  BY RangesCover DEF Discoveries, Covered, AllInv, TypeOK
<1>8. \A h \in Height : prio'[h] =
          IF h \in Heights(range) THEN Scanned ELSE IF h \in f THEN FoundNote ELSE prio[h]
  <2>1. \A h \in Height : h \in Heights(range) <=> At(Cached, h) # {}
    BY <1>3, <1>4 DEF At
  <2>2. QED
    BY <1>1, <2>1 DEF Recorded
<1>9. known' = known
  BY <1>3, <1>7, <1>8 DEF known, Want, Scanned, FoundNote, Ignored
<1>10. View!HeightsOf(Cached) \subseteq known \ View!HeightsOf(scanned)
  BY <1>3, <1>4 DEF View!HeightsOf, At
<1>11. ASSUME NEW h \in known, NEW b \in Cached, NEW d \in Cached,
              height[b] < h, h < height[d]
       PROVE  h \in View!HeightsOf(Cached)
  <2>1. h \in Heights(range)
    BY <1>4, <1>11, ConstantsAssumption
       DEF Heights, known, Height, AllInv, TypeOK, Range
  <2>2. QED
    BY <1>3, <2>1 DEF At, View!HeightsOf
<1>12. ASSUME NEW b \in Cached, NEW p \in Cached \cup scanned, View!Unlinked(p, b)
       PROVE  FALSE
  <2>1. height[p] = height[b] - 1 /\ parent[b] # p
    BY <1>12 DEF View!Unlinked
  <2>2. /\ range.start \in Int /\ range.end \in Int
        /\ height[b] \in Int /\ range.start <= height[b] /\ height[b] < range.end
    BY <1>3, <1>4, <1>6, ConstantsAssumption DEF Heights, Height, AllInv, TypeOK, Range
  <2>3. CASE height[b] = range.start
    <3>1. At(scanned, height[b] - 1) \subseteq {parent[b]}
      BY <1>2, <2>3 DEF Follows
    <3>2. p \notin Cached
      BY <1>4, <2>1, <2>2, <2>3 DEF Heights
    <3>3. QED
      BY <2>1, <3>1, <3>2 DEF At
  <2>4. CASE height[b] # range.start
    <3>1. At(Cached, height[b] - 1) \subseteq {parent[b]}
      BY <1>2, <2>4 DEF Follows
    <3>2. height[p] \in Heights(range)
      BY <2>1, <2>2, <2>4 DEF Heights
    <3>3. p \notin scanned
      BY <1>3, <3>2 DEF At
    <3>4. QED
      BY <2>1, <3>1, <3>3 DEF At
  <2>5. QED
    BY <2>3, <2>4
<1>13. View!NotDone
  BY AfterScanOpen
     DEF ScanSucceeds, View!NotDone, AllInv, ViewInv, NoResultYet, Running
<1>14. View!Adopt(scanned' \ scanned)
  BY <1>2, <1>3, <1>5, <1>9, <1>10, <1>11, <1>12, <1>13
     DEF View!Adopt, OnePerHeight, known
<1>15. ScannedMarked'
  <2>1. \A h \in Height : At(scanned', h) # {} <=> At(scanned, h) # {} \/ h \in Heights(range)
    BY <1>2, <1>3, <1>4 DEF At
  <2>2. QED
    BY <1>7, <1>8, <2>1
       DEF ScannedMarked, AllInv, ViewInv, Want, Scanned, FoundNote
<1>16. QED
  BY <1>14, <1>15

\* A rewind truncates the wallet on the evidence of the two blocks that do not link.
LEMMA ReorgTruncates ==
    ASSUME AllInv, ScanFindsReorg
    PROVE  (\E b, p \in Block : View!Truncate(b, p)) /\ ScannedMarked'
<1>1. PICK b \in Cached : ReorgAt(b, RewindHeight(height[b]))
  BY DEF ScanFindsReorg
<1> DEFINE r == RewindHeight(height[b])
<1>2. pc = "scan" /\ ~Follows(b) /\ scanned' = {x \in scanned : height[x] <= r}
  BY <1>1 DEF ScanFindsReorg, ReorgAt
<1>3. PICK l \in 0..VerifyLookahead : prio' = Rewound(r, l)
  BY <1>1 DEF ReorgAt
<1>4. /\ \A h \in Heights(range) : At(Cached, h) # {}
      /\ Cached \subseteq Block /\ scanned \subseteq Block
  BY <1>2, RangeIsNew
<1>5. /\ \A x \in Block : height[x] \in Int /\ height[x] >= 1 /\ height[x] \in Height
      /\ RewindBlocks \in Int /\ RewindBlocks >= 2
  BY ConstantsAssumption DEF Height
<1>6. b \in Block /\ height[b] \in Int /\ height[b] >= 1 /\ r \in Int
  BY <1>4, <1>5 DEF RewindHeight
<1>7. range.start \in Int /\ range.end \in Int /\ height[b] \in Heights(range)
  BY ConstantsAssumption DEF Cached, AllInv, TypeOK, Range
<1>8. PICK p \in Cached \cup scanned : height[p] = height[b] - 1 /\ p # parent[b]
  <2>1. CASE height[b] = range.start
    BY <1>2, <1>6, <2>1 DEF Follows, At
  <2>2. CASE height[b] # range.start
    <3>1. height[b] - 1 \in Heights(range)
      BY <1>6, <1>7, <2>2 DEF Heights
    <3>2. At(Cached, height[b] - 1) # {}
      BY <1>4, <3>1
    <3>3. ~(At(Cached, height[b] - 1) \subseteq {parent[b]})
      BY <1>2, <2>2, <3>2 DEF Follows
    <3>4. QED
      BY <3>3 DEF At
  <2>3. QED
    BY <2>1, <2>2
<1>9. p \in Block /\ View!Unlinked(p, b)
  BY <1>4, <1>8 DEF View!Unlinked
<1>10. \A x \in Block : height[x] <= r <=> height[x] + RewindBlocks <= height[b]
  <2>1. TAKE x \in Block
  <2>2. height[x] \in Int /\ height[x] >= 1
    BY <1>5
  <2>3. r = IF height[b] > RewindBlocks THEN height[b] - RewindBlocks ELSE 0
    BY DEF RewindHeight
  <2>4. QED
    BY <1>5, <1>6, <2>2, <2>3
<1>11. /\ scanned' = {x \in scanned : height[x] + RewindBlocks <= height[b]}
       /\ p \notin scanned'
  <2>1. scanned' = {x \in scanned : height[x] + RewindBlocks <= height[b]}
    BY <1>2, <1>4, <1>10
  <2>2. ~(height[p] + RewindBlocks <= height[b])
    BY <1>5, <1>6, <1>8
  <2>3. QED
    BY <2>1, <2>2
<1>12. \A h \in Height : prio'[h] =
           IF h <= r \/ prio[h] = Ignored THEN prio[h]
           ELSE IF h <= r + l THEN Verify
           ELSE IF prio[h] = Scanned THEN Historic ELSE prio[h]
  BY <1>3 DEF Rewound
<1>13. known' = known
  BY <1>12 DEF known, Ignored, Verify, Historic
<1>14. View!NotDone
  <2>1. result = "none" /\ result' \in {"none", "interrupted", "error"}
    BY <1>1, <1>2, AfterScanOpen
       DEF ReorgAt, Exit, AllInv, ViewInv, NoResultYet, Running
  <2>2. QED
    BY <2>1 DEF View!NotDone
<1>15. View!Truncate(b, p)
  BY <1>9, <1>11, <1>13, <1>14 DEF View!Truncate, known
<1>16. ScannedMarked'
  <2>1. \A h \in Height : At(scanned', h) # {} <=> h <= r /\ At(scanned, h) # {}
    BY <1>2 DEF At
  <2>2. QED
    BY <1>12, <2>1
       DEF ScannedMarked, AllInv, ViewInv, Scanned, Ignored, Verify, Historic
<1>17. QED
  BY <1>6, <1>9, <1>15, <1>16

-----------------------------------------------------------------------------
(* The other steps, and the refinement. *)

\* The wallet has as many heights as the queue marks scanned, so a sync that ends
\* with nothing left to scan has scanned all it knew of.
LEMMA NothingLeft ==
    ASSUME AllInv, Want(prio) = {} PROVE known = View!HeightsOf(scanned)
<1>1. \A h \in Height : prio[h] \in {Ignored, Scanned}
  BY DEF Want, AllInv, TypeOK, Priority, Ignored, Scanned, Verify
<1>2. \A h \in Height : h \in known <=> At(scanned, h) # {}
  BY <1>1 DEF known, AllInv, ViewInv, ScannedMarked, Ignored, Scanned
<1>3. \A b \in scanned : height[b] \in Height
  BY ConstantsAssumption DEF AllInv, TypeOK
<1>4. QED
  BY <1>2, <1>3 DEF View!HeightsOf, known, At

\* A process that ends, but not by itself, ends the view's sync.
LEMMA ExitEnds ==
    ASSUME AllInv, Running, NEW how \in {"interrupted", "error"}, Exit(how),
           UNCHANGED <<scanned, prio>>
    PROVE  View!End /\ NoResultYet' /\ ScannedMarked' /\ fetched' = {}
  BY DEF Exit, View!End, AllInv, ViewInv, NoResultYet, Running, ScannedMarked, known

\* A step that touches neither the wallet nor the result.
LEMMA ViewStutter ==
    ASSUME UNCHANGED <<scanned, prio, result>> PROVE UNCHANGED View!view
  BY DEF View!view, known

\* The view and its invariant hold at first.
LEMMA InitView == Init => View!Init /\ ViewInv
  BY DEF Init, View!Init, ViewInv, OnePerHeight, ScannedMarked, NoResultYet, Running, At,
         known, Ignored, Scanned

\* Every step is one of the view, or leaves it alone, and keeps what the next one
\* relies on.
LEMMA ViewStep ==
    ASSUME AllInv, [Next]_vars PROVE [View!Next]_(View!view) /\ ViewInv'
<1> USE DEF server, disk, wallet, locals, bounds
<1>0. OnePerHeight(fetched) /\ OnePerHeight(meta) /\ ScannedMarked /\ NoResultYet
  BY DEF AllInv, ViewInv
<1>1. CASE Start
  <2>1. View!Begin
    BY <1>1 DEF Start, View!Begin, known
  <2>2. ViewInv'
    BY <1>0, <1>1 DEF Start, ViewInv, OnePerHeight, ScannedMarked, NoResultYet
  <2>3. QED
    BY <2>1, <2>2 DEF View!Next
<1>2. CASE UpdateChainTip
  <2>1. PICK e \in HistoricEnds, l \in 0..VerifyLookahead : prio' = WithTip(e, l)
    BY <1>2 DEF UpdateChainTip
  <2>2. \A h \in Height : prio'[h] =
            IF At(chain, h) = {} THEN prio[h]
            ELSE IF Frontier(h, l) THEN Verify
            ELSE IF prio[h] # Ignored THEN prio[h]
            ELSE IF h <= e THEN Historic ELSE ChainTip
    BY <2>1 DEF WithTip
  <2>3. known \subseteq known'
    BY <2>2 DEF known, Ignored, Verify
  <2>4. View!Learn
    BY <1>0, <1>2, <2>3 DEF UpdateChainTip, View!Learn, NoResultYet, Running, known
  <2>5. \A h \in Height : Frontier(h, l) => At(scanned, h) = {}
    <3>1. \A b \in scanned : height[b] \in Int
      BY ConstantsAssumption DEF AllInv, TypeOK, Height
    <3>2. QED
      BY <3>1 DEF Frontier, At
  <2>6. ScannedMarked'
    BY <1>0, <1>2, <2>2, <2>5
       DEF UpdateChainTip, ScannedMarked, Scanned, Ignored, Historic, ChainTip, Verify
  <2>7. ViewInv'
    BY <1>0, <1>2, <2>6 DEF UpdateChainTip, ViewInv, OnePerHeight, NoResultYet, Running
  <2>8. QED
    BY <2>4, <2>7 DEF View!Next
<1>3. CASE SuggestRanges
  <2>1. CASE Exit("interrupted")
    BY <1>0, <1>3, <2>1, ExitEnds
       DEF SuggestRanges, ViewInv, OnePerHeight, Running, View!Next
  <2>2. CASE NextVerify(prio)
    <3>1. fetched' = {} /\ result' = result
      BY <2>2, NextVerifyOpen
    <3>2. ViewInv'
      BY <1>0, <1>3, <3>1
         DEF SuggestRanges, ViewInv, OnePerHeight, ScannedMarked, NoResultYet, Running
    <3>3. QED
      BY <1>3, <3>1, <3>2, ViewStutter DEF SuggestRanges
  <2>3. QED
    BY <1>3, <2>1, <2>2 DEF SuggestRanges
<1>4. CASE FetchBlock
  <2>1. PICK b \in chain :
            /\ Streamed(b)
            /\ \/ meta' = Upsert(meta, fetched \cup {b}) /\ Exit("interrupted")
               \/ /\ fetched' = fetched \cup {b}
                  /\ UNCHANGED <<meta, pc, result>>
    BY <1>4 DEF FetchBlock
  <2>2. OnePerHeight(fetched \cup {b})
    BY <1>0, <2>1, StreamedOnePerHeight
  <2>3. CASE meta' = Upsert(meta, fetched \cup {b}) /\ Exit("interrupted")
    <3>1. OnePerHeight(Upsert(meta, fetched \cup {b}))
      BY <1>0, <2>2, UpsertOnePerHeight
    <3>2. View!End /\ NoResultYet' /\ ScannedMarked' /\ fetched' = {}
      BY <1>4, <2>3, ExitEnds DEF FetchBlock, Running
    <3>3. QED
      BY <2>3, <3>1, <3>2 DEF ViewInv, OnePerHeight, View!Next
  <2>4. CASE fetched' = fetched \cup {b} /\ UNCHANGED <<meta, pc, result>>
    <3>1. ViewInv'
      BY <1>0, <1>4, <2>2, <2>4
         DEF FetchBlock, ViewInv, OnePerHeight, ScannedMarked, NoResultYet, Running
    <3>2. QED
      BY <1>4, <2>4, <3>1, ViewStutter DEF FetchBlock
  <2>5. QED
    BY <2>1, <2>3, <2>4
<1>5. CASE EndFetch
  <2>1. OnePerHeight(meta')
    BY <1>0, <1>5, UpsertOnePerHeight DEF EndFetch
  <2>2. CASE Exit("interrupted")
    BY <1>5, <2>1, <2>2, ExitEnds DEF EndFetch, ViewInv, OnePerHeight, Running, View!Next
  <2>3. CASE pc' = "treestate" /\ UNCHANGED <<locals, result>>
    <3>1. ViewInv'
      BY <1>0, <1>5, <2>1, <2>3
         DEF EndFetch, ViewInv, OnePerHeight, ScannedMarked, NoResultYet, Running
    <3>2. QED
      BY <1>5, <2>3, <3>1, ViewStutter DEF EndFetch
  <2>4. QED
    BY <1>5, <2>2, <2>3 DEF EndFetch
<1>6. CASE FetchTreeState
  <2>1. ViewInv'
    BY <1>0, <1>6
       DEF FetchTreeState, ViewInv, OnePerHeight, ScannedMarked, NoResultYet, Running
  <2>2. QED
    BY <1>6, <2>1, ViewStutter DEF FetchTreeState
<1>7. CASE ScanFails
  BY <1>0, <1>7, ExitEnds DEF ScanFails, ViewInv, OnePerHeight, Running, View!Next
<1>8. CASE ScanSucceeds
  <2>1. View!Adopt(scanned' \ scanned) /\ ScannedMarked'
    BY <1>8, ScanAdopts
  <2>2. /\ fetched' = {} /\ meta' = meta
        /\ result' = result \/ pc' = "off"
    BY <1>8, AfterScanOpen DEF ScanSucceeds
  <2>3. NoResultYet'
    BY <1>0, <1>8, <2>2 DEF ScanSucceeds, NoResultYet, Running
  <2>4. QED
    BY <1>0, <2>1, <2>2, <2>3 DEF ViewInv, OnePerHeight, View!Next
<1>9. CASE ScanFindsReorg
  <2>1. (\E b, p \in Block : View!Truncate(b, p)) /\ ScannedMarked'
    BY <1>9, ReorgTruncates
  <2>2. PICK b \in Cached : ReorgAt(b, RewindHeight(height[b]))
    BY <1>9 DEF ScanFindsReorg
  <2>3. /\ fetched' = {} /\ meta' \subseteq meta
        /\ result' = result \/ pc' = "off"
    BY <2>2, AfterScanOpen DEF ReorgAt, Exit
  <2>4. NoResultYet'
    BY <1>0, <1>9, <2>3 DEF ScanFindsReorg, NoResultYet, Running
  <2>5. QED
    BY <1>0, <2>1, <2>3, <2>4 DEF ViewInv, OnePerHeight, View!Next
<1>10. CASE FinishRunning
  <2>1. UNCHANGED <<scanned, prio, meta>> /\ Running
    BY <1>10 DEF FinishRunning, Running
  <2>2. CASE again /\ ~requested
    <3>1. ViewInv'
      BY <1>0, <1>10, <2>1, <2>2
         DEF FinishRunning, ViewInv, OnePerHeight, ScannedMarked, NoResultYet, Running
    <3>2. QED
      BY <1>10, <2>1, <2>2, <3>1, ViewStutter DEF FinishRunning
  <2>3. CASE again /\ requested
    BY <1>0, <1>10, <2>1, <2>3, ExitEnds
       DEF FinishRunning, ViewInv, OnePerHeight, View!Next
  <2>4. CASE ~again
    <3>1. Exit("ok")
      BY <1>10, <2>4 DEF FinishRunning
    <3>2. known = View!HeightsOf(scanned)
      BY <1>10, <2>4, NothingLeft
         DEF FinishRunning, AllInv, PlanInv, PlanState, DrainDone
    <3>3. View!End
      BY <1>0, <2>1, <3>1, <3>2 DEF Exit, View!End, NoResultYet, known
    <3>4. ViewInv'
      BY <1>0, <2>1, <3>1
         DEF Exit, ViewInv, OnePerHeight, ScannedMarked, NoResultYet, Running
    <3>5. QED
      BY <3>3, <3>4 DEF View!Next
  <2>5. QED
    BY <2>2, <2>3, <2>4 DEF AllInv, TypeOK
<1>11. CASE DeletionTasks \/ ServerAdvances \/ Interrupt \/ UNCHANGED vars
  <2>1. UNCHANGED <<scanned, prio, result, meta, fetched, pc>>
    BY <1>11 DEF DeletionTasks, DeleteFile, ServerAdvances, Interrupt, vars
  <2>2. ViewInv'
    BY <1>0, <2>1 DEF ViewInv, OnePerHeight, ScannedMarked, NoResultYet, Running
  <2>3. QED
    BY <2>1, <2>2, ViewStutter
<1>12. CASE Stop
  BY <1>0, <1>12, ExitEnds DEF Stop, ViewInv, OnePerHeight, Running, View!Next
<1>13. QED
  BY <1>1, <1>2, <1>3, <1>4, <1>5, <1>6, <1>7, <1>8, <1>9, <1>10, <1>11, <1>12
     DEF Next, Sync

\* The sync keeps the promises of WalletView: the wallet takes in only linked runs
\* of blocks, gives blocks up only on the evidence of two that do not link, and a
\* sync ends by itself only with all it knew of scanned; whatever the tasks, the
\* server and the user do meanwhile.
THEOREM SyncImplementsView == Spec => ImplementsView
<1>1. Init => View!Init /\ ViewInv
  BY InitView
<1>2. TypeOK /\ PlanInv /\ ViewInv /\ [Next]_vars => [View!Next]_(View!view) /\ ViewInv'
  BY ViewStep DEF AllInv
<1>3. QED
  BY <1>1, <1>2, TypeCorrect, PlanInvariant, PTL DEF Spec, ImplementsView, View!Spec
=============================================================================
