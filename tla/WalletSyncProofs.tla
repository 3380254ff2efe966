--------------------------- MODULE WalletSyncProofs ---------------------------
(***************************************************************************)
(* Theorems about WalletSync for every set of blocks, every set of chains  *)
(* and every value of the bounds.                                          *)
(***************************************************************************)
EXTENDS WalletSync, TLAPS

-----------------------------------------------------------------------------
(* Type correctness. *)

Pcs == {"off", "tip", "suggest", "fetch", "treestate", "scan", "drain"}
Results == {"none", "ok", "interrupted", "error"}

\* The part of TypeOK that is about the process itself.
LocalsOK ==
    /\ pc \in Pcs
    /\ phase \in {"verify", "batch"}
    /\ range \in Range /\ acc \in Range /\ todo \subseteq Range
    /\ fetched \subseteq Block /\ again \in BOOLEAN
    /\ result \in Results

\* The empty range is a range.
LEMMA NoRangeIsRange == NoRange \in Range
  BY ConstantsAssumption DEF NoRange, Range, Priority, Ignored, Verify

\* What the wallet suggests are ranges.
LEMMA RangesAreRanges == ASSUME NEW q PROVE Ranges(q) \subseteq Range
  BY ConstantsAssumption
     DEF Ranges, Range, Height, Priority, Historic, Verify, Ignored

\* Cutting a batch off a range leaves two ranges.
LEMMA CutIsRange ==
    ASSUME NEW r \in Range
    PROVE  /\ [r EXCEPT !.end = Cut(r)] \in Range
           /\ [r EXCEPT !.start = Cut(r)] \in Range
  BY ConstantsAssumption DEF Cut, Range

\* A process that ends leaves well-typed locals.
LEMMA ExitType ==
    ASSUME NEW how \in Results, Exit(how)
    PROVE  LocalsOK' /\ deletions' \in [Block -> Nat]
  BY NoRangeIsRange DEF Exit, LocalsOK, NoDeletions, Pcs

\* So does one that starts to download a range,
LEMMA FetchType ==
    ASSUME TypeOK, NEW ph \in {"verify", "batch"}, NEW r \in Range,
           NEW rest \in Range, NEW left \in SUBSET Range, Fetch(ph, r, rest, left)
    PROVE  LocalsOK'
  BY DEF Fetch, LocalsOK, TypeOK, Pcs, Results

\* or that starts to wait for its deletions,
LEMMA DrainType == ASSUME TypeOK, NEW b \in BOOLEAN, Drain(b) PROVE LocalsOK'
  BY DEF Drain, LocalsOK, TypeOK, Pcs, Results

\* or that downloads the next batch,
LEMMA FetchBatchType ==
    ASSUME TypeOK, NEW r \in Range, NEW left \in SUBSET Range,
           FetchBatch(r, left)
    PROVE  LocalsOK'
  BY CutIsRange, FetchType DEF FetchBatch

\* or that is at the head of the loop of step 7,
LEMMA NextBatchType ==
    ASSUME TypeOK, NEW rest \in Range, NEW left \in SUBSET Range,
           NextBatch(rest, left)
    PROVE  LocalsOK'
<1>1. CASE rest.start < rest.end /\ FetchBatch(rest, left)
  BY <1>1, FetchBatchType
<1>2. CASE \E r \in First(left) : FetchBatch(r, left \ {r})
  <2>1. PICK r \in First(left) : FetchBatch(r, left \ {r})
    BY <1>2
  <2>2. r \in Range /\ left \ {r} \in SUBSET Range
    BY <2>1 DEF First
  <2>3. QED
    BY <2>1, <2>2, FetchBatchType
<1>3. CASE Drain(FALSE)
  BY <1>3, DrainType
<1>4. QED
  BY <1>1, <1>2, <1>3 DEF NextBatch

\* or of the loop of step 6.
LEMMA NextVerifyType == ASSUME TypeOK, NEW q, NextVerify(q) PROVE LocalsOK'
<1>1. CASE \E r \in First(Ranges(q)) : Fetch("verify", r, NoRange, {})
  <2>1. PICK r \in First(Ranges(q)) : Fetch("verify", r, NoRange, {})
    BY <1>1
  <2>2. r \in Range
    BY <2>1, RangesAreRanges DEF First
  <2>3. QED
    BY <2>1, <2>2, NoRangeIsRange, FetchType
<1>2. CASE NextBatch(NoRange, Ranges(q))
  BY <1>2, NoRangeIsRange, RangesAreRanges, NextBatchType
<1>3. QED
  BY <1>1, <1>2 DEF NextVerify

\* Spawning a deletion keeps the counts numbers.
LEMMA SpawnType == ASSUME TypeOK, Spawn PROVE deletions' \in [Block -> Nat]
  BY DEF TypeOK, Spawn

\* Whatever running() does after a scan keeps the locals' types.
LEMMA AfterScanType ==
    ASSUME TypeOK, NEW updated \in BOOLEAN, NEW q, AfterScan(updated, q)
    PROVE  LocalsOK' /\ deletions' \in [Block -> Nat]
<1>1. CASE Exit("interrupted")
  BY <1>1, ExitType DEF Results
<1>2. CASE Spawn /\ NextVerify(q)
  BY <1>2, SpawnType, NextVerifyType
<1>3. CASE Spawn /\ NextBatch(NoRange, Ranges(q))
  BY <1>3, SpawnType, NextBatchType, NoRangeIsRange, RangesAreRanges
<1>4. CASE Spawn /\ Drain(TRUE)
  BY <1>4, SpawnType, DrainType
<1>5. CASE Spawn /\ NextBatch(acc, todo)
  BY <1>5, SpawnType, NextBatchType DEF TypeOK
<1>6. QED
  BY <1>1, <1>2, <1>3, <1>4, <1>5 DEF AfterScan

\* What the wallet database does to its queue leaves it a queue.
LEMMA QueueType ==
    ASSUME prio \in [Height -> Priority]
    PROVE  /\ \A e, l : WithTip(e, l) \in [Height -> Priority]
           /\ \A r, l : Rewound(r, l) \in [Height -> Priority]
           /\ \A S, f : Recorded(S, f) \in [Height -> Priority]
  BY DEF WithTip, Rewound, Recorded, Priority, Ignored, Scanned, Historic,
         FoundNote, ChainTip, Verify

\* The initial states have the types.
LEMMA InitType == Init => TypeOK
<1>1. \A c \in Chains : c \subseteq Block
  BY ConstantsAssumption DEF IsChain
<1>2. Init => chain \subseteq Block
  BY <1>1 DEF Init
<1>3. Init => prio \in [Height -> Priority] /\ deletions \in [Block -> Nat]
  BY DEF Init, NoDeletions, Priority, Ignored, Verify
<1>4. Init => reorgs \in 0..MaxReorgs /\ stops \in 0..MaxStops
  BY ConstantsAssumption DEF Init
<1>5. QED
  BY <1>2, <1>3, <1>4, NoRangeIsRange DEF Init, TypeOK

\* The part of TypeOK that is about the server, the disk and the wallet.
StoresOK ==
    /\ chain \subseteq Block /\ reorgs \in 0..MaxReorgs
    /\ files \subseteq Block /\ meta \subseteq Block
    /\ scanned \subseteq Block /\ prio \in [Height -> Priority]
    /\ requested \in BOOLEAN
    /\ stops \in 0..MaxStops /\ baseline \subseteq Block

\* TypeOK, and the same of the next state, in three parts.
LEMMA TypeSplits ==
    /\ TypeOK <=> StoresOK /\ LocalsOK /\ deletions \in [Block -> Nat]
    /\ TypeOK' <=> StoresOK' /\ LocalsOK' /\ (deletions \in [Block -> Nat])'
  BY DEF TypeOK, StoresOK, LocalsOK, Pcs, Results

\* Rows are blocks.
LEMMA UpsertType ==
    ASSUME NEW R \in SUBSET Block, NEW S \in SUBSET Block
    PROVE  Upsert(R, S) \in SUBSET Block
  BY DEF Upsert

\* Every step keeps the types.
LEMMA TypeStep == TypeOK /\ [Next]_vars => TypeOK'
<1> SUFFICES ASSUME TypeOK, [Next]_vars PROVE TypeOK'
  OBVIOUS
<1> USE DEF server, disk, wallet, locals, bounds
<1>1. CASE Start
  BY <1>1 DEF Start, TypeOK
<1>2. CASE UpdateChainTip
  <2>1. prio' \in [Height -> Priority]
    BY <1>2, QueueType DEF UpdateChainTip, TypeOK
  <2>2. QED
    BY <1>2, <2>1 DEF UpdateChainTip, TypeOK
<1>3. CASE SuggestRanges
  <2>1. StoresOK'
    BY <1>3, TypeSplits DEF SuggestRanges, StoresOK
  <2>2. CASE Exit("interrupted")
    BY <2>1, <2>2, ExitType, TypeSplits DEF Results
  <2>3. CASE NextVerify(prio) /\ UNCHANGED deletions
    BY <2>1, <2>3, NextVerifyType, TypeSplits
  <2>4. QED
    BY <1>3, <2>2, <2>3 DEF SuggestRanges
<1>4. CASE FetchBlock
  <2>1. PICK b \in chain :
            /\ files' = files \cup {b}
            /\ \/ meta' = Upsert(meta, fetched \cup {b}) /\ Exit("interrupted")
               \/ /\ fetched' = fetched \cup {b}
                  /\ UNCHANGED <<meta, pc, phase, range, acc, todo, again,
                                deletions, result>>
    BY <1>4 DEF FetchBlock
  <2>2. b \in Block /\ Upsert(meta, fetched \cup {b}) \in SUBSET Block
    BY UpsertType DEF TypeOK
  <2>3. StoresOK'
    BY <1>4, <2>1, <2>2, TypeSplits DEF FetchBlock, StoresOK
  <2>4. CASE Exit("interrupted")
    BY <2>3, <2>4, ExitType, TypeSplits DEF Results
  <2>5. CASE /\ fetched' = fetched \cup {b}
             /\ UNCHANGED <<pc, phase, range, acc, todo, again, deletions, result>>
    BY <2>2, <2>3, <2>5, TypeSplits DEF LocalsOK
  <2>6. QED
    BY <2>1, <2>4, <2>5
<1>5. CASE EndFetch
  <2>1. StoresOK'
    BY <1>5, UpsertType, TypeSplits DEF EndFetch, StoresOK, LocalsOK
  <2>2. CASE Exit("interrupted")
    BY <2>1, <2>2, ExitType, TypeSplits DEF Results
  <2>3. CASE pc' = "treestate" /\ UNCHANGED <<locals, deletions, result>>
    BY <2>1, <2>3, TypeSplits DEF LocalsOK, Pcs
  <2>4. QED
    BY <1>5, <2>2, <2>3 DEF EndFetch
<1>6. CASE FetchTreeState
  BY <1>6 DEF FetchTreeState, TypeOK
<1>7. CASE ScanFails
  <2>1. StoresOK'
    BY <1>7, TypeSplits DEF ScanFails, StoresOK
  <2>2. QED
    BY <1>7, <2>1, ExitType, TypeSplits DEF ScanFails, Results
<1>8. CASE ScanSucceeds
  <2>1. prio' \in [Height -> Priority] /\ scanned' \subseteq Block
    BY <1>8, QueueType DEF ScanSucceeds, TypeOK, Cached
  <2>2. StoresOK'
    BY <1>8, <2>1, TypeSplits DEF ScanSucceeds, StoresOK
  <2>3. AfterScan(\E r \in First(Ranges(prio')) : r.prio > range.prio, prio')
    BY <1>8 DEF ScanSucceeds
  <2>4. QED
    BY <2>2, <2>3, AfterScanType, TypeSplits
<1>9. CASE ScanFindsReorg
  <2>1. PICK b \in Cached : ReorgAt(b, RewindHeight(height[b]))
    BY <1>9 DEF ScanFindsReorg
  <2>2. prio' \in [Height -> Priority]
    BY <2>1, QueueType DEF ReorgAt, TypeOK
  <2>3. scanned' \subseteq Block /\ files' \subseteq Block /\ meta' \subseteq Block
    BY <2>1 DEF ReorgAt, TypeOK
  <2>4. StoresOK'
    BY <1>9, <2>2, <2>3, TypeSplits DEF ScanFindsReorg, StoresOK
  <2>5. AfterScan(TRUE, prio') \/ Exit("error")
    BY <2>1 DEF ReorgAt
  <2>6. QED
    BY <2>4, <2>5, AfterScanType, ExitType, TypeSplits DEF Results
<1>10. CASE FinishRunning
  <2>1. StoresOK'
    BY <1>10, TypeSplits DEF FinishRunning, StoresOK
  <2>2. CASE again /\ ~requested
    <3>1. /\ pc' = "tip" /\ deletions' = NoDeletions /\ again' = FALSE
          /\ phase' = "batch" /\ range' = NoRange /\ acc' = NoRange /\ todo' = {}
          /\ fetched' = fetched /\ result' = result
      BY <1>10, <2>2 DEF FinishRunning
    <3>2. LocalsOK'
      BY <3>1, NoRangeIsRange, TypeSplits DEF LocalsOK, Pcs
    <3>3. deletions' \in [Block -> Nat]
      BY <3>1 DEF NoDeletions
    <3>4. QED
      BY <2>1, <3>2, <3>3, TypeSplits
  <2>3. CASE ~(again /\ ~requested)
    BY <1>10, <2>1, <2>3, ExitType, TypeSplits DEF FinishRunning, Results
  <2>4. QED
    BY <2>2, <2>3
<1>11. CASE DeletionTasks
  <2>1. PICK b \in Block : DeleteFile(b)
    BY <1>11 DEF DeletionTasks
  <2>2. deletions' \in [Block -> Nat]
    BY <2>1 DEF DeleteFile, TypeOK
  <2>3. QED
    BY <2>1, <2>2 DEF DeleteFile, TypeOK
<1>12. CASE ServerAdvances
  <2>1. chain' \subseteq Block
    BY <1>12, ConstantsAssumption DEF ServerAdvances, IsChain
  <2>2. reorgs' \in 0..MaxReorgs
    BY <1>12 DEF ServerAdvances, TypeOK
  <2>3. QED
    BY <1>12, <2>1, <2>2 DEF ServerAdvances, TypeOK
<1>13. CASE Interrupt
  BY <1>13, ConstantsAssumption DEF Interrupt, TypeOK
<1>14. CASE Stop
  <2>1. StoresOK'
    BY <1>14, TypeSplits, ConstantsAssumption DEF Stop, StoresOK
  <2>2. QED
    BY <1>14, <2>1, ExitType, TypeSplits DEF Stop, Results
<1>15. CASE UNCHANGED vars
  BY <1>15 DEF vars, TypeOK
<1>16. QED
  BY <1>1, <1>2, <1>3, <1>4, <1>5, <1>6, <1>7, <1>8, <1>9, <1>10, <1>11, <1>12,
     <1>13, <1>14, <1>15 DEF Next, Sync

\* Every variable of the sync stays in its type, whatever the order in which the
\* process, its tasks, the server and the user step.
THEOREM TypeCorrect == Spec => []TypeOK
  BY InitType, TypeStep, PTL DEF Spec

-----------------------------------------------------------------------------
(* The cache: no file without an owner, and none left by a normal exit. *)

\* block_meta is in use only between a range's download and its scan.
FetchedInHand == Working \/ fetched = {}

Pending == {b \in Block : deletions[b] > 0}

CacheInv == CacheAccounted /\ NormalExitCleansCache /\ FetchedInHand

\* A step that ends the process, but not by itself, cannot break the invariant.
LEMMA ExitCache ==
    ASSUME NEW how \in {"interrupted", "error"}, Exit(how) PROVE CacheInv'
  BY DEF Exit, CacheInv, CacheAccounted, NormalExitCleansCache, FetchedInHand, Running

\* What NextBatch and NextVerify leave: a process with an empty block_meta.
LEMMA NextBatchCache ==
    ASSUME NEW rest, NEW left, NextBatch(rest, left)
    PROVE  pc' \in {"fetch", "drain"} /\ fetched' = {}
  BY DEF NextBatch, FetchBatch, Fetch, Drain

\* The head of the loop of step 6 likewise.
LEMMA NextVerifyCache ==
    ASSUME NEW q, NextVerify(q) PROVE pc' \in {"fetch", "drain"} /\ fetched' = {}
  BY NextBatchCache DEF NextVerify, Fetch

\* Where running() goes on, the files in hand pass to a deletion task.
LEMMA AfterScanCache ==
    ASSUME TypeOK, CacheInv, pc = "scan", files' \subseteq files, baseline' = baseline,
           NEW updated, NEW q, AfterScan(updated, q)
    PROVE  CacheInv'
<1>1. CASE Exit("interrupted")
  BY <1>1, ExitCache
<1>2. CASE Spawn /\ pc' \in {"fetch", "drain"} /\ fetched' = {}
  <2>1. Pending' = Pending \cup fetched
    BY <1>2 DEF Pending, Spawn, TypeOK
  <2>2. files \subseteq baseline \cup fetched \cup Pending
    BY DEF CacheInv, CacheAccounted, Running, Pending
  <2>3. files' \subseteq baseline' \cup fetched' \cup Pending'
    BY <2>1, <2>2
  <2>4. QED
    BY <1>2, <2>3
       DEF CacheInv, CacheAccounted, NormalExitCleansCache, FetchedInHand, Running, Pending
<1>3. QED
  BY <1>1, <1>2, NextBatchCache, NextVerifyCache DEF AfterScan, Drain

\* The cache invariant holds at first.
LEMMA InitCache == Init => CacheInv
  BY DEF Init, CacheInv, CacheAccounted, NormalExitCleansCache, FetchedInHand, Running

\* Every step keeps the cache invariant.
LEMMA CacheStep == TypeOK /\ CacheInv /\ [Next]_vars => CacheInv'
<1> SUFFICES ASSUME TypeOK, CacheInv, [Next]_vars PROVE CacheInv'
  OBVIOUS
<1> USE DEF server, disk, wallet, locals, bounds
<1>1. CASE Start
  BY <1>1
     DEF Start, CacheInv, CacheAccounted, NormalExitCleansCache, FetchedInHand,
         Running, Working
<1>2. CASE UpdateChainTip
  BY <1>2
     DEF UpdateChainTip, CacheInv, CacheAccounted, NormalExitCleansCache,
         FetchedInHand, Running, Working
<1>3. CASE SuggestRanges
  <2>1. CASE NextVerify(prio) /\ UNCHANGED deletions
    BY <1>3, <2>1, NextVerifyCache
       DEF SuggestRanges, CacheInv, CacheAccounted, NormalExitCleansCache,
           FetchedInHand, Running, Working
  <2>2. QED
    BY <1>3, <2>1, ExitCache DEF SuggestRanges
<1>4. CASE FetchBlock
  <2>1. PICK b \in chain :
            /\ files' = files \cup {b}
            /\ \/ Exit("interrupted")
               \/ /\ fetched' = fetched \cup {b}
                  /\ UNCHANGED <<pc, deletions, result>>
    BY <1>4 DEF FetchBlock
  <2>2. QED
    BY <1>4, <2>1, ExitCache
       DEF FetchBlock, CacheInv, CacheAccounted, NormalExitCleansCache,
           FetchedInHand, Running, Working
<1>5. CASE EndFetch
  BY <1>5, ExitCache
     DEF EndFetch, CacheInv, CacheAccounted, NormalExitCleansCache, FetchedInHand,
         Running, Working
<1>6. CASE FetchTreeState
  BY <1>6
     DEF FetchTreeState, CacheInv, CacheAccounted, NormalExitCleansCache,
         FetchedInHand, Running, Working
<1>7. CASE ScanFails
  BY <1>7, ExitCache DEF ScanFails
<1>8. CASE ScanSucceeds
  BY <1>8, AfterScanCache DEF ScanSucceeds
<1>9. CASE ScanFindsReorg
  <2>1. PICK b \in Cached : ReorgAt(b, RewindHeight(height[b]))
    BY <1>9 DEF ScanFindsReorg
  <2>2. files' \subseteq files /\ (AfterScan(TRUE, prio') \/ Exit("error"))
    BY <2>1 DEF ReorgAt
  <2>3. QED
    BY <1>9, <2>2, AfterScanCache, ExitCache DEF ScanFindsReorg
<1>10. CASE FinishRunning
  <2>1. fetched = {} /\ Pending = {} /\ files \subseteq baseline
    BY <1>10
       DEF FinishRunning, Awaited, NoDeletions, Pending, CacheInv, CacheAccounted,
           FetchedInHand, Running, Working
  <2>2. CASE again /\ ~requested
    <3>1. pc' = "tip" /\ fetched' = fetched /\ files' = files /\ baseline' = baseline
      BY <1>10, <2>2 DEF FinishRunning
    <3>2. QED
      BY <2>1, <3>1
         DEF CacheInv, CacheAccounted, NormalExitCleansCache, FetchedInHand, Running
  <2>3. CASE ~(again /\ ~requested)
    <3>1. /\ pc' = "off" /\ fetched' = {}
          /\ files' = files /\ baseline' = baseline
      BY <1>10, <2>3 DEF FinishRunning, Exit
    <3>2. QED
      BY <2>1, <3>1
         DEF CacheInv, CacheAccounted, NormalExitCleansCache, FetchedInHand, Running
  <2>4. QED
    BY <2>2, <2>3
<1>11. CASE DeletionTasks
  <2>1. PICK b \in Block : DeleteFile(b)
    BY <1>11 DEF DeletionTasks
  <2>2. Pending \ {b} \subseteq Pending' /\ files' = files \ {b}
    BY <2>1 DEF DeleteFile, Pending, TypeOK
  <2>3. QED
    BY <2>1, <2>2
       DEF DeleteFile, CacheInv, CacheAccounted, NormalExitCleansCache,
           FetchedInHand, Running, Working, Pending
<1>12. CASE ServerAdvances
  BY <1>12
     DEF ServerAdvances, CacheInv, CacheAccounted, NormalExitCleansCache,
         FetchedInHand, Running, Working
<1>13. CASE Interrupt
  BY <1>13
     DEF Interrupt, CacheInv, CacheAccounted, NormalExitCleansCache,
         FetchedInHand, Running, Working
<1>14. CASE Stop
  BY <1>14, ExitCache DEF Stop
<1>15. CASE UNCHANGED vars
  BY <1>15
     DEF vars, CacheInv, CacheAccounted, NormalExitCleansCache, FetchedInHand,
         Running, Working
<1>16. QED
  BY <1>1, <1>2, <1>3, <1>4, <1>5, <1>6, <1>7, <1>8, <1>9, <1>10, <1>11, <1>12,
     <1>13, <1>14, <1>15 DEF Next, Sync

\* The cache invariant is an invariant.
LEMMA CacheInvariant == Spec => []CacheInv
  BY InitCache, CacheStep, TypeCorrect, PTL DEF Spec

\* No block file on disk is without an owner while a sync runs: it was there
\* before, is about to be scanned, or is about to be removed.
THEOREM CacheIsAccountedFor == Spec => []CacheAccounted
<1>1. CacheInv => CacheAccounted
  BY DEF CacheInv
<1>2. QED
  BY <1>1, CacheInvariant, PTL

\* A sync that ends by itself has removed every block file it downloaded.
THEOREM NormalExitLeavesNoFile == Spec => []NormalExitCleansCache
<1>1. CacheInv => NormalExitCleansCache
  BY DEF CacheInv
<1>2. QED
  BY <1>1, CacheInvariant, PTL

-----------------------------------------------------------------------------
(* Shutdown. *)

\* Once a shutdown is requested, what running() does after a scan is to return,
\* or to wait for its deletions.
LEMMA AfterScanStops ==
    ASSUME TypeOK, requested, NEW updated \in BOOLEAN, NEW q, AfterScan(updated, q)
    PROVE  pc' # "fetch"
  BY DEF AfterScan, Exit, Drain, TypeOK

\* Only three steps can begin a download, and each of them looks at the request.
LEMMA StopStep ==
    ASSUME TypeOK, [Next]_vars, requested, Running, pc # "fetch"
    PROVE  pc' # "fetch"
<1>1. CASE Start
  BY <1>1 DEF Start
<1>2. CASE UpdateChainTip
  BY <1>2 DEF UpdateChainTip
<1>3. CASE SuggestRanges
  BY <1>3 DEF SuggestRanges, Exit
<1>4. CASE FetchBlock \/ EndFetch \/ FetchTreeState
  BY <1>4 DEF FetchBlock, EndFetch, FetchTreeState
<1>5. CASE ScanFails \/ Stop
  BY <1>5 DEF ScanFails, Stop, Exit
<1>6. CASE ScanSucceeds
  <2>1. AfterScan(\E r \in First(Ranges(prio')) : r.prio > range.prio, prio')
    BY <1>6 DEF ScanSucceeds
  <2>2. QED
    BY <2>1, AfterScanStops
<1>7. CASE ScanFindsReorg
  <2>1. PICK b \in Cached : ReorgAt(b, RewindHeight(height[b]))
    BY <1>7 DEF ScanFindsReorg
  <2>2. AfterScan(TRUE, prio') \/ Exit("error")
    BY <2>1 DEF ReorgAt
  <2>3. QED
    BY <2>2, AfterScanStops DEF Exit
<1>8. CASE FinishRunning
  BY <1>8 DEF FinishRunning, Exit
<1>9. CASE DeletionTasks \/ ServerAdvances \/ Interrupt \/ UNCHANGED vars
  BY <1>9 DEF DeletionTasks, DeleteFile, ServerAdvances, Interrupt, vars
<1>10. QED
  BY <1>1, <1>2, <1>3, <1>4, <1>5, <1>6, <1>7, <1>8, <1>9 DEF Next, Sync

\* Once Ctrl-C or the TUI has asked for it, no other range is downloaded, however
\* many are left.
THEOREM ShutdownEndsDownloads == Spec => NoFetchAfterShutdown
<1>1. TypeOK /\ [Next]_vars
          => [requested /\ Running /\ pc # "fetch" => pc' # "fetch"]_vars
  BY StopStep
<1>2. QED
  BY <1>1, TypeCorrect, PTL DEF Spec, NoFetchAfterShutdown
=============================================================================
