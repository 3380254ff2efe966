------------------------------ MODULE WalletSync ------------------------------
(***************************************************************************)
(* The sync command: src/commands/wallet/sync.rs.  One process runs        *)
(* running() in a loop: it learns the chain tip, asks the wallet database  *)
(* which ranges to scan, downloads each range into one file per block,     *)
(* records the blocks in the cache's metadata table, scans them into the   *)
(* wallet database and spawns a task that deletes the files.  Around it:   *)
(* a server whose chain grows and reorganises, the spawned deletion tasks, *)
(* Ctrl-C, errors and crashes, and the user who runs `sync` again.         *)
(*                                                                         *)
(* A block is named by its hash, so a file path (height and hash), a row   *)
(* of the metadata table and a row of the wallet's block table are all     *)
(* members of Block; sets of blocks stand for the directory and the tables.*)
(* The wallet database and FsBlockDb are libraries outside this repository *)
(* and are modelled from how sync.rs uses them.                            *)
(***************************************************************************)
EXTENDS Integers

CONSTANTS
    Block,             \* every block that some chain of the server contains
    height,            \* [Block -> 1..MaxHeight]
    parent,            \* [Block -> Block \cup {NoBlock}]
    NoBlock,
    Chains,            \* the chains the server can be on: sets of linked blocks
    MaxHeight,
    BatchSize,         \* BATCH_SIZE, 10_000 in the code
    RewindBlocks,      \* the 10 of saturating_sub(10)
    VerifyLookahead,   \* longest range the wallet database marks Verify
    HistoricEnds,      \* where the last note commitment subtree may end
    MaxReorgs,         \* bound: chain reorganisations
    MaxStops           \* bound: interrupts, errors of a call, and crashes

Height == 1..MaxHeight

At(S, h) == {b \in S : height[b] = h}

\* ScanPriority, with the states of a height that is never suggested first.
Ignored == 0
Scanned == 1
Historic == 2
FoundNote == 3
ChainTip == 4
Verify == 5
Priority == Ignored .. Verify

\* A ScanRange: heights start .. end - 1, all of one priority.
Range == [start : 0..MaxHeight + 1, end : 0..MaxHeight + 1, prio : Priority]
NoRange == [start |-> 0, end |-> 0, prio |-> Ignored]
Heights(r) == r.start .. (r.end - 1)

\* A chain has one block at each height up to its tip, each linked to the last.
IsChain(c) ==
    /\ c \subseteq Block
    /\ \A b \in c : height[b] > 1 => parent[b] \in c
    /\ \A b, d \in c : height[b] = height[d] => b = d

ASSUME ConstantsAssumption ==
    /\ MaxHeight \in Nat
    /\ BatchSize \in Nat \ {0}
    /\ RewindBlocks \in Nat \ {0, 1}
    /\ VerifyLookahead \in Nat
    /\ MaxReorgs \in Nat
    /\ MaxStops \in Nat
    /\ HistoricEnds \subseteq Nat
    /\ NoBlock \notin Block
    /\ height \in [Block -> Height]
    /\ parent \in [Block -> Block \cup {NoBlock}]
    /\ \A b \in Block : parent[b] \in Block => height[parent[b]] = height[b] - 1
    /\ \A c \in Chains : IsChain(c)

VARIABLES
    (* The server. *)
    chain,       \* the blocks of its current best chain
    reorgs,
    (* The disk: wallet_dir/blocks and blockmeta.sqlite. *)
    files,       \* the readable block files
    meta,        \* rows of the metadata table
    (* The wallet database. *)
    scanned,     \* rows of its block table
    prio,        \* its scan queue: the priority of each height
    (* The sync process: where running() stands and its locals. *)
    pc,
    phase,       \* the loop of step 6 ("verify") or of step 7 ("batch")
    range,       \* scan_range
    acc,         \* rest of the suggested range being cut into batches
    todo,        \* suggested ranges the loop of step 7 has not reached
    fetched,     \* block_meta of the range in hand
    again,       \* running() is about to return Ok(true)
    deletions,   \* how many of the spawned removals of each block's file are left
    requested,   \* shutdown.requested()
    result,      \* how the last process ended, "none" while one runs
    stops,
    (* History: the files left behind by earlier processes. *)
    baseline

server == <<chain, reorgs>>
disk == <<files, meta>>
wallet == <<scanned, prio>>
locals == <<phase, range, acc, todo, fetched, again>>
bounds == <<stops, baseline>>
vars == <<chain, reorgs, files, meta, scanned, prio, pc, phase, range, acc, todo,
          fetched, again, deletions, requested, result, stops, baseline>>

Running == pc # "off"

-----------------------------------------------------------------------------
(* The wallet database (external). *)

\* The l heights just above the highest scanned block.
Frontier(h, l) == /\ \A b \in scanned : height[b] < h
                  /\ \E b \in scanned : h <= height[b] + l

\* update_chain_tip: new heights join the queue, as Historic up to the end e of
\* the last subtree and as ChainTip above it; of the heights just above the
\* scanned ones, l are to be verified.
WithTip(e, l) ==
    [h \in Height |->
        IF At(chain, h) = {} THEN prio[h]
        ELSE IF Frontier(h, l) THEN Verify
        ELSE IF prio[h] # Ignored THEN prio[h]
        ELSE IF h <= e THEN Historic ELSE ChainTip]

\* truncate_to_height(r): the heights above r that the queue knew are to be
\* scanned again, the first l of them as Verify.
Rewound(r, l) ==
    [h \in Height |->
        IF h <= r \/ prio[h] = Ignored THEN prio[h]
        ELSE IF h <= r + l THEN Verify
        ELSE IF prio[h] = Scanned THEN Historic ELSE prio[h]]

\* put_blocks: the blocks' heights are scanned; a note found in them may raise a
\* range that was Historic.
Recorded(S, f) ==
    [h \in Height |->
        IF At(S, h) # {} THEN Scanned
        ELSE IF h \in f THEN FoundNote ELSE prio[h]]

\* suggest_scan_ranges: the maximal runs of heights of one priority.
Ranges(q) ==
    {r \in [start : Height, end : 2..MaxHeight + 1, prio : Historic..Verify] :
        /\ r.start < r.end
        /\ \A h \in Heights(r) : q[h] = r.prio
        /\ r.start > 1 => q[r.start - 1] # r.prio
        /\ r.end <= MaxHeight => q[r.end] # r.prio}

\* The ranges suggested first.
First(R) == {r \in R : \A s \in R : s.prio <= r.prio}

\* What a scan may find: nothing, or a note next to one of the Historic ranges.
Discoveries(q) ==
    {{}} \cup {Heights(r) : r \in {s \in Ranges(q) : s.prio = Historic}}

-----------------------------------------------------------------------------
(* The block cache, FsBlockDb (external). *)

\* write_block_metadata: the rows are keyed by height.
Upsert(rows, S) == {b \in rows : At(S, height[b]) = {}} \cup S

\* The rows a scan of the range reads.
Cached == {b \in meta : height[b] \in Heights(range)}

\* scan_cached_blocks compares a block with the block below it: the one read
\* before it, or for the first one the wallet's, if it has one.
Follows(b) ==
    LET below == At(IF height[b] = range.start THEN scanned ELSE Cached, height[b] - 1)
    IN below \subseteq {parent[b]} /\ (height[b] > range.start => below # {})

-----------------------------------------------------------------------------
(* The sync process.  A step runs from one await to the next. *)

NoDeletions == [b \in Block |-> 0]

\* The process returns from run(), or dies: its tasks die with it.
Exit(how) ==
    /\ pc' = "off"
    /\ result' = how
    /\ phase' = "batch" /\ range' = NoRange /\ acc' = NoRange /\ todo' = {}
    /\ fetched' = {} /\ again' = FALSE
    /\ deletions' = NoDeletions

\* Mutant: running() returns without waiting for block_deletions.
AwaitedNever == TRUE

\* Every spawned deletion has finished.
Awaited == deletions = NoDeletions

Fetch(ph, r, rest, left) ==
    /\ pc' = "fetch"
    /\ phase' = ph /\ range' = r /\ acc' = rest /\ todo' = left
    /\ fetched' = {}
    /\ UNCHANGED <<again, result>>

\* Mutant: split_at without the test that its argument is below the end.
CutPastEnd(r) == r.start + BatchSize

\* The first batch of r: r.split_at(r.start + BATCH_SIZE).
Cut(r) == IF r.start + BatchSize < r.end THEN r.start + BatchSize ELSE r.end

FetchBatch(r, left) ==
    Fetch("batch", [r EXCEPT !.end = Cut(r)], [r EXCEPT !.start = Cut(r)], left)

\* running() has nothing left to do but to wait for the deletions; it will
\* return Ok(true) if b.
Drain(b) ==
    /\ pc' = "drain"
    /\ again' = b
    /\ fetched' = {}
    /\ UNCHANGED <<phase, range, acc, todo, result>>

\* The head of the loop of step 7.
NextBatch(rest, left) ==
    \/ rest.start < rest.end /\ FetchBatch(rest, left)
    \/ /\ rest.start >= rest.end
       /\ \E r \in First(left) : FetchBatch(r, left \ {r})
    \/ rest.start >= rest.end /\ left = {} /\ Drain(FALSE)

\* The head of the loop of step 6, with the suggestions for the queue q.
NextVerify(q) ==
    \/ \E r \in First(Ranges(q)) :
           r.prio = Verify /\ Fetch("verify", r, NoRange, {})
    \/ /\ \A r \in Ranges(q) : r.prio # Verify
       /\ NextBatch(NoRange, Ranges(q))

\* The user runs `sync`.
Start ==
    /\ pc = "off"
    /\ pc' = "tip"
    /\ requested' = FALSE
    /\ result' = "none"
    /\ baseline' = files
    /\ UNCHANGED <<server, disk, wallet, locals, deletions, stops>>

\* Steps 3 and 4: get_latest_block, then update_chain_tip.
UpdateChainTip ==
    /\ pc = "tip"
    /\ \E e \in HistoricEnds, l \in 0..VerifyLookahead : prio' = WithTip(e, l)
    /\ pc' = "suggest"
    /\ UNCHANGED <<server, disk, scanned, locals, deletions, requested, result,
                   bounds>>

\* The UTXOs have been refreshed; step 5, and the head of step 6 or 7.
SuggestRanges ==
    /\ pc = "suggest"
    /\ IF requested
       THEN Exit("interrupted")
       ELSE NextVerify(prio) /\ UNCHANGED deletions
    /\ UNCHANGED <<server, disk, wallet, requested, bounds>>

\* b is the next block of the stream.
Streamed(b) ==
    /\ height[b] \in Heights(range)
    /\ At(fetched, height[b]) = {}
    /\ \A h \in range.start .. (height[b] - 1) : At(fetched, h) # {}

\* The next block of the stream: its file is written, then pushed to block_meta.
\* Once a shutdown is requested the rows of what was fetched are written and
\* running() returns Ok(false).
FetchBlock ==
    /\ pc = "fetch"
    /\ \E b \in chain :
        /\ Streamed(b)
        /\ files' = files \cup {b}
        /\ IF requested
           THEN /\ meta' = Upsert(meta, fetched \cup {b})
                /\ Exit("interrupted")
           ELSE /\ fetched' = fetched \cup {b}
                /\ UNCHANGED <<meta, pc, phase, range, acc, todo, again, deletions, result>>
    /\ UNCHANGED <<server, wallet, requested, bounds>>

\* The stream ended: write_block_metadata.
EndFetch ==
    /\ pc = "fetch"
    /\ \A h \in Heights(range) : At(fetched, h) = {} => At(chain, h) = {}
    /\ meta' = Upsert(meta, fetched)
    /\ IF requested
       THEN Exit("interrupted")
       ELSE /\ pc' = "treestate"
            /\ UNCHANGED <<locals, deletions, result>>
    /\ UNCHANGED <<server, files, wallet, requested, bounds>>

\* download_chain_state answered.
FetchTreeState ==
    /\ pc = "treestate"
    /\ pc' = "scan"
    /\ UNCHANGED <<server, disk, wallet, locals, deletions, requested, result, bounds>>

\* Mutant: delete_cached_blocks is not called for the range.
SpawnNothing == UNCHANGED deletions

\* Mutants of AfterScan: the loop of step 7 goes on with the ranges it has, or
\* does not look at the shutdown request.
AfterScanIgnoringUpdates(updated, q) ==
    \/ requested /\ Exit("interrupted")
    \/ /\ ~requested
       /\ IF phase = "verify" THEN NextVerify(q) ELSE NextBatch(acc, todo)
       /\ deletions' = [b \in Block |-> deletions[b] + (IF b \in fetched THEN 1 ELSE 0)]

AfterScanIgnoringShutdown(updated, q) ==
    /\ IF phase = "batch"
       THEN IF updated THEN Drain(TRUE) ELSE NextBatch(acc, todo)
       ELSE IF updated THEN NextVerify(q) ELSE NextBatch(NoRange, Ranges(q))
    /\ deletions' = [b \in Block |-> deletions[b] + (IF b \in fetched THEN 1 ELSE 0)]

\* What running() does with the answer of scan_blocks: it spawns the deletion of
\* the files it fetched, and goes on with the suggestions for the queue q.
Spawn == deletions' = [b \in Block |-> deletions[b] + (IF b \in fetched THEN 1 ELSE 0)]

AfterScan(updated, q) ==
    \/ phase = "verify" /\ requested /\ Exit("interrupted")
    \/ /\ phase = "verify" /\ ~requested
       /\ IF updated THEN NextVerify(q) ELSE NextBatch(NoRange, Ranges(q))
       /\ Spawn
    \/ phase = "batch" /\ (updated \/ requested) /\ Drain(TRUE) /\ Spawn
    \/ phase = "batch" /\ ~updated /\ ~requested /\ NextBatch(acc, todo) /\ Spawn

Readable == Cached \subseteq files /\ At(Cached, range.start) # {}

\* scan_cached_blocks cannot read a block: scan_blocks returns the error.
ScanFails ==
    /\ pc = "scan"
    /\ ~Readable
    /\ Exit("error")
    /\ UNCHANGED <<server, disk, wallet, requested, bounds>>

ScanSucceeds ==
    /\ pc = "scan"
    /\ Readable
    /\ \A b \in Cached : Follows(b)
    /\ scanned' = scanned \cup Cached
    /\ \E f \in Discoveries(prio) : prio' = Recorded(Cached, f)
    /\ AfterScan(\E r \in First(Ranges(prio')) : r.prio > range.prio, prio')
    /\ UNCHANGED <<server, disk, requested, bounds>>

\* Mutant: the block that contradicts is dropped, but not the one below it.
RewindTooLittle(h) == h - 1

\* err.at_height().saturating_sub(10)
RewindHeight(h) == IF h > RewindBlocks THEN h - RewindBlocks ELSE 0

\* db_cache.with_blocks(Some(r + 1), None, ..) removes the file of every row above
\* r in order, unless the first of them is not at r + 1; it stops at the first
\* one that is lost.  Only after that does truncate_to_height remove the rows.
RowsAbove(r) == {x \in meta : height[x] > r}
Lost(r) == RowsAbove(r) \ files
CanRewindCache(r) == Lost(r) = {} /\ At(meta, r + 1) # {}
RemovedFiles(r) ==
    {x \in RowsAbove(r) : /\ At(meta, r + 1) # {}
                          /\ \A m \in Lost(r) : height[x] < height[m]}

\* A continuity error at block b: the wallet is truncated, then the cache.  When
\* the cache cannot be, sync fails with the wallet truncated and the rows kept.
ReorgAt(b, r) ==
    /\ ~Follows(b)
    /\ \A x \in Cached : height[x] < height[b] => Follows(x)
    /\ scanned' = {x \in scanned : height[x] <= r}
    /\ \E l \in 0..VerifyLookahead : prio' = Rewound(r, l)
    /\ files' = files \ RemovedFiles(r)
    /\ IF CanRewindCache(r)
       THEN meta' = meta \ RowsAbove(r) /\ AfterScan(TRUE, prio')
       ELSE meta' = meta /\ Exit("error")

ScanFindsReorg ==
    /\ pc = "scan"
    /\ Readable
    /\ \E b \in Cached : ReorgAt(b, RewindHeight(height[b]))
    /\ UNCHANGED <<server, requested, bounds>>

\* The deletion tasks were awaited: running() returns, and is called again if it
\* returned Ok(true).
FinishRunning ==
    /\ pc = "drain"
    /\ Awaited
    /\ IF again /\ ~requested
       THEN /\ pc' = "tip"
            /\ deletions' = NoDeletions
            /\ again' = FALSE
            /\ phase' = "batch" /\ range' = NoRange /\ acc' = NoRange /\ todo' = {}
            /\ UNCHANGED <<fetched, result>>
       ELSE Exit(IF again THEN "interrupted" ELSE "ok")
    /\ UNCHANGED <<server, disk, wallet, requested, bounds>>

-----------------------------------------------------------------------------
(* The tasks, the server and the user. *)

\* A spawned task removes one of its files; an error is only logged.
DeleteFile(b) ==
    /\ deletions[b] > 0
    /\ files' = files \ {b}
    /\ deletions' = [deletions EXCEPT ![b] = @ - 1]
    /\ UNCHANGED <<server, meta, wallet, pc, locals, requested, result, bounds>>

\* A block is mined, or the server moves to a longer chain.
ServerAdvances ==
    /\ \E c \in Chains :
        /\ \A h \in Height : At(chain, h) # {} => At(c, h) # {}
        /\ \E h \in Height : At(chain, h) = {} /\ At(c, h) # {}
        /\ chain' = c
        /\ reorgs' = IF chain \subseteq c THEN reorgs ELSE reorgs + 1
    /\ reorgs' <= MaxReorgs
    /\ UNCHANGED <<disk, wallet, pc, locals, deletions, requested, result, bounds>>

\* Ctrl-C, or the user leaves the TUI.
Interrupt ==
    /\ Running /\ ~requested
    /\ stops < MaxStops
    /\ requested' = TRUE
    /\ stops' = stops + 1
    /\ UNCHANGED <<server, disk, wallet, pc, locals, deletions, result, baseline>>

\* block_file.write_all() returns before the bytes are in the file, and nothing
\* flushes it: until the range is scanned, its files may still be incomplete.
Unflushed == fetched \cup {b \in chain : pc = "fetch" /\ Streamed(b)}

\* A call to the server, the disk or the database fails, a scan overtakes a write
\* and finds half a block, or the process is killed, with writes still to come.
Stop ==
    /\ Running
    /\ stops < MaxStops
    /\ stops' = stops + 1
    /\ \E S \in SUBSET Unflushed : files' = files \ S
    /\ Exit("error")
    /\ UNCHANGED <<server, meta, wallet, requested, baseline>>

-----------------------------------------------------------------------------
Init ==
    /\ chain \in Chains
    /\ reorgs = 0
    /\ files = {} /\ meta = {}
    /\ scanned = {} /\ prio = [h \in Height |-> Ignored]
    /\ pc = "off" /\ phase = "batch" /\ range = NoRange /\ acc = NoRange
    /\ todo = {} /\ fetched = {} /\ again = FALSE
    /\ deletions = NoDeletions
    /\ requested = FALSE /\ result = "none"
    /\ stops = 0 /\ baseline = {}

Sync ==
    \/ Start \/ UpdateChainTip \/ SuggestRanges
    \/ FetchBlock \/ EndFetch \/ FetchTreeState
    \/ ScanFails \/ ScanSucceeds \/ ScanFindsReorg
    \/ FinishRunning

DeletionTasks == \E b \in Block : DeleteFile(b)

Next == Sync \/ DeletionTasks \/ ServerAdvances \/ Interrupt \/ Stop

Spec == Init /\ [][Next]_vars

\* The process runs while it is up, its tasks run, and the user runs it again.
FairSpec == Spec /\ WF_vars(Sync) /\ WF_vars(DeletionTasks)

-----------------------------------------------------------------------------
TypeOK ==
    /\ chain \subseteq Block /\ reorgs \in 0..MaxReorgs
    /\ files \subseteq Block /\ meta \subseteq Block
    /\ scanned \subseteq Block /\ prio \in [Height -> Priority]
    /\ pc \in {"off", "tip", "suggest", "fetch", "treestate", "scan", "drain"}
    /\ phase \in {"verify", "batch"}
    /\ range \in Range /\ acc \in Range /\ todo \subseteq Range
    /\ fetched \subseteq Block /\ again \in BOOLEAN
    /\ deletions \in [Block -> Nat]
    /\ requested \in BOOLEAN
    /\ result \in {"none", "ok", "interrupted", "error"}
    /\ stops \in 0..MaxStops /\ baseline \subseteq Block

\* While a process runs, every block file is one it found when it started, one of
\* the range in hand, or one that a deletion it spawned will remove.
CacheAccounted ==
    Running => files \subseteq baseline \cup fetched
                              \cup {b \in Block : deletions[b] > 0}

\* A sync that ends by itself leaves no file of its own behind: the deletions are
\* awaited before running() returns.
NormalExitCleansCache == ~Running /\ result = "ok" => files \subseteq baseline

\* The ranges running() still holds are those the wallet would suggest now: the
\* copy read before the downloads is never stale when it is used.
Working == pc \in {"fetch", "treestate", "scan"}
PlanIsQueue ==
    Working /\ phase = "batch" =>
        Heights(range) \cup Heights(acc) \cup UNION {Heights(r) : r \in todo}
            = {h \in Height : prio[h] > Scanned}

\* A sync that ends by itself has scanned every height the wallet knew of.
FinishedMeansScanned ==
    ~Running /\ result = "ok" => \A h \in Height : prio[h] \in {Ignored, Scanned}

\* The code's intent: a reorganisation is dealt with inside the sync that finds it.
ReorgIsHandled == [][ScanFindsReorg => pc' # "off" \/ requested]_vars

\* The code's intent: what was downloaded is there when it is scanned.
DownloadsStay == pc \in {"treestate", "scan"} => fetched \subseteq files

\* Re-running `sync` resumes where it left off, whatever stopped it: in the end
\* the wallet holds the server's chain.
Converges == <>[](scanned = chain)

\* Once a shutdown is requested no other range is downloaded.
NoFetchAfterShutdown ==
    [][requested /\ Running /\ pc # "fetch" => pc' # "fetch"]_vars

View == INSTANCE WalletView WITH
            known <- {h \in Height : prio[h] # Ignored},
            outcome <- result

\* The sync implements what WalletView promises.
ImplementsView == View!Spec

=============================================================================
