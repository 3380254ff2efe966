# Formal models of zcash-devtool

`zcash-devtool` is a command-line light wallet and toolbox for Zcash. Each
invocation is one process that runs one command against a wallet directory and,
for some commands, a `lightwalletd` server. This directory holds TLA+ models of
its parts, the TLC configurations that check them on small instances, and TLAPS
proofs of their main properties for every value of the constants.

To run them (paths are those of the repository, under `src/`):

    tlc -config MCWalletSync.cfg MCWalletSync
    tlc -config WalletLifecycle.cfg WalletLifecycle
    tlc -config Shutdown.cfg Shutdown
    tlc -config MCPczt.cfg MCPczt
    tlc -config MCPayments.cfg MCPayments
    tlc -config MCTools.cfg MCTools
    tlapm WalletSyncProofs.tla        (and the other *Proofs modules)

## 1. The system

### Components

| Component | Code | State | Operations | Model |
|---|---|---|---|---|
| Sync loop | `commands/wallet/sync.rs` | the block cache (one file per block, a metadata table), the wallet's blocks and scan queue, the ranges still to do, spawned deletions | get the tip, suggest ranges, download, scan, rewind, delete | `WalletSync`, promise in `WalletView` |
| Shutdown and sync TUI | `main.rs`, `commands/wallet/sync/defrag.rs`, `tui.rs` | two oneshot channels, the TUI's action channel, its event queue; the ranges, heights and screen it draws | Ctrl-C, `q`, tick, render, the reports of sync, look at the request, draw | `Shutdown`, `Defrag` |
| Wallet directory | `config.rs`, `data.rs`, `init`, `init_fvk`, `reset`, `gen_account`, `import_ufvk`, `upgrade` | identity file, `keys.toml`, `data.sqlite`, `blockmeta.sqlite`, `blocks/` | one command each | `WalletLifecycle` |
| Transaction enhancement | `commands/wallet/enhance.rs` | requests the wallet database makes, requests already answered | fetch status, fetch transaction, list an address's transactions, record | `Enhance` |
| Payments | `send.rs`, `pay.rs`, `shield.rs`, `propose.rs` | notes, stored transactions, what was broadcast | propose, confirm, create and store, broadcast, read the answer | `Payments` |
| PCZT pipeline | `commands/pczt/*`, `helpers/pczt/create_manual.rs` | one partially created transaction, in copies passed from process to process | create, update, redact, prove, sign, combine, send | `Pczt`, `PcztRedact`, `PcztOutputs`, `Payments` |
| QR transport | `pczt/qr.rs`, `pczt/qr/tui.rs`, `keystone.rs` | the parts shown and the parts seen | encode, show, scan, decode | `QrTransport` |
| Tree tools | `wallet/tree/explore.rs`, `fix.rs` | a place in a commitment tree, the region on the screen | walk, draw; one database call | `TreeWalk` |
| Server choice, transport | `remote.rs`, `socks.rs` | none after the connection | pick a server, connect | a failing call of the commands |
| Key and address tools | `zip48/*`, `create_multisig_address.rs`, ... | none | one-shot derivations | not modelled |
| Reports | `balance`, `list_*`, `inspect/*` | none | read and print | not modelled |
| Command line | `main.rs`, `commands.rs` and the like | the command that runs | parse arguments, run one command | `Tools`, in part |

### How they interact

* The sync loop calls the server (`get_latest_block`, `get_block_range`,
  `get_tree_state`), the wallet database (`update_chain_tip`,
  `suggest_scan_ranges`, `put_blocks`, `truncate_to_height`) and the block cache
  (`write_block_metadata`, `with_blocks`, `truncate_to_height`). The databases
  are libraries outside the repository; the block *files* are written and removed
  by `sync.rs` itself.
* After each scanned range it spawns a tokio task that removes the range's
  files, goes on, and awaits all these tasks only before `running()` returns.
* Ctrl-C and the TUI reach the sync loop through `ShutdownListener`, which
  `sync.rs` polls; the loop reaches the TUI through a channel whose closing is a
  second way of asking it to stop.
* `init` and `init-fvk` make the directory the other commands work in; `reset`
  erases the two databases and the folder and makes them again; all of them
  create an account that the next `sync` scans for.
* The payment commands read the notes that `sync` found and `enhance` completed,
  and store the transaction they create before they broadcast it. Nothing but
  the database's own transactions keeps two such processes apart.
* A PCZT is the only thing that the `pczt` commands, perhaps on different
  machines, share; each reads one from stdin and writes another to stdout, or
  shows it as QR codes to a camera.
* `sync` reports its ranges and blocks to the TUI, which draws them; `tree
  explore` reads a tree that another process may be extending or pruning.

### What is hard

* *Concurrency*: the deletions spawned for one range run during the next
  downloads; the TUI, its event task and the sync loop run side by side.
* *Stale reads*: the list of ranges is read once and used for many downloads and
  scans, which change the queue it came from; the chain may be reorganised
  between any two calls to the server.
* *Partial failure*: files, metadata rows and wallet rows are three stores with
  no transaction over them; `reset` erases before it knows that it can rebuild;
  removals that fail are only logged.
* *Crashes*: after `init` has created one of its five files, between a block's
  file and its row, in the middle of a block's file.
* *Timeouts*: there are none. A server that does not answer blocks the sync, and
  the shutdown request is not looked at while it does.

* *Lost answers and retries*: a payment is stored, its notes spent, before the
  server sees it; the server may take it and its answer be lost.
* *Work that makes work*: `enhance` loops over a list that its own answers add
  to and that other processes change.
* *Any order*: signers and provers run in parallel or in turn; QR parts come in
  any order, with any of them missing.
* *Boundaries*: heights of 0 and above 32 bits, indices per pool, cells per
  screen, the right edge of a tree of 2^32 leaves.

The hazards, each at its line, are listed in `PROJECT.json`, with the properties
that would catch them.

### What makes each component correct

* **Sync loop.** It takes in only blocks that link to each other and to what the
  wallet holds; gives up blocks only on evidence that two do not link; ends by
  itself only when everything known is scanned; leaves no file behind; works
  through the ranges that the wallet would suggest now, not those it suggested
  once; stops when asked; and, run again after any failure, reaches the server's
  chain.
* **Shutdown.** A request is not lost when the look at it takes it out of its
  channel; the two ways of asking agree; a range broken off is not scanned as if
  it were whole; `q` ends the sync.
* **Wallet directory.** Spending accounts come from the mnemonic that is stored,
  the mnemonic can be decrypted, and a successful reset restarts from it.
* **Enhancement.** It ends, though answers add to its list; when it does, every
  ancestor it could learn of is in the wallet; and nothing unmined is recorded as
  mined.
* **Payments.** A stored transaction's notes are not spent again before it
  expires; success means that the server took all of the proposal; and no failure
  keeps notes spent for ever.
* **PCZT pipeline.** A derivation is recorded only on spends of the wallet it is
  of; no role undoes another's work or must come first; redaction removes what is
  named and no more; an address is recorded on the output that pays it.
* **QR transport.** What is written is one transaction, made of parts of that one
  alone, and a scan ends.
* **Screens.** The tree that is drawn is the wallet's, and so is the progress.

## 2. The models

### WalletSync (with MCWalletSync, WalletView)

A block is identified by its hash, so a block file (whose name is height and
hash), a metadata row and a row of the wallet's block table are all members of
the constant `Block`; `height` and `parent` link them into the chains of the
constant `Chains`.

| Variable | Code |
|---|---|
| `chain`, `reorgs` | the server's best chain; bound on its reorganisations |
| `files`, `meta` | readable files in `blocks/`; rows of `blockmeta.sqlite` |
| `scanned`, `prio` | the wallet's block table; its scan queue, a priority per height |
| `pc` | where `running()` stands, from one await to the next |
| `phase` | the loop of step 6 (`verify`) or step 7 (`batch`) |
| `range`, `acc`, `todo` | `scan_range`; the rest of the range `scan_ranges` is cutting by `BATCH_SIZE`; the ranges its iterator has not reached |
| `fetched` | `block_meta` of the range in hand |
| `deletions` | `block_deletions`: removals still to be done, per file. A count, because two tasks may own the same path |
| `again`, `result` | `Ok(true)`; how the last process ended |
| `requested` | `shutdown.requested()` |
| `baseline` | history: the files present when the process began |

| Action | Code |
|---|---|
| `Start` | the user runs `sync` |
| `UpdateChainTip` | steps 3 and 4 |
| `SuggestRanges` | step 5 and the head of the loop of step 6 or 7 |
| `FetchBlock`, `EndFetch` | one round of the loop of `download_blocks`, and its end with `write_block_metadata` |
| `FetchTreeState` | `download_chain_state` |
| `ScanSucceeds`, `ScanFails`, `ScanFindsReorg` | the three outcomes of `scan_blocks`, each with what `running()` does next: spawn the deletion, go on with the old list or ask for a new one, or return |
| `FinishRunning` | awaiting `block_deletions`, and the loop around `running()` |
| `DeleteFile` | one removal of a spawned task |
| `Interrupt`, `Stop` | a shutdown request; a failing call or a crash, which may leave files that were never flushed unreadable |
| `ServerAdvances` | a block is mined or a longer chain wins |

The wallet database is modelled from how `sync.rs` uses it. What it decides for
itself is a choice: how much of the queue becomes `Verify` (at most
`VerifyLookahead` heights), where the last subtree ends (`HistoricEnds`), whether
a scan finds a note that raises a range, and the order of ranges of one priority.
The suggested ranges themselves are computed: `Ranges` is the set of maximal runs
of heights of one priority.

`WalletView` is the promise: the wallet's blocks, the heights it knows, and how
the last sync ended. Its steps learn of heights, adopt a run of linked blocks
that was not scanned, truncate on two blocks that do not link, and end, `ok` only
when all that is known is scanned. Cache, plan, deletions, retries and requests
do not appear in it. `WalletSync` implements it under the mapping
`known <- {h : prio[h] # Ignored}`, `outcome <- result`.

### Shutdown

`signal` and `tuiQuit` are the two oneshot channels of `ShutdownListener`;
`requested()` uses `try_recv`, so a look *removes* the message, and the second
look finds the channel closed: `Triggered` is "not `Empty`", as in the code.
`app` is where `App::run` stands, `open` the receiving end of its action channel,
`events` and `actions` the two queues a key press goes through, `pc` where
`sync.rs` stands among its looks and reports. An error in `App::run` drops the
`App` field by field in the order of their declaration (`DropNotify`, then
`DropReceiver`).

`WalletSync` has the shutdown request as one sticky Boolean and no reports. It
may: `Shutdown` shows that a request stays (`RequestStays`) and that a closed
channel is a request (`ClosedMeansRequested`), so a sync that returns because its
report failed is one that returns because it was asked to.

### WalletLifecycle

One action per write of each command, in the order of the code, with `Stop`
between any two. `identity` and `keys` are the two files with what `create_new`
leaves when the write after it does not happen (`partial`, `empty`); `ready` and
`accounts` are `data.sqlite`; `cache` is `blockmeta.sqlite` and its folder.
`draft` is the account the running command will create. `before` is history.
A command that is refused before it writes anything is no step of the model.

### Defrag

The other half of `defrag.rs`: what the TUI shows. `queue` is the wallet's scan
queue (external; any assignment of priorities to heights), `entries` the map
`scan_ranges` that `update_scan_ranges` builds of it, `fetching`, `fetched` and
`scanning` the heights at work, `area` the size of the screen. One action per
report of `sync.rs`; `Cells`, `CellOf` and `CellPriority` are the drawing.

### Enhance and Payments

`Enhance` is the loop of `enhance.rs`: `left` is what remains of this pass over
`transaction_data_requests`, `satisfied` and `fresh` are `satisfied_requests` and
`new_request_encountered`, `asked` and `answer` the request between its await and
its last record. The database (external) asks for the status of what is unmined,
for transactions of which it knows only the id, and for those of its addresses;
storing one makes it want the ancestors (`StoreTransaction`). The server answers
a height of 0, or one no block can have, for what is not in the chain
(`RawHeights`).

`Payments` EXTENDS it with several processes on the same wallet:

| Variable | Code |
|---|---|
| `tx` | the transactions created, in order, each with its notes and, as history, what the server had when it was proposed |
| `stored`, `known` | those written to the wallet by the command; all that the wallet has |
| `pool`, `chain`, `accepted` | the server; history of what it ever took |
| `late`, `lateSeen` | the expiry heights the chain, and the wallet's chain height, have passed |
| `job[p]` | where process `p` stands between two awaits, with its proposal |

| Action | Code |
|---|---|
| `BeginSend`, `BeginPay`, `ShowProposal`, `CreatePczt` | the four commands that propose: `send` goes on, `pay` waits for the user, `propose` drops it, `pczt create` and `shield` write it out |
| `CreateTransactions` | `create_proposed_transactions`, which stores, then the refusal of several transactions |
| `ExtractPczt` | `pczt send` and `send-without-storing`, again and again on the same PCZT |
| `Submit`, `Answered` | `send_transaction`, and its `error_code` |
| `Fail` | any `?`, a lost answer, a crash |
| `Mine`, `Expire`, `SyncTip`, `SyncScan` | the server; the two moments at which sync tells the wallet something |

### Pczt

A copy of a PCZT is a set of facts: derivations, proofs, signatures, and the
fields that later roles need and `redact` may take. Each command is a function
from copies to a copy (`Updated`, `Proven`, `Signed`, `Agree` and union for
`combine`). A proof or shielded signature carries the run that made it, because
it is randomised: two of them make two copies that cannot be combined.
`Walk` is the repository's walkthrough, by copies in parallel or by relay;
`Extra` is any other command on any copy.

### Tools: TreeWalk, QrTransport, PcztRedact, PcztOutputs, Defrag

`Tools` is `main`: a run is one command, to its end. It composes five modules
that share no state, so that one run checks them.

* `TreeWalk`: `address`, the region `shown` with the place of every node, the
  block boundaries `marks`, and `tree`, which another process may change at any
  time. `RegionOf` and the `*At` operators are `Region::get` and the drawing code,
  case by case. The command line may name an address past the right edge
  (`Beyond`, one for each level): `parse_address` takes any. Looking for a parent that
  exists then passes the root, and the level, of 8 bits, comes round to 0 and the
  first leaf (`LooksFrom`); a build that checks for overflow panics instead
  (`ExploreBeyond`).
* `QrTransport`: `plain`, `screen` are the encoder and the code on the screen;
  `decoding`, `solved`, `pending` the decoder. The camera sees the screen or does
  not. A fragment the decoder knows is kept with the messages it was worked out
  from, and a mixture with those it is made of: should parts of two messages be mixed,
  what comes of it is of both. `Consistent`, the comparison that `ur` makes of each
  part with the first, is what prevents it. `Parsed` is `Pczt::parse`: it reads a
  transaction, and may read something else too.
* `PcztRedact`: a PCZT is the set of the values that can be taken from it; a key
  is a sequence of tokens, walked through the tables of `redact.rs` level by level.
  The properties read the same key as a path instead. What follows a name is looked
  at by nothing (`Covers`).
* `PcztOutputs`: `Counts` is the map of indices that `pay-manual` keeps;
  `BuiltIn` the list of outputs that the builder makes.

## 3. The runs

| Run | Instance | What it shows |
|---|---|---|
| `sync_safety` | `MCWalletSync.cfg`: 4 heights, two branches above height 1, batches of 2, 1 reorganisation, 2 stops | all safety properties of the sync, and that it implements `WalletView` |
| `sync_converges` | `MCWalletSyncLive.cfg`: 2 reorganisations, 1 stop | run again and again, sync reaches the server's chain |
| `sync_reorg_fails` | `MCWalletSyncReorg.cfg` | finding 1, by counterexample |
| `sync_deletion_race` | `MCWalletSyncRace.cfg` | finding 2, by counterexample |
| `lifecycle_safety` | `WalletLifecycle.cfg`: 2 seeds, 1 viewing key, 2 names, 2 accounts a seed, 2 stops | the directory stays consistent through any sequence of commands and crashes |
| `lifecycle_reset_forgets` | `WalletLifecycleForget.cfg` | finding 3, by counterexample |
| `lifecycle_reset_view_only` | `WalletLifecycleViewOnly.cfg` | finding 4, by counterexample |
| `shutdown` | `Shutdown.cfg`: ranges of 3 blocks, queues of 3 | requests are not lost, no partial scan, and `q` ends the sync |
| `pczt` | `MCPczt.cfg`: 2 wallets; an Orchard note, a Sapling note, a coin and a 2-of-2 coin; 1 command besides the walkthrough | derivations are true, and the walkthrough always gets to a transaction that can be sent |
| `payments` | `MCPayments.cfg`: 1 note, 2 transactions; two processes that pay, or one beside `enhance` with a payment from others and its ancestor | payments under failure, expiry and concurrency; `enhance` ends, with a complete ancestry |
| `tools` | `MCTools.cfg`: every tree of 3 levels; 3 fragments, 2 transactions and an account; every key, some after another; up to 3 addresses of 6 types; every queue of 5 heights on 5 screens | what the five modules of `Tools` promise |
| `redact_one_key` | `MCToolsRedact.cfg` | finding 5, by counterexample |

### Properties

* `CacheAccounted`, `NormalExitCleansCache`: while sync runs, every block file
  was there before, is in hand, or will be removed; after a normal end none of
  its own is left.
* `PlanIsQueue`: the ranges held by the loop of step 7 are exactly what the
  queue still wants; the list read before the downloads is not stale when used.
  This rests on `scan_blocks` answering `Ok(true)` whenever a range of higher
  priority appears.
* `FinishedMeansScanned`: a sync that ends with `ok` has nothing left to scan.
* `NoFetchAfterShutdown`: no download is begun after a request.
* `ImplementsView`: the refinement of section 2.
* `Converges`: in the end the wallet holds the server's chain.
* `AccountsMatchKeys`, `MnemonicCanBeRead`, `ResetRestartsWallet`: the wallet
  directory.
* `NoPartialScan`, `ClosedMeansRequested`, `RequestStays`, `QuitEndsSync`: the
  shutdown.
* `AncestryClosed`, `EnhanceEnds`, `MinedIsTrue`: enhance. The first relies on the
  loop making another pass after any request, the second on never asking twice.
* `NoSelfConflict`: no transaction spends a note of one that was stored and with
  the server when it was proposed, unless that has expired. It relies on storing
  before sending. Two processes that propose at the same time may still choose the
  same note: then the server takes one.
* `PaidInFull`, `NotesReturn`: success is full payment; in the end each note is
  spent in the chain or can be spent.
* `DerivationsAreTrue`, `Completes`: PCZTs. `Completes` would fail if a signer
  dropped what another signed, or the extractor asked for a proof too many.
* `DrawnInPlace`, `BoundariesExact`, `WalkStaysHere`: the picture of the tree.
* `DeliversWhatWasShown`: what `from-qr` writes has, for one transaction, all its
  fragments, each worked out from parts of that transaction alone, whatever else was
  put on the screen before or meanwhile, and whichever parts and mixtures the camera
  caught; and what is complete can be read. A decoder that took parts of two messages
  breaks it.
* `Arrives`: a scan ends. It leaves out a scan that began with a code of another
  transaction: the decoder is never reset, and such a scan does not end.
* `NamedAreGone`, `OtherFieldsStay`: redaction, in both directions.
* `AddressesOnTheirOutputs`: the two ways of counting outputs agree.
* `EntriesAreQueue`, `RangesAreShown`: the defragmentor's map agrees with the queue
  at every height up to the tip, and its cells hide no range.

### Bounds, and why they are enough

* *Four heights, fork above 1, batches of 2, rewind of 2.* A range is cut into
  a whole batch, or a whole one and a rest; a reorganisation replaces blocks in
  two batches, and the rewind ends inside, at, or below the fork. With
  `HistoricEnds = {0, 2}` the first list can hold two ranges of different
  priority, so that one is scanned from a list that was read before the other.
  `VerifyLookahead = 1` gives a verify range to step 6.
* *`RewindBlocks` at least 2.* The code has 10. With 1 only the block that
  contradicts is dropped, never the wallet's block it contradicts, and sync
  repeats the same error for ever: TLC found this livelock.
* *Reorganisations and stops.* One of each is needed for each finding, two stops
  let a retry fail in turn, two reorganisations let the server return to
  the branch it left in the liveness run.
* *Two seeds, names and accounts.* A second `init`, a second account, and a reset
  under another account's name all need two; nothing in the code counts further.
* *Queues of 3.* A quit behind ticks in both queues, and a queue at its bound.
  The code's channels are unbounded; the bound only delays the event task.
* *Payments: one note, two transactions, two processes.* A conflict needs one note
  and two transactions that spend it; a proposal of two steps uses up both. The
  payment of others and its ancestor are two, so that one answer makes a request.
  `MCInit` keeps apart "two pay" and "one pays, one enhances": three at once pass
  the time limit, and every pair that touches common state is there.
* *PCZT: one extra command.* It runs at any point, on any copy, once per
  behaviour; proofs (section 5) cover any number for the safety properties.
* *Trees of three levels, shards of one.* A region spans four levels at most, from
  grandparents to children, as the tree does; each case of being left or right, at
  the top, at a leaf, or at the edge of a shard occurs.
* *Three fragments.* A mixture can be solvable, unsolvable for now, or redundant.
* *Keys.* Each path of each value, alone, and after it one of four others and the
  mistaken ones; two items of each list, and an index past the last.
* *Five heights, two priorities, screens of 1 to 8 cells.* Ranges that touch, have
  gaps, begin at the birthday, and end at, below or above the tip; several blocks
  in a cell, and cells without blocks.

## 4. Fairness

* `WalletSync!FairSpec` has weak fairness on the sync process, `Start` included,
  and on the deletion tasks. The process runs while the machine is up; the
  multi-threaded runtime runs spawned tasks; `Start` is the user, whom the
  repository's README tells that re-running `sync` resumes where it left off.
  There is none on the server, on failures or on interrupts, and the latter are
  bounded, without which nothing could converge.
* `Shutdown!FairSpec` has weak fairness on sync, on the `App`, and on each of the
  two branches of its `select!`, which picks at random among those that are
  ready. For sync this says that the server keeps answering: the code has no
  timeout, and looks at the request only between two blocks.

* `Payments!Fairness`: a command that has been started goes on (it may also fail),
  the chain passes every expiry height, and sync is run again and again; this is
  what the wallet's expiry rests on. No fairness on mining, on the user's answer to
  `pay`, or on retries. For `enhance` it says that the server answers or fails.
* `Pczt!FairSpec`: those who hold the files go on with the walkthrough. It is weak:
  a step of it stays possible whatever else is run.
* `Tools!FairSpec` (QR only): the encoder goes on showing parts, one that helps
  comes up infinitely often (the fountain code is a pseudo-random sequence), and
  the camera does not miss all of those. Strong fairness, since each part is on
  the screen only for a moment.

## 5. The proofs

All are of the form `Spec => []Inv` or `Spec => [][A]_vars` for every value of
the constants that satisfies `ConstantsAssumption`: any set of blocks, any
chains, any batch size and rewind, any number of failures.

**WalletSyncProofs**
* `TypeCorrect`. `TypeOK` is inductive as it is. The work is in `range`, `acc`
  and `todo`: `Ranges` gives ranges (`RangesAreRanges`) and cutting at
  `BATCH_SIZE` stays inside them (`CutIsRange`).
* `CacheIsAccountedFor`, `NormalExitLeavesNoFile`. The invariant `CacheInv` adds
  `FetchedInHand`: `block_meta` is in use only between a range's download and its
  scan. Without it a step that forgets `fetched` might forget files. The heart is
  `AfterScanCache`: every way out of a scan either ends the process other than
  by itself or spawns the removal of exactly what it fetched.
* `ShutdownEndsDownloads`, an action property that needs no invariant: from each
  place other than the download itself, the next look comes before the next
  download.

**WalletPlanProofs.** `PlanStaysQueue` and `FinishedScannedAll`, for any batch size,
any ranges and any reorganisations. Two facts about `Ranges` carry it: every height
to be scanned lies in a maximal run of the queue (`RunExists`, by least elements),
and two runs that share a height are one (`RunsDisjoint`). `Plan` says that what is
left of a range and of the list covers the queue, each height once, with no empty
range. Suggestions are a plan, cutting a batch off leaves one (`CutHeights`), and a
scan that does not change the loop takes exactly the heights of its range off both
sides (`ScanTakesRange`, `RestIsPlan`). The last needs that the cache holds every
block of the range (`RangeFetched`), which holds because the stream gives every
block the server has, and the server has every height the wallet has heard of
(`QueueKnown`). `FinishedMeansScanned` needs `DrainDone`: the loop runs out of
ranges only when the queue is done. The parts of `PlanInv` were checked by TLC on
the instance of `sync` first.

There too, `SyncImplementsView`, the refinement. `ViewInv` adds to
`PlanInv` that the queue marks as scanned exactly the heights of the wallet's blocks
(`ScannedMarked`), that the metadata table and the range in hand have one block for
each height (`OnePerHeight`), and that a running process has no result yet. From them
`ScanAdopts` shows that a scan is an `Adopt` (the range is new to the wallet and has
no gap, and `Follows` is about the only block below that there can be),
`ReorgTruncates` that a rewind is a `Truncate` (a block is never missing from the
range, so what contradicts is a block), and `NothingLeft` that a sync which ends `ok`
may `End`. All other steps are `Begin`, `Learn`, `End` or leave the view alone.

**WalletLifecycleProofs.** One inductive invariant `IInv`: the three safety
properties and what makes them so: `keys.toml` is written only where there was
none (`KeysWrittenOnce`, `MnemonicNeedsFile`), after the identity
(`IdentityFirst`), by the commands that may (`Writers`), and the account a
command is about to make is the one its files allow (`DraftIsOfSeed`,
`ResetDraft`). `IInv` was checked by TLC before it was proved. Theorems:
`TypeCorrect`, `SpendingAccountsAreBacked`, `MnemonicStaysReadable`,
`ResetRestarts`.

**ShutdownProofs.** `TypeCorrect` needs that a block is still to come while a range
is downloaded (`BlocksToCome`). `RequestsStay`: a look at a channel turns a message into
a closed channel, never into an empty one. `PartialRangesAreNotScanned` and
`ClosedImpliesRequested` use the invariant `NotifiedFirst` (the sender is used or
dropped before the receiver closes) and `BrokenOffByRequest` (a download broken
off leads only to the look that ends the process).

**PcztProofs.** For any spends, holders, quorums and number of commands.
`TypeCorrect` and `DerivationsTrue` share the invariant that every copy is `Good`:
a set of facts whose derivations are `Sound`. Each role keeps that
(one lemma per role), and so does any union or difference of copies.

**PaymentsProofs** (enhance first, then the processes that share its wallet). For any transactions, graph of ancestors,
addresses, notes, processes and bounds. `EnhanceInv` says what a pass has in hand:
answers are true of the chain (`AnswersAreTrue`), nothing the wallet should have is
forgotten (`AncestryTracked`), what was satisfied is settled, and, until the first
request of a pass, all that is open is on its list (`PassIsComplete`), which is why
a pass without a request may end the loop. `OthersKeep` is the lemma for everything
that other processes do meanwhile. `PaymentsProofs` adds `JobsInv`: a proposal
contains no note of a transaction stored before the server had it
(`ProposalsAreFresh`), a job has one transaction (`OneTransaction`), and what
`pczt send` sends is stored (`SentIsStored`). The induction needs
`stored \subseteq known` and `ServerHasCreated`. Theorems: `TypeCorrect`,
`MinedTrue`, `AncestryComplete`, `NeverSpentTwice`, `SuccessMeansPaid`.

**ScreenProofs, ToolsProofs.** For trees of any depth, screens of any size, messages
of any number of fragments, keys of any length and any list of recipients. `IInv` is
the conjunction of an invariant for each command. They share no variable, and only the
command of this run takes steps (`OneMoves`), so each is kept by its own steps alone.

* *Recursion.* What these commands do to data is computed by recursive functions
  (`Pow2`, the decoder's `Solve`, the counts and the list of outputs). The library
  states induction, and the existence of recursive functions, of operators, which the
  provers cannot instantiate; `ScreenProofs` states both of sets and of functions:
  every non-empty set of numbers has a least one (`LeastNumber`, from `WFMin`), a set
  closed under successor has every number (`Induction`), and there is a function that
  takes a given step at each number (`RecursionExists`, `RecursionValues`). With these
  each definition is shown to obey its equation, for every input.
* *The tree.* `TreeInv` says which node each part of the region stands for, and where
  (`Placed`): `RegionPlaced` goes through `Region::get` and the drawing case by case,
  `PlacedInPlace` shows that two nodes so placed are in their order. It needs no more
  of the tree than that nodes come with their parents, which is why pruning by another
  process cannot disturb it. `BoundaryExact`: a node's last leaf is its
  own, counted from 0, and within the 2^32 that the tree can have (`LeavesBelow`), so a
  size equals it plus one exactly at the block that brought it.
  Theorems: `RegionInPlace`, `BlocksEndAtBoundaries`, and `WalkStays`, an action
  property.
* *The defragmentor.* `DefragInv`: `entries` is what `update_scan_ranges` makes of the
  queue. Ranges are disjoint (`RangesApart`) and cover the queue (`RangesCover`), an
  entry is written by the later of two ranges that touch (`LastOfIs`), and so the entry
  at or below a height is that of its range (`EntriesSay`). `OneCell`: with the cells
  rounded up, each height falls in exactly one. Theorems: `EntriesShowQueue`,
  `ScreenShowsRanges`.
* *QR.* `QrInv`: the decoder has begun with a transaction, if at all (`Begun`), and all
  it has comes from parts of that one: the fragments it knows and the mixtures it cannot
  solve yet. The second half is needed, since a mixture is solved by later parts.
  `GivenType`, `SolveType`, `UnsolvedType`: what is solved from fragments and mixtures
  of some messages is of those, however many rounds it takes. `CompleteIsIntact`:
  complete fragments of one message are that message. Theorem: `QrDelivers`.
* *The outputs.* `CountsAreLengths`: the count that `pay-manual` keeps of a pool is the
  length of the builder's list for it, recipient after recipient; from that
  `TaggedIsPaid`. Theorem: `AddressesInPlace`.
* *Redaction.* `RedactInv`: of the keys taken, each value that one names is gone, and
  each value that is gone was named by one, or passed by one that goes on
  (`Covers`). `LedByPath` walks a path through the tables and arrives at the section
  and item whose path it is; `PathsLead` is the converse: whatever place a key leads
  to, the key is a path to it. Theorems: `RedactsWhatIsNamed`, `RedactsOnlyTheNamed`.
  The proof found that `OtherFieldsStay`, as it was stated before, fails for a key such
  as `sapling.bsk.x`: the code looks at no token after a field that has nothing under
  it, and redacts `bsk`. Such keys are among those of the run now (`Longer`), and the
  property allows for them.

The proofs use the constants' named assumptions, which TLC evaluates on each run:
levels and shards as in the code, tree sizes that do not shrink from block to block,
a finite message, a screen with at least one cell, keys made of strings.

**Only model-checked.** Every invariant and action property of the runs is a theorem.
What only TLC checks is liveness: `Converges`, `QuitEndsSync`, `Completes`,
`EnhanceEnds`, `NotesReturn` and `Arrives` rest on fairness and on `ENABLED`, which the
prover does not do. The findings of section 6 are counterexamples and need no proof.

## 6. Findings

Each is a comment or doc line of the repository that the run refutes, with no
failing call:

1. `ReorgIsHandled`: `sync.rs:664-687` describes a rewind that goes on. The
   metadata rows of blocks scanned before outlive their files, the cache cannot
   remove a file that is not there, and sync ends with an error, the wallet
   already truncated. Running it again recovers (`sync_converges`).
2. `DownloadsStay`: `sync.rs:266` has deletions run beside the other downloads.
   After a rewind the same files are downloaded again while the deletion of the
   first download is still pending, and may be removed before they are scanned.
3. `ResetKeepsDerivedAccounts`: reset is documented to drop imported viewing keys
   (`commands/wallet.rs:36`); it drops every account but the first.
4. `FailedResetKeepsKeys`: reset erases the state "excluding key material"
   (`reset.rs:66`), and only then finds that a viewing wallet has no seed to
   restart from. The viewing key was in the state it erased.

5. `OnlyNamedGo`: `redact.rs:17` takes "a list of PCZT keys to redact, in
   foo.bar.baz notation". The last token of `...proprietary.name` is taken from the
   iterator inside the closure that runs once per item: the first item loses the
   named field, every other item all of its proprietary fields.

## 7. Not modelled

* *Server.* It moves only to longer chains and its streams give every block of
  the chain; a tip that moves backwards and what the wallet database makes of it
  are not modelled. `download_chain_state` is a step that may fail; the tree
  state it returns is not kept.
* *Wallet database.* `refresh_utxos` and `update_subtree_roots` write data that
  no property tells apart. Its `truncate_to_height` truncates exactly where it is
  told. The PostgreSQL branch of sync runs the same loop.
* *Files.* A file is readable or not. A spawned deletion whose removal fails is
  not modelled: sync logs the error and goes on, so `CacheAccounted` and
  `NormalExitCleansCache` speak of removals that succeed.
* *Wallet directory.* The network in `keys.toml` (and so what an empty file means
  for it), PostgreSQL, and two commands running at once, which nothing in the
  code prevents or supports.
* *TUIs.* The terminal's modes, the log widget, the statistics. A terminal of 20
  rows leaves the defragmentor no cell, and the program divides by zero
  (`defrag.rs:250`); the model's screens have at least one.
* *Enhance.* Consensus branches: an unmined transaction is parsed under the branch
  of the tip that was read at the start, and `enhance` fails if that is wrong. The
  model has only the failure. All heights of blocks are one.
* *Payments.* Values, fees, memos and change: a proposal is a set of notes and a
  number of transactions, and change is no note of the model.
* *PCZT.* One account per wallet; the panic of `prove` on a Sapling spend without a
  usable derivation is a command that writes nothing; `create-manual`, which finds
  its one Orchard output by value, has no model of that search. `inspect` writes
  nothing.
* *QR.* Images, and messages of other programs. The comparison of a part with the first
  is the library's, and is taken to tell any two messages apart.
* *Tree.* An address past the right edge is modelled by the first of its level: the
  search for a parent ends at the same node from each.
* *Redaction.* A list has `MaxItems` items, and a key names them by their numbers as
  they are printed; anything else is an error. `redact.rs:240` parses any number: what
  the library does with one past the end of the list, which names no field, and other
  spellings of a number are left out.
* *Connections.* `remote.rs` and `socks.rs` are a call that fails or does not.
* *Reports* (`balance`, `list_*`, `inspect/*`) read and print: they change no state,
  and what they print is formatting. *Key and address tools* are single calls of
  cryptographic libraries. `tree fix` is one call of the wallet database.
* *Command line.* Arguments, logging, error types.

## 8. Plan

Done, in this order: `WalletSync` and `WalletView`; `WalletLifecycle`; `Shutdown`;
`Pczt`; `Enhance` and `Payments`; `TreeWalk`, `QrTransport`, `PcztRedact` and
`PcztOutputs`; `Defrag`; and the proofs of section 5, with a theorem for every safety
property of every run.

What would come next:

1. The tree state's branch in `WalletSync`; the network in `WalletLifecycle`.
2. The safety half of the liveness properties, as theorems: what a pass of `enhance`
   or a retry of `sync` brings nearer, and that nothing takes it back.
3. `commands/inspect.rs`: which decoding an input is given, as a function of which
   ones accept it.
