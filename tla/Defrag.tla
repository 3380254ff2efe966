--------------------------------- MODULE Defrag ---------------------------------
(***************************************************************************)
(* What `wallet sync --defrag` shows of its work                           *)
(* (src/commands/wallet/sync/defrag.rs): sync.rs reports the ranges that   *)
(* are left, the range it fetches, each block of it, and the range it      *)
(* scans; the TUI draws all heights from the wallet's birthday on as cells *)
(* of one screen, whose size the terminal decides.                         *)
(*                                                                         *)
(* Reports arrive in the order they are sent.  How the TUI and sync stop   *)
(* each other is in Shutdown.                                              *)
(***************************************************************************)
EXTENDS Integers, FiniteSets

CONSTANTS
    Birthday,   \* wallet_birthday
    MaxTip,     \* the greatest height
    Wanted,     \* the priorities of ranges that are suggested
    Areas       \* the sizes of the screen: width and height

Ignored == 0
Scanned == 1

ASSUME DefragAssumption ==
    /\ Birthday \in Nat \ {0} /\ MaxTip \in Nat /\ Birthday <= MaxTip
    /\ Wanted \subseteq 2..6 /\ Areas \subseteq (Nat \ {0}) \X (Nat \ {0})

VARIABLES
    area,      \* the size of defrag_area
    queue,     \* the wallet's scan queue when it was last reported
    tip,       \* chain_tip
    entries,   \* scan_ranges: a priority from a height on, up to the next entry
    fetching,  \* fetching_set
    fetched,   \* fetched_set
    scanning,  \* the heights of scanning_range
    viewer     \* what was reported last: "nothing", "ranges", "fetching" or "scanning"

defragVars == <<area, queue, tip, entries, fetching, fetched, scanning, viewer>>

Heights == Birthday..MaxTip
Queue == [Heights -> Wanted \cup {Scanned}]
Greatest(S) == CHOOSE x \in S : \A y \in S : y <= x
Least(S) == CHOOSE x \in S : \A y \in S : x <= y

\* suggest_scan_ranges: runs of one priority, as long as they can be.
Suggested(q) ==
    LET begins == {h \in Heights : q[h] \in Wanted /\ (h - 1 \in Heights => q[h - 1] # q[h])}
        run(s) == Least({h \in s..(MaxTip + 1) : h > MaxTip \/ q[h] # q[s]})
    IN {[start |-> s, end |-> run(s), priority |-> q[s]] : s \in begins}
Blocks(r) == r.start..(r.end - 1)

-----------------------------------------------------------------------------
(* update_scan_ranges *)

\* Mutant: the ranges are taken as they come, the greatest priority first.
AfterAsSuggested(r, s) == r.priority < s.priority \/ (r.priority = s.priority /\ r.end < s.end)

\* scan_ranges.sort_by_key: whether the entries of r come after those of s.
After(r, s) == r.start > s.start

\* Two entries for each range: its start, then its end, no later than the mempool's
\* height.  Of the entries for one height the last stays.
Collected(R, mempool) ==
    LET ending(r) == Least({r.end, mempool})
        writers(h) == {r \in R : h \in {r.start, ending(r)}}
        last(h) == CHOOSE r \in writers(h) : \A s \in writers(h) \ {r} : After(r, s)
    IN [h \in {r.start : r \in R} \cup {ending(r) : r \in R} |->
            IF h = ending(last(h)) THEN Scanned ELSE last(h).priority]

ScanEntries(R, height) ==
    LET mempool == height + 1
        map == Collected(R, mempool)
    IN [h \in DOMAIN map \cup {Birthday, mempool} |->
            IF h = mempool THEN Ignored
            ELSE IF h \in DOMAIN map THEN map[h] ELSE Scanned]

-----------------------------------------------------------------------------
(* ui: the cells, and what is in each of them. *)

\* Mutant: the quotient is rounded down.
RoundedDown(n, d) == n \div d

\* div_ceil
Rounded(n, d) == (n + d - 1) \div d

BlocksPerCell ==
    LET last == Greatest(DOMAIN entries)
    IN IF last > Birthday THEN Rounded(last - Birthday, area[1] * area[2]) ELSE 0

\* Column by column in the code; the cells are where they are.
Cells == (0..(area[1] - 1)) \X (0..(area[2] - 1))
CellStart(c) == Birthday + BlocksPerCell * area[1] * c[2] + BlocksPerCell * c[1]
CellOf(c) == CellStart(c)..(CellStart(c) + BlocksPerCell - 1)

\* The greatest priority that begins in the cell, or else the one that goes on there.
CellPriority(c) ==
    LET inside == DOMAIN entries \cap CellOf(c)
        before == {h \in DOMAIN entries : h <= CellStart(c)}
        after == {h \in DOMAIN entries : h >= CellStart(c) + BlocksPerCell - 1}
    IN IF inside # {} THEN Greatest({entries[h] : h \in inside})
       ELSE IF before # {} THEN entries[Greatest(before)]
       ELSE IF after # {} THEN entries[Least(after)] ELSE Ignored

\* What hides a cell's priority: an arrow, an @ or a blank in another colour.
AtWork(c) ==
    (fetching \cup scanning \cup fetched) \cap CellOf(c) # {}

-----------------------------------------------------------------------------
(* The reports of sync.rs, and App::run for each of them. *)

\* set_scan_ranges, with a tip that may be below the end of the queue.
ReportRanges ==
    /\ viewer = "nothing" /\ viewer' = "ranges"
    /\ queue' \in Queue /\ tip' \in (Birthday - 1)..MaxTip
    /\ entries' = ScanEntries(Suggested(queue'), tip')
    /\ UNCHANGED <<area, fetching, fetched, scanning>>

\* download_blocks: set_fetching_range(Some(..)) of a range, or of the first batch of it.
ReportFetching ==
    /\ viewer = "ranges" /\ viewer' = "fetching"
    /\ \E r \in Suggested(queue) : \E last \in Blocks(r) : fetching' = r.start..last
    /\ fetched' = {}
    /\ UNCHANGED <<area, queue, tip, entries, scanning>>

\* set_fetched
ReportFetched ==
    /\ viewer = "fetching" /\ fetching # {}
    /\ fetched' = fetched \cup {Least(fetching)} /\ fetching' = fetching \ {Least(fetching)}
    /\ UNCHANGED <<area, queue, tip, entries, scanning, viewer>>

\* The end of download_blocks, set_fetching_range(None), and the start of scan_blocks,
\* set_scanning_range(Some(..)).
ReportScanning ==
    /\ viewer = "fetching" /\ fetching = {} /\ viewer' = "scanning"
    /\ scanning' = fetched /\ fetched' = {}
    /\ UNCHANGED <<area, queue, tip, entries, fetching>>

\* The end of scan_blocks: set_scanning_range(None), and the ranges that are left.
ReportScanned ==
    /\ viewer = "scanning" /\ viewer' = "ranges" /\ scanning' = {}
    /\ queue' = [h \in Heights |-> IF h \in scanning THEN Scanned ELSE queue[h]]
    /\ entries' = ScanEntries(Suggested(queue'), tip)
    /\ UNCHANGED <<area, tip, fetching, fetched>>

\* The end of scan_blocks when the blocks do not continue the chain, and what the next
\* call of running reports: heights are left to scan again, perhaps up to another tip.
ReportRewound ==
    /\ viewer = "scanning" /\ viewer' = "ranges" /\ scanning' = {}
    /\ \E from \in Heights, priority \in Wanted :
           queue' = [h \in Heights |-> IF h >= from THEN priority ELSE queue[h]]
    /\ tip' \in {tip, MaxTip}
    /\ entries' = ScanEntries(Suggested(queue'), tip')
    /\ UNCHANGED <<area, fetching, fetched>>

DefragStep ==
    \/ ReportRanges \/ ReportFetching \/ ReportFetched
    \/ ReportScanning \/ ReportScanned \/ ReportRewound

NothingShown ==
    /\ queue = [h \in Heights |-> Scanned] /\ tip = Birthday
    /\ entries = [h \in {} |-> Ignored]
    /\ fetching = {} /\ fetched = {} /\ scanning = {} /\ viewer = "nothing"

IdleDefrag == area = <<1, 1>> /\ NothingShown

\* App::new, on a terminal that has room for at least one cell.
InitDefrag == area \in Areas /\ NothingShown

-----------------------------------------------------------------------------
DefragTypeOK ==
    /\ area \in Areas \cup {<<1, 1>>} /\ queue \in Queue /\ tip \in (Birthday - 1)..MaxTip
    /\ DOMAIN entries \subseteq Birthday..(MaxTip + 1)
    /\ \A h \in DOMAIN entries : entries[h] \in Wanted \cup {Ignored, Scanned}
    /\ fetching \subseteq Heights /\ fetched \subseteq Heights /\ scanning \subseteq Heights
    /\ viewer \in {"nothing", "ranges", "fetching", "scanning"}

\* The entries that are kept of the reported ranges say of every height up to the tip
\* what the wallet's queue says: where ranges touch, or end above the tip, or begin at
\* the birthday, none is cut short or overwritten by another's end.
EntriesAreQueue ==
    viewer # "nothing" =>
        \A h \in Birthday..tip :
            entries[Greatest({k \in DOMAIN entries : k <= h})] = queue[h]

\* Whatever the size of the screen, every height is drawn in one cell, those around the
\* tip too, and no range is hidden: the cell it begins in shows its priority, or a
\* greater one, or work on it.
RangesAreShown ==
    viewer # "nothing" =>
        /\ \A h \in Birthday..tip : Cardinality({c \in Cells : h \in CellOf(c)}) = 1
        /\ \A r \in Suggested(queue), c \in Cells :
               r.start <= tip /\ r.start \in CellOf(c) =>
                   AtWork(c) \/ CellPriority(c) >= r.priority
=============================================================================
