------------------------------- MODULE Shutdown -------------------------------
(***************************************************************************)
(* How `sync --defrag` is asked to stop: ShutdownListener (src/main.rs),   *)
(* the TUI task App::run and the AppHandle through which sync reports to   *)
(* it (src/commands/wallet/sync/defrag.rs), the terminal's event task      *)
(* (src/tui.rs), and the places where sync.rs looks at either.             *)
(*                                                                         *)
(* The listener reads two oneshot channels with try_recv: one is sent on   *)
(* Ctrl-C, the sender of the other belongs to the App.  sync.rs also stops *)
(* when a report cannot be sent because the App has closed its channel.    *)
(* Reports only change what is drawn, so they are not kept in the queue.   *)
(***************************************************************************)
EXTENDS Naturals, Sequences

CONSTANTS
    RangeLength,   \* blocks in a range
    QueueBound     \* bound: key presses and ticks waiting in either queue

ASSUME ConstantsAssumption == RangeLength \in Nat \ {0} /\ QueueBound \in Nat \ {0}

VARIABLES
    signal,    \* oneshot of Ctrl-C: "empty", "sent", or "closed" once received
    tuiQuit,   \* oneshot of the App; "closed" too when its sender is dropped
    app,       \* where App::run stands
    open,      \* the App's receiver of actions is open
    events,    \* what the event task sent: "quit" or "render"
    actions,   \* what the App sent itself
    pressed,   \* history: 'q' was pressed
    pc,        \* where sync stands
    left,      \* blocks of the range still to come
    partial    \* history: the download in hand was broken off

tui == <<tuiQuit, app, open, events, actions, pressed>>
sync == <<pc, left, partial>>
vars == <<signal, tuiQuit, app, open, events, actions, pressed, pc, left, partial>>

Oneshot == {"empty", "sent", "closed"}

-----------------------------------------------------------------------------
(* ShutdownListener. *)

\* Mutant: only a message counts, not a channel that is closed.
TriggeredByMessage == signal = "sent" \/ tuiQuit = "sent"

\* What requested() returns: try_recv of both is Empty, or not.
Triggered == signal # "empty" \/ tuiQuit # "empty"

Received(c) == IF c = "sent" THEN "closed" ELSE c

\* Calling it takes the messages out of the channels.
CallRequested ==
    /\ signal' = Received(signal)
    /\ tuiQuit' = Received(tuiQuit)

CtrlC ==
    /\ signal = "empty"
    /\ pc # "over"
    /\ signal' = "sent"
    /\ UNCHANGED <<tui, sync>>

-----------------------------------------------------------------------------
(* The TUI: its event task, and App::run. *)

\* tui.enter() starts the event task, or fails.
Enter ==
    /\ app = "spawned" /\ pc # "over"
    /\ app' \in {"running", "failed"}
    /\ UNCHANGED <<signal, tuiQuit, open, events, actions, pressed, sync>>

\* The event task runs from enter() until exit(), or until the Tui is dropped.
Emit(e) ==
    /\ app \in {"running", "quitting", "closed"} /\ pc # "over"
    /\ Len(events) < QueueBound
    /\ events' = Append(events, e)
    /\ pressed' = (pressed \/ (e = "quit" /\ app = "running"))
    /\ UNCHANGED <<signal, tuiQuit, app, open, actions, sync>>

\* One branch of the select: an event becomes an action.
TakeEvent ==
    /\ app = "running" /\ pc # "over"
    /\ events # << >> /\ Len(actions) < QueueBound
    /\ events' = Tail(events)
    /\ actions' = Append(actions, Head(events))
    /\ UNCHANGED <<signal, tuiQuit, app, open, pressed, sync>>

\* Mutant: the App quits without a word to the listener.
TakeActionSilently ==
    /\ app = "running" /\ pc # "over"
    /\ actions # << >>
    /\ actions' = Tail(actions)
    /\ IF Head(actions) = "quit" THEN app' = "quitting" ELSE app' \in {"running", "failed"}
    /\ UNCHANGED <<signal, tuiQuit, open, events, pressed, sync>>

\* The other: quit notifies the listener and breaks; a render may fail.
TakeAction ==
    /\ app = "running" /\ pc # "over"
    /\ actions # << >>
    /\ actions' = Tail(actions)
    /\ IF Head(actions) = "quit"
       THEN tuiQuit' = "sent" /\ app' = "quitting"
       ELSE UNCHANGED tuiQuit /\ app' \in {"running", "failed"}
    /\ UNCHANGED <<signal, open, events, pressed, sync>>

\* action_rx.close(), after the break.
CloseActions ==
    /\ app = "quitting" /\ pc # "over"
    /\ open' = FALSE
    /\ app' = "closed"
    /\ UNCHANGED <<signal, tuiQuit, events, actions, pressed, sync>>

\* tui.exit() stops the event task, and run() returns.
LeaveTui ==
    /\ app = "closed" /\ pc # "over"
    /\ app' = "ended"
    /\ UNCHANGED <<signal, tuiQuit, open, events, actions, pressed, sync>>

\* Mutant: action_rx is declared, and so dropped, before notify_shutdown.
DropReceiverFirst ==
    /\ app = "failed" /\ pc # "over"
    /\ open' = FALSE
    /\ app' = "dropping"
    /\ UNCHANGED <<signal, tuiQuit, events, actions, pressed, sync>>

\* run() returned an error: the App is dropped, field by field in the order of
\* their declaration: notify_shutdown,
DropNotify ==
    /\ app = "failed" /\ pc # "over"
    /\ tuiQuit' = "closed"
    /\ app' = "dropping"
    /\ UNCHANGED <<signal, open, events, actions, pressed, sync>>

\* and then action_rx.
DropReceiver ==
    /\ app = "dropping" /\ pc # "over"
    /\ open' = FALSE
    /\ app' = "ended"
    /\ UNCHANGED <<signal, tuiQuit, events, actions, pressed, sync>>

-----------------------------------------------------------------------------
(* sync, where it looks at the shutdown. *)

\* requested() is called and the process returns, or goes on at l.
CheckThen(l) ==
    /\ pc' = IF Triggered THEN "over" ELSE l
    /\ CallRequested
    /\ UNCHANGED <<app, open, events, actions, pressed>>

\* set_scan_ranges: it fails if the TUI has exited.
Report ==
    /\ pc = "report"
    /\ pc' = IF open THEN "check" ELSE "over"
    /\ UNCHANGED <<signal, tui, left, partial>>

\* A range is begun, unless there is none left.
Check ==
    /\ pc = "check"
    /\ \/ CheckThen("download")
       \/ CheckThen("over")
    /\ left' = RangeLength /\ partial' = FALSE

\* Mutant: the stream is polled once more after the last block.
DownloadPastEnd ==
    /\ pc = "download"
    /\ left' = left - 1
    /\ partial' = (Triggered /\ left' > 0)
    /\ pc' = IF Triggered \/ left = 0 THEN "downloaded" ELSE "download"
    /\ CallRequested
    /\ UNCHANGED <<app, open, events, actions, pressed>>

\* The loop of download_blocks: a block, then a look at the shutdown.
Download ==
    /\ pc = "download"
    /\ left' = left - 1
    /\ partial' = (Triggered /\ left' > 0)
    /\ pc' = IF Triggered \/ left' = 0 THEN "downloaded" ELSE "download"
    /\ CallRequested
    /\ UNCHANGED <<app, open, events, actions, pressed>>

\* Its caller looks again before it scans.
Downloaded ==
    /\ pc = "downloaded"
    /\ CheckThen("scan")
    /\ UNCHANGED <<left, partial>>

\* scan_blocks.
Scan ==
    /\ pc = "scan"
    /\ pc' = "scanned"
    /\ UNCHANGED <<signal, tui, left, partial>>

\* After the scan: in the loop of step 6 the ranges are asked for and reported
\* again; in that of step 7 sync looks first, and asks again or goes on with the
\* ranges it has.
Scanned ==
    /\ pc = "scanned"
    /\ \/ pc' = "report" /\ UNCHANGED <<signal, tui, left, partial>>
       \/ CheckThen("report") /\ UNCHANGED <<left, partial>>
       \/ CheckThen("download") /\ left' = RangeLength /\ partial' = FALSE

-----------------------------------------------------------------------------
Init ==
    /\ signal = "empty" /\ tuiQuit = "empty"
    /\ app = "spawned" /\ open = TRUE
    /\ events = << >> /\ actions = << >> /\ pressed = FALSE
    /\ pc = "report" /\ left = RangeLength /\ partial = FALSE

App == Enter \/ CloseActions \/ LeaveTui \/ DropNotify \/ DropReceiver
User == CtrlC \/ Emit("quit")
Sync == Report \/ Check \/ Download \/ Downloaded \/ Scan \/ Scanned

\* The process is over: the runtime drops its tasks.
Over == pc = "over" /\ UNCHANGED vars

Next == App \/ TakeEvent \/ TakeAction \/ User \/ Emit("render") \/ Sync \/ Over

Spec == Init /\ [][Next]_vars

\* The tasks run, and select! picks at random among the branches that are ready.
FairSpec ==
    Spec /\ WF_vars(Sync) /\ WF_vars(App) /\ WF_vars(TakeEvent) /\ WF_vars(TakeAction)

-----------------------------------------------------------------------------
TypeOK ==
    /\ signal \in Oneshot /\ tuiQuit \in Oneshot
    /\ app \in {"spawned", "running", "quitting", "closed", "failed", "dropping", "ended"}
    /\ open \in BOOLEAN /\ pressed \in BOOLEAN /\ partial \in BOOLEAN
    /\ events \in Seq({"quit", "render"}) /\ actions \in Seq({"quit", "render"})
    /\ Len(events) <= QueueBound /\ Len(actions) <= QueueBound
    /\ pc \in {"report", "check", "download", "downloaded", "scan", "scanned", "over"}
    /\ left \in 0..RangeLength

\* A range whose download was broken off is never scanned: the caller's look at
\* the shutdown agrees with the look that broke it off, though requested() has
\* taken the message out of the channel meanwhile.
NoPartialScan == pc \in {"scan", "scanned"} => ~partial

\* When a report fails because the TUI is gone, the listener says so too: sync.rs
\* may return on either.
ClosedMeansRequested == ~open => Triggered

\* A request is never taken back.
RequestStays == [][Triggered => Triggered']_vars

\* 'q' ends the sync, if the server goes on answering.
QuitEndsSync == pressed ~> pc = "over"

=============================================================================
