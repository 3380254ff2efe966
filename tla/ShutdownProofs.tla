---------------------------- MODULE ShutdownProofs ----------------------------
(***************************************************************************)
(* The shutdown request is sound for every length of range and of queue.   *)
(***************************************************************************)
EXTENDS Shutdown, TLAPS

-----------------------------------------------------------------------------
(* Type correctness. *)

\* While a range is downloaded, a block of it is still to come.
BlocksToCome == pc = "download" => left # 0

Event == {"quit", "render"}

\* The queues of the TUI stay within their bound.
LEMMA QueueTypes ==
    ASSUME TypeOK, TakeEvent \/ TakeAction \/ \E e \in Event : Emit(e)
    PROVE  /\ events' \in Seq(Event) /\ Len(events') <= QueueBound
           /\ actions' \in Seq(Event) /\ Len(actions') <= QueueBound
<1> USE ConstantsAssumption DEF TypeOK, Event
<1>1. CASE TakeEvent
  <2>1. Head(events) \in Event /\ Tail(events) \in Seq(Event)
        /\ Len(Tail(events)) = Len(events) - 1
    BY <1>1 DEF TakeEvent
  <2>2. Append(actions, Head(events)) \in Seq(Event)
        /\ Len(Append(actions, Head(events))) = Len(actions) + 1
    BY <2>1
  <2>3. QED
    BY <1>1, <2>1, <2>2 DEF TakeEvent
<1>2. CASE TakeAction
  BY <1>2 DEF TakeAction
<1>3. CASE \E e \in Event : Emit(e)
  <2>1. PICK e \in Event : Emit(e)
    BY <1>3
  <2>2. Append(events, e) \in Seq(Event) /\ Len(Append(events, e)) = Len(events) + 1
    OBVIOUS
  <2>3. QED
    BY <2>1, <2>2 DEF Emit
<1>4. QED
  BY <1>1, <1>2, <1>3

\* TypeOK in two parts: the queues, and the rest.
QueuesOK ==
    /\ events \in Seq(Event) /\ Len(events) <= QueueBound
    /\ actions \in Seq(Event) /\ Len(actions) <= QueueBound
Apps == {"spawned", "running", "quitting", "closed", "failed", "dropping", "ended"}
Pcs == {"report", "check", "download", "downloaded", "scan", "scanned", "over"}
ScalarsOK ==
    /\ signal \in Oneshot /\ tuiQuit \in Oneshot
    /\ app \in Apps /\ open \in BOOLEAN /\ pressed \in BOOLEAN
    /\ partial \in BOOLEAN /\ pc \in Pcs /\ left \in 0..RangeLength
    /\ BlocksToCome

\* They are the whole of it.
LEMMA TypeSplits ==
    /\ TypeOK /\ BlocksToCome <=> QueuesOK /\ ScalarsOK
    /\ TypeOK' /\ BlocksToCome' <=> QueuesOK' /\ ScalarsOK'
  BY DEF TypeOK, QueuesOK, ScalarsOK, Event, Apps, Pcs

\* Every step keeps the types.
LEMMA TypeStep == QueuesOK /\ ScalarsOK /\ [Next]_vars => QueuesOK' /\ ScalarsOK'
<1> SUFFICES ASSUME QueuesOK, ScalarsOK, [Next]_vars PROVE QueuesOK' /\ ScalarsOK'
  OBVIOUS
<1> USE DEF tui, sync
<1>1. CASE Sync
  <2>1. QueuesOK'
    BY <1>1 DEF Sync, Report, Check, Download, Downloaded, Scan, Scanned, CheckThen,
                QueuesOK
  <2>2. signal' \in Oneshot /\ tuiQuit' \in Oneshot
    BY <1>1 DEF Sync, Report, Check, Download, Downloaded, Scan, Scanned, CheckThen,
                CallRequested, Received, Oneshot, ScalarsOK
  <2>3. app' = app /\ open' = open /\ pressed' = pressed
    BY <1>1 DEF Sync, Report, Check, Download, Downloaded, Scan, Scanned, CheckThen
  <2>4. partial' \in BOOLEAN
    BY <1>1 DEF Sync, Report, Check, Download, Downloaded, Scan, Scanned, CheckThen,
                ScalarsOK
  <2>5. pc' \in Pcs
    BY <1>1 DEF Sync, Report, Check, Download, Downloaded, Scan, Scanned, CheckThen, Pcs
  <2>6. left' \in 0..RangeLength /\ BlocksToCome'
    <3>1. left \in 0..RangeLength /\ BlocksToCome /\ RangeLength \in Nat \ {0}
      BY ConstantsAssumption DEF ScalarsOK
    <3>2. CASE Download
      BY <3>1, <3>2 DEF Download, BlocksToCome
    <3>3. CASE Report \/ Check \/ Downloaded \/ Scan \/ Scanned
      BY <3>1, <3>3
         DEF Report, Check, Downloaded, Scan, Scanned, CheckThen, BlocksToCome
    <3>4. QED
      BY <1>1, <3>2, <3>3 DEF Sync
  <2>7. QED
    BY <2>1, <2>2, <2>3, <2>4, <2>5, <2>6 DEF ScalarsOK
<1>2. CASE App
  BY <1>2
     DEF App, Enter, CloseActions, LeaveTui, DropNotify, DropReceiver, QueuesOK,
         ScalarsOK, BlocksToCome, Apps, Oneshot
<1>3. CASE TakeEvent \/ TakeAction \/ \E e \in Event : Emit(e)
  <2>1. QueuesOK'
    BY <1>3, QueueTypes, TypeSplits DEF QueuesOK
  <2>2. ScalarsOK'
    BY <1>3 DEF TakeEvent, TakeAction, Emit, ScalarsOK, BlocksToCome, Apps, Oneshot
  <2>3. QED
    BY <2>1, <2>2
<1>4. CASE CtrlC \/ Over \/ UNCHANGED vars
  BY <1>4 DEF CtrlC, Over, vars, QueuesOK, ScalarsOK, BlocksToCome, Oneshot
<1>5. QED
  BY <1>1, <1>2, <1>3, <1>4 DEF Next, User, Event

\* Every variable stays in its type: in particular the count of blocks to come
\* never passes zero, and the queues stay within their bound.
THEOREM TypeCorrect == Spec => []TypeOK
<1>1. Init => QueuesOK
  <2>1. << >> \in Seq(Event) /\ Len(<< >>) = 0
    OBVIOUS
  <2>2. QED
    BY <2>1, ConstantsAssumption DEF Init, QueuesOK
<1>2. Init => ScalarsOK
  <2>1. Init => left \in 0..RangeLength
    BY ConstantsAssumption DEF Init
  <2>2. QED
    BY <2>1 DEF Init, ScalarsOK, BlocksToCome, Oneshot, Apps, Pcs
<1>3. QED
  BY <1>1, <1>2, TypeStep, TypeSplits, PTL DEF Spec

-----------------------------------------------------------------------------
(* The request. *)

\* The App's sender is used, or dropped, before its receiver is closed.
NotifiedFirst ==
    ~open \/ app \in {"quitting", "closed", "dropping"} => tuiQuit # "empty"

\* A download is broken off only by a request, and then goes to the next look.
BrokenOffByRequest == partial => Triggered /\ pc \in {"downloaded", "over"}

IInv == NotifiedFirst /\ BrokenOffByRequest

\* Reading the channels, or sending on them, takes no request back.
LEMMA RequestStep == [Next]_vars /\ Triggered => Triggered'
<1> SUFFICES ASSUME [Next]_vars, Triggered PROVE Triggered'
  OBVIOUS
<1> USE DEF Triggered, tui, sync
<1>1. CASE Sync
  BY <1>1 DEF Sync, Report, Check, Download, Downloaded, Scan, Scanned,
              CheckThen, CallRequested, Received
<1>2. CASE App \/ TakeEvent \/ TakeAction
  BY <1>2 DEF App, Enter, CloseActions, LeaveTui, DropNotify, DropReceiver,
              TakeEvent, TakeAction
<1>3. CASE User \/ Emit("render") \/ Over \/ UNCHANGED vars
  BY <1>3 DEF User, CtrlC, Emit, Over, vars
<1>4. QED
  BY <1>1, <1>2, <1>3 DEF Next

\* The invariant is inductive.
LEMMA InvariantStep == IInv /\ [Next]_vars => IInv'
<1> SUFFICES ASSUME IInv, [Next]_vars PROVE IInv'
  OBVIOUS
<1> USE DEF IInv, NotifiedFirst, BrokenOffByRequest, tui, sync
<1>1. CASE Sync
  <2>1. NotifiedFirst'
    BY <1>1 DEF Sync, Report, Check, Download, Downloaded, Scan, Scanned,
                CheckThen, CallRequested, Received
  <2>2. BrokenOffByRequest'
    <3>1. Triggered => Triggered'
      BY RequestStep
    <3>2. QED
      BY <1>1, <3>1
         DEF Sync, Report, Check, Download, Downloaded, Scan, Scanned, CheckThen
  <2>3. QED
    BY <2>1, <2>2
<1>2. CASE App \/ TakeEvent \/ TakeAction
  BY <1>2, RequestStep
     DEF App, Enter, CloseActions, LeaveTui, DropNotify, DropReceiver,
         TakeEvent, TakeAction
<1>3. CASE User \/ Emit("render") \/ Over \/ UNCHANGED vars
  BY <1>3, RequestStep DEF User, CtrlC, Emit, Over, vars
<1>4. QED
  BY <1>1, <1>2, <1>3 DEF Next

\* The invariant holds throughout.
LEMMA ShutdownInvariant == Spec => []IInv
<1>1. Init => IInv
  BY DEF Init, IInv, NotifiedFirst, BrokenOffByRequest
<1>2. QED
  BY <1>1, InvariantStep, PTL DEF Spec

\* requested() never goes back to false, though each call empties the channels:
\* what WalletSync assumes of its flag.
THEOREM RequestsStay == Spec => RequestStays
<1>1. [Next]_vars => [Triggered => Triggered']_vars
  BY RequestStep
<1>2. QED
  BY <1>1, PTL DEF Spec, RequestStays

\* A range whose download was broken off is not scanned.
THEOREM PartialRangesAreNotScanned == Spec => []NoPartialScan
<1>1. IInv => NoPartialScan
  BY DEF IInv, BrokenOffByRequest, NoPartialScan
<1>2. QED
  BY <1>1, ShutdownInvariant, PTL

\* When the TUI has closed its channel the listener already reports a request,
\* whether the user quit or the TUI failed.
THEOREM ClosedImpliesRequested == Spec => []ClosedMeansRequested
<1>1. IInv => ClosedMeansRequested
  BY DEF IInv, NotifiedFirst, ClosedMeansRequested, Triggered
<1>2. QED
  BY <1>1, ShutdownInvariant, PTL

=============================================================================
