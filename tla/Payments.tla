-------------------------------- MODULE Payments --------------------------------
(***************************************************************************)
(* The commands that pay (src/commands/wallet/{send,pay,shield,propose}.rs *)
(* and `pczt create`, `send`, `send-without-storing`), run by several      *)
(* processes on one wallet, with `wallet enhance` beside them, a server    *)
(* that mines transactions or lets them expire, and `wallet sync`.         *)
(*                                                                         *)
(* A payment is proposed from the notes the wallet takes for unspent,      *)
(* created, which spends them in the wallet, and only then broadcast.  Any *)
(* answer may be lost and any process may die.                             *)
(***************************************************************************)
EXTENDS Enhance, Sequences

CONSTANTS
    Note,      \* the wallet's notes and coins
    Process,
    Received,  \* SUBSET Foreign: transactions that scanning finds for the wallet
    MaxTx,     \* bound: transactions created
    MaxRuns,   \* bound: runs of enhance
    MaxBusy    \* bound: commands that run at the same time

ASSUME PaymentsAssumption ==
    /\ MaxTx \in Nat \ {0} /\ {MaxRuns, MaxBusy} \subseteq Nat
    /\ Own = 1..MaxTx /\ Received \subseteq Foreign

VARIABLES
    tx,        \* the transactions created, in order: notes, and what the server
               \* had when it was proposed
    stored,    \* those written to the wallet before they were sent
    accepted,  \* those the server ever took
    late,      \* those whose expiry height the chain has passed
    lateSeen,  \* and of these, those the wallet's chain height has passed
    job,       \* [Process -> what it is doing]
    runs       \* runs of enhance

payments == <<tx, stored, accepted, job>>
expiry == <<late, lateSeen>>
vars == <<server, wallet, hasTip, command, payments, expiry, runs>>

\* steps: transactions of the proposal; txs: those created for it.
Job == [at : {"idle", "confirm", "proposed", "pczt", "created", "accepted",
              "refused", "ok", "failed", "closed"},
        how : {"wallet", "pczt", "unstored"},
        notes : SUBSET Note, steps : 0..2, txs : SUBSET Own, basis : SUBSET Tx]
Idle == [at |-> "idle", how |-> "wallet", notes |-> {}, steps |-> 0, txs |-> {}, basis |-> {}]

\* A process that never runs.
Closed == [Idle EXCEPT !.at = "closed"]

Created == 1..Len(tx)
Payment(t) == tx[t].notes

\* The database: a note is spent by a transaction the wallet has, until that
\* expires unmined.
Spends(t) == t \in known /\ (t \in mined \/ t \notin lateSeen)
Spendable == Note \ UNION {Payment(t) : t \in {u \in Created : Spends(u)}}

Conflict(t, u) == t # u /\ Payment(t) \cap Payment(u) # {}

Goto(p, at) == job' = [job EXCEPT ![p].at = at]

\* A PCZT outlives the command that failed to send it; a proposal does not.
Failed(j) == IF j.how = "wallet" THEN [Idle EXCEPT !.at = "failed"] ELSE [j EXCEPT !.at = "failed"]
OnlyJob == UNCHANGED <<server, wallet, hasTip, command, tx, stored, accepted, expiry, runs>>

-----------------------------------------------------------------------------
(* The commands. *)

AtRest == {"idle", "ok", "failed", "pczt", "closed"}
Busy == Cardinality({p \in Process : job[p].at \notin AtRest})
        + IF loop = "running" THEN 1 ELSE 0
Ready(p) == job[p].at \in {"idle", "ok", "failed"} /\ hasTip /\ Busy < MaxBusy

\* propose_transfer and propose_shielding.  Two steps: for an address that takes a
\* transaction of its own to be paid, as a TEX address does.
Propose(p, at, how) ==
    \E S \in (SUBSET Spendable) \ {{}}, n \in 1..2 :
        /\ Ready(p)
        /\ job' = [job EXCEPT ![p] = [at |-> at, how |-> how, notes |-> S, steps |-> n,
                                      txs |-> {}, basis |-> pool \cup chain]]
        /\ OnlyJob

BeginSend(p) == Propose(p, "proposed", "wallet")
BeginPay(p) == Propose(p, "confirm", "wallet")

\* propose: the proposal is shown and dropped.
ShowProposal(p) == Propose(p, "ok", "wallet")

\* pczt create, pczt shield: the wallet keeps nothing of it.  A PCZT has one step.
CreatePczt(p) ==
    \E how \in {"pczt", "unstored"} : Propose(p, "pczt", how) /\ job'[p].steps = 1

\* shield, without a chain height: nothing to do.
ShieldNothing(p) ==
    /\ job[p].at = "idle" /\ ~hasTip
    /\ Goto(p, "ok") /\ OnlyJob

\* pay: the user reads the proposal, which may take a while.
Confirm(p) ==
    /\ job[p].at = "confirm"
    /\ Goto(p, "proposed") \/ job' = [job EXCEPT ![p] = Idle]
    /\ OnlyJob

NewTx(p, n) ==
    [k \in 1..n |-> [notes |-> IF k = 1 THEN job[p].notes ELSE {}, basis |-> job[p].basis]]

\* Mutant: the number of the transaction before is used.
NewIdsFromLast(n) == Len(tx)..(Len(tx) + n - 1)

NewIds(n) == (Len(tx) + 1)..(Len(tx) + n)
Made(j, ids) == [j EXCEPT !.at = "created", !.txs = ids, !.notes = {}, !.basis = {}]

\* Mutant: the transaction is stored when it was sent.
StoredLater(ids) == {}

\* create_proposed_transactions stores what it creates.
StoredNow(ids) == ids

\* Mutant: the first transaction of several is sent.
NeverTooMany(n) == FALSE

\* txids.len() > 1
TooMany(n) == n > 1

\* A proposal of several transactions is refused, with its transactions stored.
CreateTransactions(p) ==
    LET ids == NewIds(job[p].steps) IN
    /\ job[p].at = "proposed" /\ Len(tx) + job[p].steps <= MaxTx
    /\ tx' = tx \o NewTx(p, job[p].steps)
    /\ known' = known \cup StoredNow(ids) /\ stored' = stored \cup ids
    /\ job' = [job EXCEPT ![p] =
                  IF TooMany(job[p].steps) THEN Failed(job[p]) ELSE Made(job[p], ids)]
    /\ UNCHANGED <<server, wanted, strange, mined, hasTip, command, accepted, expiry, runs>>

\* pczt send extracts the transaction and stores it; send-without-storing does not.
\* Both may be run again on the same PCZT.
ExtractPczt(p) ==
    LET again == job[p].txs # {}
        ids == IF again THEN job[p].txs ELSE NewIds(1)
    IN
    /\ job[p].at = "pczt" \/ (job[p].at = "failed" /\ job[p].how # "wallet")
    /\ again \/ Len(tx) < MaxTx
    /\ Busy < MaxBusy
    /\ tx' = IF again THEN tx ELSE tx \o NewTx(p, 1)
    /\ IF job[p].how = "pczt"
       THEN known' = known \cup StoredNow(ids) /\ stored' = stored \cup ids
       ELSE UNCHANGED <<known, stored>>
    /\ job' = [job EXCEPT ![p] = Made(job[p], ids)]
    /\ UNCHANGED <<server, wanted, strange, mined, hasTip, command, accepted, expiry, runs>>

First(S) == CHOOSE t \in S : \A u \in S : t <= u

\* send_transaction: the server takes the transaction if it can, or refuses it.
Submit(p) ==
    LET t == First(job[p].txs) IN
    /\ job[p].at = "created"
    /\ \/ /\ t \notin late /\ \A u \in Created : Conflict(t, u) => u \notin pool \cup chain
          /\ pool' = IF t \in chain THEN pool ELSE pool \cup {t}
          /\ accepted' = accepted \cup {t}
          /\ Goto(p, "accepted")
       \/ UNCHANGED <<pool, accepted>> /\ Goto(p, "refused")
    /\ UNCHANGED <<chain, wallet, hasTip, command, tx, stored, expiry, runs>>

\* Mutant: error_code is not looked at.
AnswerUnread(at) == "ok"

\* response.error_code != 0
Answer(at) == IF at = "accepted" THEN "ok" ELSE "failed"

Answered(p) ==
    /\ job[p].at \in {"accepted", "refused"}
    /\ IF Answer(job[p].at) = "ok" THEN Goto(p, "ok")
                                   ELSE job' = [job EXCEPT ![p] = Failed(job[p])]
    /\ OnlyJob

\* An error, a lost connection or a crash, at any point.
Fail(p) ==
    /\ job[p].at \in {"confirm", "proposed", "created", "accepted", "refused"}
    /\ job' = [job EXCEPT ![p] = Failed(job[p])]
    /\ OnlyJob

Pays(p) == CreateTransactions(p) \/ Submit(p) \/ Answered(p)

-----------------------------------------------------------------------------
(* The server, and sync (external here; see WalletSync). *)

Mine ==
    /\ \E t \in pool : pool' = pool \ {t} /\ chain' = chain \cup {t}
    /\ UNCHANGED <<wallet, hasTip, command, payments, expiry, runs>>

Expire(t) ==
    /\ t \in Created \ late
    /\ late' = late \cup {t} /\ pool' = pool \ {t}
    /\ UNCHANGED <<chain, wallet, hasTip, command, payments, lateSeen, runs>>

\* sync first tells the wallet the chain's height ...
SyncTip ==
    /\ ~hasTip \/ lateSeen # late
    /\ hasTip' = TRUE /\ lateSeen' = late
    /\ UNCHANGED <<server, wallet, command, payments, late, runs>>

\* ... and later what the blocks say: which transactions were mined, those that
\* spend the wallet's notes without being in it, and those that pay it.
SyncScan ==
    /\ hasTip
    /\ known' = known \cup (chain \cap Own)
    /\ mined' = mined \cup (chain \cap known')
    /\ wanted' = wanted \cup ((chain \cap Received) \ (known \cup strange))
    /\ <<known', mined', wanted'>> # <<known, mined, wanted>>
    /\ UNCHANGED <<server, strange, hasTip, command, payments, expiry, runs>>

-----------------------------------------------------------------------------
\* A payment of long ago that was never mined.
Old == [notes |-> {}, basis |-> {}]

Init ==
    /\ InitEnhance
    /\ tx \in {<< >>, <<Old>>} /\ known = Created
    /\ stored = Created /\ accepted = {} /\ late = Created /\ lateSeen = Created
    /\ runs \in {0, MaxRuns} /\ job \in [Process -> {Idle, Closed}]

RunEnhance ==
    /\ \/ BeginEnhance /\ runs < MaxRuns /\ Busy < MaxBusy /\ runs' = runs + 1
       \/ (EnhanceStep \/ FailEnhance) /\ UNCHANGED runs
    /\ UNCHANGED <<payments, expiry>>

Pay(p) ==
    \/ BeginSend(p) \/ BeginPay(p) \/ ShowProposal(p) \/ CreatePczt(p) \/ ShieldNothing(p)
    \/ Confirm(p) \/ ExtractPczt(p) \/ Pays(p) \/ Fail(p)

Next ==
    \/ \E p \in Process : Pay(p)
    \/ RunEnhance
    \/ Mine \/ (\E t \in Own : Expire(t)) \/ SyncTip \/ SyncScan

Spec == Init /\ [][Next]_vars

\* A command that runs goes on; the chain passes every expiry height; sync is run
\* again and again.  Nothing makes the server mine, or a user start, confirm or
\* retry a payment.
Fairness ==
    /\ \A p \in Process : WF_vars(Pays(p))
    /\ WF_vars(EnhanceStep /\ UNCHANGED <<payments, expiry, runs>>)
    /\ \A t \in Own : WF_vars(Expire(t))
    /\ WF_vars(SyncTip) /\ WF_vars(SyncScan)

FairSpec == Spec /\ Fairness

-----------------------------------------------------------------------------
TypeOK ==
    /\ EnhanceTypeOK
    /\ tx \in Seq([notes : SUBSET Note, basis : SUBSET Tx]) /\ Len(tx) <= MaxTx
    /\ stored \subseteq Created /\ accepted \subseteq Created
    /\ late \subseteq Created /\ lateSeen \subseteq late
    /\ job \in [Process -> Job] /\ runs \in 0..MaxRuns

\* The wallet never spends a note again that one of its own transactions, already
\* with the server, spends, before that has expired: a payment is in the wallet
\* before the server sees it, whatever fails in between.  (Not so for what
\* send-without-storing sent.)
NoSelfConflict ==
    \A t, u \in Created :
        Conflict(t, u) /\ t \in tx[u].basis /\ t \in stored => t \in late

\* A command that pays succeeds only if the server took every transaction of its
\* proposal.
PaidInFull ==
    \A p \in Process :
        job[p].at = "ok" =>
            \/ job[p].txs = {}
            \/ Cardinality(job[p].txs) = job[p].steps /\ job[p].txs \subseteq accepted

\* In the end a note is spent in the chain or can be spent again: whichever step
\* failed, no payment that did not happen keeps its notes.
NotesReturn ==
    \A n \in Note :
        <>[](n \in Spendable \/ \E t \in Created : t \in chain /\ n \in Payment(t))
=============================================================================
