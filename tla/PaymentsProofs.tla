----------------------------- MODULE PaymentsProofs -----------------------------
(***************************************************************************)
(* Payments are safe for any notes, transactions and number of processes.  *)
(* The inductive invariant says what a running payment knows: that what it *)
(* spends, and what it has created, was stored before the server had it.   *)
(* And what `wallet enhance` leaves in the wallet, whatever the answers    *)
(* and their order and whatever other commands do meanwhile, is complete.  *)
(***************************************************************************)
EXTENDS Payments, TLAPS, FiniteSetTheorems

-----------------------------------------------------------------------------
(* The steps of wallet enhance. *)

Enhancement(t) == [kind |-> "Enhancement", of |-> t]

\* A height that is taken for a block's is of a transaction in the chain.
AnswersAreTrue == \A raw \in answer : MinedHeight(raw[2]) => raw[1] \in chain

\* Nothing the wallet should have is forgotten.
AncestryTracked == \A t \in known \cap Foreign : parents[t] \subseteq known \cup wanted \cup strange

\* What was asked for, was answered.
SatisfiedIsSettled == \A t \in Tx : Enhancement(t) \in satisfied => t \in known \cup strange

\* The answer is about what was asked.
AnswersTheRequest ==
    asked # NoRequest /\ asked.kind = "Enhancement" => \A raw \in answer : raw[1] = asked.of

\* Before the first request of a pass, the pass has all that is open.
PassIsComplete ==
    loop = "running" /\ ~fresh =>
        /\ asked = NoRequest
        /\ \A t \in known \cap Foreign : \A u \in parents[t] :
               u \in known \cup strange \/ Enhancement(u) \in left \cup satisfied

EnhanceInv ==
    /\ EnhanceTypeOK
    /\ MinedIsTrue /\ AnswersAreTrue
    /\ AncestryTracked /\ SatisfiedIsSettled /\ AnswersTheRequest /\ PassIsComplete
    /\ AncestryClosed

LEMMA InitEnhanceEstablishes ==
    ASSUME InitEnhance
    PROVE  EnhanceInv
<1> USE TransactionsAssumption DEF InitEnhance
<1>1. EnhanceTypeOK
  BY DEF EnhanceTypeOK, Tx
<1>2. MinedIsTrue /\ AnswersAreTrue
  BY DEF MinedIsTrue, AnswersAreTrue
<1>3. known \cap Foreign = {}
  OBVIOUS
<1>4. QED
  BY <1>1, <1>2, <1>3
     DEF EnhanceInv, AncestryTracked, SatisfiedIsSettled, AnswersTheRequest,
         PassIsComplete, AncestryClosed

LEMMA RequestsTyped == EnhanceTypeOK => Requests \subseteq Request
<1> SUFFICES ASSUME EnhanceTypeOK, NEW r \in Requests PROVE r \in Request
  OBVIOUS
<1>1. CASE r \in [kind : {"GetStatus"}, of : known \ mined]
  BY <1>1 DEF Request, EnhanceTypeOK
<1>2. CASE r \in [kind : {"Enhancement"}, of : wanted]
  BY <1>2 DEF Request, EnhanceTypeOK
<1>3. CASE r \in [kind : {"TransactionsInvolvingAddress"}, of : Address]
  BY <1>3 DEF Request
<1>4. QED
  BY <1>1, <1>2, <1>3 DEF Requests

\* A new pass has every ancestor that the wallet lacks.
LEMMA NewPassIsComplete ==
    ASSUME EnhanceInv, NEW t \in known \cap Foreign, NEW u \in parents[t]
    PROVE  u \in known \cup strange \/ Enhancement(u) \in Requests
<1>1. u \in known \cup strange \/ u \in wanted
  BY DEF EnhanceInv, AncestryTracked
<1>2. u \in wanted => Enhancement(u) \in [kind : {"Enhancement"}, of : wanted]
  BY DEF Enhancement
<1>3. QED
  BY <1>1, <1>2 DEF Requests

LEMMA BeginEnhanceKeeps ==
    ASSUME EnhanceInv, BeginEnhance
    PROVE  EnhanceInv'
<1> USE DEF BeginEnhance, server, wallet
<1>1. EnhanceTypeOK'
  BY RequestsTyped DEF EnhanceInv, EnhanceTypeOK
<1>2. PassIsComplete'
  BY NewPassIsComplete DEF PassIsComplete, EnhanceInv
<1>3. QED
  BY <1>1, <1>2
     DEF EnhanceInv, MinedIsTrue, AnswersAreTrue, MinedHeight, AncestryTracked,
         SatisfiedIsSettled, AnswersTheRequest, AncestryClosed

LEMMA FetchKeeps ==
    ASSUME EnhanceInv, Fetch
    PROVE  EnhanceInv'
<1> USE DEF server, wallet
<1>1. PICK r \in left \ satisfied :
        /\ asked' = r /\ left' = left \ {r} /\ fresh' = TRUE
        /\ LET txs == IF r.kind = "TransactionsInvolvingAddress"
                      THEN involving[r.of] \cap chain
                      ELSE {r.of} \cap (pool \cup chain)
           IN \E heights \in [txs -> {0, 1, MaxHeight + 1}] :
                /\ \A t \in txs : heights[t] \in RawHeights(t)
                /\ answer' = {<<t, heights[t]>> : t \in txs}
  BY DEF Fetch
<1> DEFINE txs == IF r.kind = "TransactionsInvolvingAddress"
                  THEN involving[r.of] \cap chain
                  ELSE {r.of} \cap (pool \cup chain)
<1>2. PICK heights \in [txs -> {0, 1, MaxHeight + 1}] :
        /\ \A t \in txs : heights[t] \in RawHeights(t)
        /\ answer' = {<<t, heights[t]>> : t \in txs}
  BY <1>1
<1>3. r \in Request /\ txs \subseteq Tx
  BY DEF EnhanceInv, EnhanceTypeOK
<1>4. r.kind = "Enhancement" => txs \subseteq {r.of}
  OBVIOUS
<1> HIDE DEF txs
<1>5. /\ loop = "running" /\ loop' = loop
      /\ UNCHANGED <<pool, chain, known, wanted, strange, mined, hasTip, satisfied>>
  BY DEF Fetch
<1>6. answer' \subseteq RawTransaction
  BY <1>2, <1>3, TransactionsAssumption DEF RawTransaction
<1>7. EnhanceTypeOK'
  BY <1>1, <1>3, <1>5, <1>6 DEF EnhanceInv, EnhanceTypeOK
<1>8. AnswersAreTrue'
  <2>1. \A t \in txs : MinedHeight(heights[t]) => t \in chain
    BY <1>2, TransactionsAssumption DEF RawHeights, MinedHeight
  <2>2. QED
    BY <1>2, <1>5, <2>1 DEF AnswersAreTrue, MinedHeight
<1>9. AnswersTheRequest'
  BY <1>1, <1>2, <1>4 DEF AnswersTheRequest
<1>10. QED
  BY <1>1, <1>5, <1>7, <1>8, <1>9
     DEF EnhanceInv, MinedIsTrue, AncestryTracked, SatisfiedIsSettled, PassIsComplete,
         AncestryClosed

\* Storing a transaction asks for its ancestors.
LEMMA StoreKeeps ==
    ASSUME EnhanceInv, NEW t \in Tx, NEW h, StoreTransaction(t, h)
    PROVE  /\ AncestryTracked' /\ known' \subseteq Tx /\ wanted' \subseteq Tx /\ strange' \subseteq Tx
           /\ known \cup strange \subseteq known' \cup strange'
<1> USE TransactionsAssumption DEF StoreTransaction, EnhanceInv, EnhanceTypeOK
<1>1. known' \subseteq Tx /\ strange' \subseteq Tx /\ known \cup strange \subseteq known' \cup strange'
  OBVIOUS
<1>2. wanted' \subseteq Tx
  <2>1. t \in Foreign => parents[t] \subseteq Tx
    BY DEF Tx
  <2>2. QED
    BY <2>1
<1>3. AncestryTracked'
  BY DEF AncestryTracked
<1>4. QED
  BY <1>1, <1>2, <1>3

LEMMA RecordKeeps ==
    ASSUME EnhanceInv, Record
    PROVE  EnhanceInv'
<1> USE DEF server, wallet
<1>1. PICK raw \in answer :
        /\ answer' = answer \ {raw}
        /\ IF asked.kind = "GetStatus"
           THEN Told(raw[1], raw[2]) /\ UNCHANGED <<known, wanted, strange>>
           ELSE StoreTransaction(raw[1], raw[2])
        /\ IF answer' = {} THEN satisfied' = Remember(asked) /\ asked' = NoRequest
                           ELSE UNCHANGED <<satisfied, asked>>
  BY DEF Record
<1>2. /\ loop = "running" /\ loop' = loop /\ asked # NoRequest /\ asked \in Request
      /\ UNCHANGED <<pool, chain, hasTip, left, fresh>>
  BY DEF Record, EnhanceInv, EnhanceTypeOK
<1>3. raw[1] \in Tx
  BY <1>1 DEF EnhanceInv, EnhanceTypeOK, RawTransaction
<1>4. Told(raw[1], raw[2])
  BY <1>1 DEF StoreTransaction
<1>5. /\ AncestryTracked' /\ known' \subseteq Tx /\ wanted' \subseteq Tx /\ strange' \subseteq Tx
      /\ known \cup strange \subseteq known' \cup strange'
  <2>1. CASE asked.kind = "GetStatus"
    BY <1>1, <2>1 DEF EnhanceInv, EnhanceTypeOK, AncestryTracked
  <2>2. CASE asked.kind # "GetStatus"
    BY <1>1, <1>3, <2>2, StoreKeeps
  <2>3. QED
    BY <2>1, <2>2
<1>6. MinedIsTrue' /\ mined' \subseteq Tx
  BY <1>1, <1>2, <1>3, <1>4 DEF Told, EnhanceInv, MinedIsTrue, AnswersAreTrue, EnhanceTypeOK
<1>7. EnhanceTypeOK'
  BY <1>1, <1>2, <1>5, <1>6 DEF EnhanceInv, EnhanceTypeOK, Remember
<1>8. SatisfiedIsSettled'
  <2>1. satisfied' \subseteq satisfied \cup {asked}
    BY <1>1 DEF Remember
  <2>2. asked.kind = "Enhancement" => asked.of \in known'
    <3>1. asked.kind = "Enhancement" => raw[1] = asked.of
      BY <1>1, <1>2 DEF EnhanceInv, AnswersTheRequest
    <3>2. asked.kind = "Enhancement" => raw[1] \in known'
      BY <1>1 DEF StoreTransaction
    <3>3. QED
      BY <3>1, <3>2
  <2>3. \A t \in Tx : Enhancement(t) = asked => asked.kind = "Enhancement" /\ asked.of = t
    BY DEF Enhancement
  <2>4. QED
    BY <1>5, <2>1, <2>2, <2>3 DEF EnhanceInv, SatisfiedIsSettled
<1>9. fresh
  BY <1>2 DEF EnhanceInv, PassIsComplete, EnhanceTypeOK
<1>10. QED
  BY <1>1, <1>2, <1>5, <1>6, <1>7, <1>8, <1>9
     DEF EnhanceInv, AnswersAreTrue, MinedHeight, AnswersTheRequest, PassIsComplete,
         AncestryClosed

LEMMA RecordNothingKeeps ==
    ASSUME EnhanceInv, RecordNothing
    PROVE  EnhanceInv'
<1> USE DEF server, wallet, RecordNothing
<1>1. asked \in Request /\ asked # NoRequest
  BY DEF EnhanceInv, EnhanceTypeOK
<1>2. EnhanceTypeOK'
  <2>1. asked.kind = "Enhancement" => asked.of \in Tx
    BY <1>1 DEF Request
  <2>2. QED
    BY <1>1, <2>1 DEF EnhanceInv, EnhanceTypeOK, Remember
<1>3. AncestryTracked' /\ known \cup strange \subseteq known' \cup strange'
  BY DEF EnhanceInv, AncestryTracked
<1>4. SatisfiedIsSettled'
  <2>1. \A t \in Tx : Enhancement(t) = asked => asked.kind = "Enhancement" /\ asked.of = t
    BY DEF Enhancement
  <2>2. QED
    BY <1>3, <2>1 DEF EnhanceInv, SatisfiedIsSettled, Remember
<1>5. fresh
  BY <1>1 DEF EnhanceInv, PassIsComplete, EnhanceTypeOK
<1>6. QED
  BY <1>2, <1>3, <1>4, <1>5
     DEF EnhanceInv, MinedIsTrue, AnswersAreTrue, AnswersTheRequest, PassIsComplete,
         AncestryClosed

LEMMA EndPassKeeps ==
    ASSUME EnhanceInv, EndPass
    PROVE  EnhanceInv'
<1> USE DEF server, wallet
<1>1. /\ loop = "running" /\ asked = NoRequest /\ left \subseteq satisfied /\ fresh' = FALSE
      /\ UNCHANGED <<pool, chain, known, wanted, strange, mined, hasTip, satisfied, asked, answer>>
      /\ \/ ~fresh /\ loop' = "done" /\ left' = {}
         \/ fresh /\ loop' = loop /\ left' = Requests
  BY DEF EndPass, PassEndsLoop
<1>2. EnhanceTypeOK'
  BY <1>1, RequestsTyped DEF EnhanceInv, EnhanceTypeOK
<1>3. AncestryClosed'
  <2> SUFFICES ASSUME ~fresh, NEW t \in known \cap Foreign, NEW u \in parents[t]
               PROVE  u \in known \cup strange
    BY <1>1 DEF AncestryClosed
  <2>1. u \in Tx
    BY TransactionsAssumption DEF Tx
  <2>2. u \in known \cup strange \/ Enhancement(u) \in satisfied
    BY <1>1 DEF EnhanceInv, PassIsComplete
  <2>3. QED
    BY <2>1, <2>2 DEF EnhanceInv, SatisfiedIsSettled
<1>4. PassIsComplete'
  BY <1>1, NewPassIsComplete DEF PassIsComplete, EnhanceInv
<1>5. QED
  BY <1>1, <1>2, <1>3, <1>4
     DEF EnhanceInv, MinedIsTrue, AnswersAreTrue, AncestryTracked, SatisfiedIsSettled,
         AnswersTheRequest

LEMMA FailEnhanceKeeps ==
    ASSUME EnhanceInv, FailEnhance
    PROVE  EnhanceInv'
  BY DEF FailEnhance, server, wallet, EnhanceInv, EnhanceTypeOK, MinedIsTrue, AnswersAreTrue,
         AncestryTracked, SatisfiedIsSettled, AnswersTheRequest, PassIsComplete, AncestryClosed

\* What others do: the chain grows, and the wallet learns of its own transactions, of
\* what was mined and of more ids.
LEMMA OthersKeep ==
    ASSUME EnhanceInv, UNCHANGED <<strange, command>>,
           pool' \subseteq Tx, chain \subseteq chain', chain' \subseteq Tx,
           known \subseteq known', known' \subseteq known \cup Own,
           wanted \subseteq wanted', wanted' \subseteq Tx,
           mined' \subseteq chain', hasTip' \in BOOLEAN
    PROVE  EnhanceInv'
<1> USE TransactionsAssumption DEF command
<1>1. known' \cap Foreign = known \cap Foreign
  OBVIOUS
<1>2. EnhanceTypeOK'
  BY DEF EnhanceInv, EnhanceTypeOK, Tx
<1>3. PassIsComplete'
  BY <1>1 DEF EnhanceInv, PassIsComplete
<1>4. QED
  BY <1>1, <1>2, <1>3
     DEF EnhanceInv, MinedIsTrue, AnswersAreTrue, AncestryTracked, SatisfiedIsSettled,
         AnswersTheRequest, AncestryClosed

-----------------------------------------------------------------------------
(* Payments. *)

PayTx == [notes : SUBSET Note, basis : SUBSET Tx]

\* The server has no transaction of the wallet's that the wallet did not create.
ServerHasCreated == (pool \cup chain) \cap Own \subseteq Created

\* A payment, and a proposal, was made after what the server had then.
BasisIsCreated ==
    /\ \A u \in Created : tx[u].basis \cap Own \subseteq Created
    /\ \A p \in Process : job[p].basis \cap Own \subseteq Created

\* The notes of a proposal are spent by nothing that is stored and was then with the
\* server, unless that had expired.
ProposalsAreFresh ==
    \A p \in Process : \A t \in job[p].basis \cap stored :
        Payment(t) \cap job[p].notes # {} => t \in late

\* One transaction at most is on its way; a proposal of more was refused.
OneTransaction ==
    \A p \in Process :
        /\ job[p].txs = {} \/ (job[p].steps = 1 /\ \E t \in Created : job[p].txs = {t})
        /\ job[p].at \in {"created", "accepted", "refused"} => job[p].txs # {}
        /\ job[p].at \in {"idle", "accepted", "ok"} => job[p].txs \subseteq accepted
        /\ job[p].how # "wallet" => job[p].steps = 1
        /\ job[p].at \in {"confirm", "proposed"} => job[p].steps \in 1..2
        /\ job[p].at = "pczt" => job[p].how # "wallet"

\* pczt send stores what it sends.
SentIsStored == \A p \in Process : job[p].how = "pczt" => job[p].txs \subseteq stored

JobsInv == BasisIsCreated /\ ProposalsAreFresh /\ OneTransaction /\ SentIsStored /\ NoSelfConflict

LedgerTypeOK ==
    /\ tx \in Seq(PayTx) /\ Len(tx) <= MaxTx
    /\ stored \subseteq Created /\ accepted \subseteq Created
    /\ late \subseteq Created /\ lateSeen \subseteq late
    /\ job \in [Process -> Job] /\ runs \in 0..MaxRuns

IInv ==
    /\ EnhanceInv /\ LedgerTypeOK
    /\ stored \subseteq known /\ ServerHasCreated
    /\ JobsInv

LEMMA InitEstablishes == Init => IInv
<1> SUFFICES ASSUME Init PROVE IInv
  OBVIOUS
<1> USE PaymentsAssumption, TransactionsAssumption
<1>1. tx \in Seq(PayTx) /\ Len(tx) \in 0..1 /\ \A u \in Created : tx[u] = Old
  <2>1. Old \in PayTx
    BY DEF Old, PayTx
  <2>2. CASE tx = << >>
    BY <2>2 DEF Created
  <2>3. CASE tx = <<Old>>
    BY <2>1, <2>3 DEF Created
  <2>4. QED
    BY <2>2, <2>3 DEF Init
<1>2. Idle \in Job /\ Closed \in Job
  BY DEF Idle, Closed, Job
<1>3. \A p \in Process : job[p] \in {Idle, Closed}
  BY DEF Init
<1>4. \A p \in Process :
        /\ job[p].txs = {} /\ job[p].basis = {} /\ job[p].notes = {}
        /\ job[p].at \in {"idle", "closed"} /\ job[p].how = "wallet"
  BY <1>3 DEF Idle, Closed
<1>5. EnhanceInv /\ pool \cup chain \subseteq Foreign
  BY InitEnhanceEstablishes DEF Init, InitEnhance
<1>6. LedgerTypeOK
  BY <1>1, <1>2, <1>3 DEF Init, LedgerTypeOK, Created
<1>7. JobsInv
  BY <1>1, <1>4
     DEF JobsInv, BasisIsCreated, ProposalsAreFresh, OneTransaction, SentIsStored,
         NoSelfConflict, Conflict, Payment, Old
<1>8. QED
  BY <1>5, <1>6, <1>7 DEF IInv, Init, ServerHasCreated

-----------------------------------------------------------------------------
(* Steps that create nothing. *)

\* The state of a job that keeps the invariant, whatever the others are doing.
GoodJob(j) ==
    /\ j \in Job
    /\ j.basis \cap Own \subseteq Created
    /\ \A t \in j.basis \cap stored : Payment(t) \cap j.notes # {} => t \in late
    /\ j.txs = {} \/ (j.steps = 1 /\ \E t \in Created : j.txs = {t})
    /\ j.at \in {"created", "accepted", "refused"} => j.txs # {}
    /\ j.at \in {"idle", "accepted", "ok"} => j.txs \subseteq accepted
    /\ j.how # "wallet" => j.steps = 1
    /\ j.at \in {"confirm", "proposed"} => j.steps \in 1..2
    /\ j.at = "pczt" => j.how # "wallet"
    /\ j.how = "pczt" => j.txs \subseteq stored

LEMMA JobsAreGood == IInv => \A p \in Process : GoodJob(job[p])
  BY DEF IInv, LedgerTypeOK, JobsInv, GoodJob, BasisIsCreated, ProposalsAreFresh, OneTransaction, SentIsStored

\* One process goes on, and nothing else changes.
LEMMA JobKeeps ==
    ASSUME IInv, NEW p \in Process, NEW j, GoodJob(j), job' = [job EXCEPT ![p] = j], OnlyJob
    PROVE  IInv'
<1> USE DEF OnlyJob, server, wallet, command, expiry
<1>1. EnhanceInv'
  BY DEF IInv, EnhanceInv, EnhanceTypeOK, MinedIsTrue, AnswersAreTrue, AncestryTracked,
         SatisfiedIsSettled, AnswersTheRequest, PassIsComplete, AncestryClosed
<1>2. \A q \in Process : job'[q] = (IF q = p THEN j ELSE job[q])
  BY DEF IInv, LedgerTypeOK
<1>3. LedgerTypeOK'
  BY DEF IInv, LedgerTypeOK, GoodJob, Created
<1>4. \A q \in Process : GoodJob(job'[q])
  BY <1>2, JobsAreGood
<1>5. JobsInv'
  BY <1>4 DEF IInv, JobsInv, GoodJob, BasisIsCreated, ProposalsAreFresh, OneTransaction,
              SentIsStored, NoSelfConflict, Created, Conflict, Payment
<1>6. QED
  BY <1>1, <1>3, <1>5 DEF IInv, ServerHasCreated, Created

LEMMA ProposeKeeps ==
    ASSUME IInv, NEW p \in Process, NEW at \in {"proposed", "confirm", "ok", "pczt"},
           NEW how \in {"wallet", "pczt", "unstored"},
           Propose(p, at, how), how # "wallet" => job'[p].steps = 1,
           at = "pczt" => how # "wallet"
    PROVE  IInv'
<1>1. PICK S \in SUBSET Spendable, n \in 1..2 :
        /\ OnlyJob
        /\ job' = [job EXCEPT ![p] = [at |-> at, how |-> how, notes |-> S, steps |-> n,
                                      txs |-> {}, basis |-> pool \cup chain]]
  BY DEF Propose
<1> DEFINE j == [at |-> at, how |-> how, notes |-> S, steps |-> n,
                 txs |-> {}, basis |-> pool \cup chain]
<1>2. job'[p] = j
  BY <1>1 DEF IInv, LedgerTypeOK
<1>3. j \in Job
  <2>1. S \subseteq Note /\ pool \cup chain \subseteq Tx
    BY DEF Spendable, IInv, EnhanceInv, EnhanceTypeOK
  <2>2. QED
    BY <2>1 DEF Job
<1>4. ASSUME NEW t \in (pool \cup chain) \cap stored, Payment(t) \cap S # {}
      PROVE  t \in late
  <2>1. t \in Created /\ t \in known
    BY DEF IInv, LedgerTypeOK
  <2>2. ~Spends(t)
    BY <1>4, <2>1 DEF Spendable
  <2>3. QED
    BY <2>1, <2>2 DEF Spends, IInv, LedgerTypeOK
<1>5. GoodJob(j)
  BY <1>2, <1>3, <1>4 DEF GoodJob, IInv, ServerHasCreated
<1>6. QED
  BY <1>1, <1>5, JobKeeps

\* The commands that propose, read and give up.
LEMMA ProposalsKeep ==
    ASSUME IInv, NEW p \in Process,
           BeginSend(p) \/ BeginPay(p) \/ ShowProposal(p) \/ CreatePczt(p)
    PROVE  IInv'
<1>1. CASE BeginSend(p) \/ BeginPay(p) \/ ShowProposal(p)
  BY <1>1, ProposeKeeps DEF BeginSend, BeginPay, ShowProposal
<1>2. CASE CreatePczt(p)
  BY <1>2, ProposeKeeps DEF CreatePczt
<1>3. QED
  BY <1>1, <1>2

LEMMA FailedIsGood ==
    ASSUME NEW j, GoodJob(j)
    PROVE  GoodJob(Failed(j)) /\ GoodJob(Idle)
  BY DEF GoodJob, Failed, Idle, Job

LEMMA WaitingKeeps ==
    ASSUME IInv, NEW p \in Process,
           ShieldNothing(p) \/ Confirm(p) \/ Answered(p) \/ Fail(p)
    PROVE  IInv'
<1>1. GoodJob(job[p]) /\ job[p] \in Job
  BY JobsAreGood DEF GoodJob
<1>2. CASE ShieldNothing(p)
  <2>1. GoodJob([job[p] EXCEPT !.at = "ok"])
  \* an idle process has no transactions
    BY <1>1, <1>2 DEF ShieldNothing, GoodJob, Job
  <2>2. QED
    BY <1>2, <2>1, JobKeeps DEF ShieldNothing, Goto
<1>3. CASE Confirm(p)
  <2>1. GoodJob([job[p] EXCEPT !.at = "proposed"])
    BY <1>1, <1>3 DEF Confirm, GoodJob, Job
  <2>2. CASE Goto(p, "proposed")
    BY <1>3, <2>1, <2>2, JobKeeps DEF Confirm, Goto
  <2>3. CASE job' = [job EXCEPT ![p] = Idle]
    BY <1>1, <1>3, <2>3, FailedIsGood, JobKeeps DEF Confirm
  <2>4. QED
    BY <1>3, <2>2, <2>3 DEF Confirm
<1>4. CASE Answered(p)
  <2>1. CASE job[p].at = "accepted"
    <3>1. GoodJob([job[p] EXCEPT !.at = "ok"])
      BY <1>1, <2>1 DEF GoodJob, Job
    <3>2. QED
      BY <1>4, <2>1, <3>1, JobKeeps DEF Answered, Answer, Goto
  <2>2. CASE job[p].at = "refused"
    BY <1>1, <1>4, <2>2, FailedIsGood, JobKeeps DEF Answered, Answer
  <2>3. QED
    BY <1>4, <2>1, <2>2 DEF Answered
<1>5. CASE Fail(p)
  BY <1>1, <1>5, FailedIsGood, JobKeeps DEF Fail
<1>6. QED
  BY <1>2, <1>3, <1>4, <1>5

-----------------------------------------------------------------------------
(* Steps that create a transaction, or send it. *)

\* The transactions made of a job go to the end, and the job's notes to the first.
Appended(p, n) ==
    /\ tx' = tx \o NewTx(p, n)
    /\ n \in 1..2 /\ Len(tx) + n <= MaxTx

LEMMA AppendedTx ==
    ASSUME IInv, NEW p \in Process, NEW n, Appended(p, n)
    PROVE  /\ tx' \in Seq(PayTx) /\ Len(tx') = Len(tx) + n
           /\ Created' = Created \cup NewIds(n) /\ Created \cap NewIds(n) = {}
           /\ NewIds(n) \subseteq Own
           /\ \A t \in Created : tx'[t] = tx[t]
           /\ \A t \in NewIds(n) : /\ tx'[t].basis = job[p].basis
                                    /\ tx'[t].notes \subseteq job[p].notes
           /\ \A t, u \in NewIds(n) : t # u => tx'[t].notes \cap tx'[u].notes = {}
<1> USE PaymentsAssumption DEF Appended
<1>1. job[p].notes \subseteq Note /\ job[p].basis \subseteq Tx
  BY DEF IInv, LedgerTypeOK, Job
<1>2. NewTx(p, n) \in Seq(PayTx) /\ Len(NewTx(p, n)) = n
  <2> DEFINE e(k) == [notes |-> IF k = 1 THEN job[p].notes ELSE {}, basis |-> job[p].basis]
  <2>1. n \in Nat /\ \A k \in 1..n : e(k) \in PayTx
    BY <1>1 DEF PayTx
  <2>2. NewTx(p, n) = [k \in 1..n |-> e(k)]
    BY DEF NewTx
  <2> HIDE DEF e
  <2>3. QED
    BY <2>1, <2>2
<1>3. tx \in Seq(PayTx) /\ Len(tx) \in Nat
  BY DEF IInv, LedgerTypeOK
<1>4. tx' \in Seq(PayTx) /\ Len(tx') = Len(tx) + n
  BY <1>2, <1>3
<1> DEFINE new == NewTx(p, n)
<1> HIDE DEF new
<1>5. tx' = tx \o new /\ new \in Seq(PayTx) /\ Len(new) = n /\ n \in Nat
  BY <1>2 DEF new
<1>6. /\ \A t \in 1..Len(tx) : tx'[t] = tx[t]
      /\ \A k \in 1..n : tx'[Len(tx) + k] = new[k]
  <2> HIDE DEF Appended
  <2>1. QED
    BY <1>3, <1>5
<1>7. \A t \in NewIds(n) : t - Len(tx) \in 1..n /\ tx'[t] = NewTx(p, n)[t - Len(tx)]
  <2> SUFFICES ASSUME NEW t \in NewIds(n)
               PROVE  t - Len(tx) \in 1..n /\ tx'[t] = new[t - Len(tx)]
    BY DEF new
  <2> HIDE DEF Appended
  <2>1. t - Len(tx) \in 1..n /\ Len(tx) + (t - Len(tx)) = t
    BY <1>3, <1>5 DEF NewIds
  <2>2. QED
    BY <1>6, <2>1
<1>8. \A k \in 1..n : NewTx(p, n)[k] = [notes |-> IF k = 1 THEN job[p].notes ELSE {},
                                        basis |-> job[p].basis]
  BY DEF NewTx
<1>9. \A t \in NewIds(n) : /\ tx'[t].basis = job[p].basis
                           /\ tx'[t].notes = IF t = Len(tx) + 1 THEN job[p].notes ELSE {}
  <2> SUFFICES ASSUME NEW t \in NewIds(n)
               PROVE  /\ tx'[t].basis = job[p].basis
                      /\ tx'[t].notes = IF t = Len(tx) + 1 THEN job[p].notes ELSE {}
    OBVIOUS
  <2> HIDE DEF Appended
  <2>1. /\ tx'[t].basis = job[p].basis
        /\ tx'[t].notes = IF t - Len(tx) = 1 THEN job[p].notes ELSE {}
    <3>1. PICK k \in 1..n : k = t - Len(tx) /\ tx'[t] = NewTx(p, n)[k]
      BY <1>7
    <3>2. NewTx(p, n)[k] = [notes |-> IF k = 1 THEN job[p].notes ELSE {}, basis |-> job[p].basis]
      BY <1>8
    <3>3. QED
      BY <3>1, <3>2
  <2>2. t - Len(tx) = 1 <=> t = Len(tx) + 1
    BY <1>3, <1>5 DEF NewIds
  <2>3. QED
    BY <2>1, <2>2
<1>10. Created' = Created \cup NewIds(n) /\ Created \cap NewIds(n) = {} /\ NewIds(n) \subseteq Own
  BY <1>3, <1>4 DEF Created, NewIds
<1>11. QED
  BY <1>3, <1>4, <1>6, <1>9, <1>10 DEF Created

\* A job that made the transactions, or failed once they were made.
GoodHeir(p, n, j) ==
    /\ j \in Job
    /\ j.basis \subseteq job[p].basis /\ j.notes \subseteq job[p].notes
    /\ j.txs = {} \/ (n = 1 /\ j.steps = 1 /\ j.txs = NewIds(1))
    /\ j.at \in {"created", "failed", "idle"} /\ (j.at = "idle" => j.txs = {})
    /\ j.at = "created" => j.txs # {}
    /\ j.how # "wallet" => j.steps = 1
    /\ j.how = "pczt" => j.txs \subseteq stored'

LEMMA CreatingKeeps ==
    ASSUME IInv, NEW p \in Process, NEW n, Appended(p, n),
           NEW j, GoodHeir(p, n, j), job' = [job EXCEPT ![p] = j],
           stored \subseteq stored', stored' \subseteq stored \cup NewIds(n),
           known \subseteq known', known' \subseteq known \cup NewIds(n), stored' \subseteq known',
           UNCHANGED <<server, wanted, strange, mined, hasTip, command, accepted, expiry, runs>>
    PROVE  IInv'
<1> USE PaymentsAssumption, TransactionsAssumption DEF server, expiry
<1>1. /\ tx' \in Seq(PayTx) /\ Len(tx') = Len(tx) + n
      /\ Created' = Created \cup NewIds(n) /\ Created \cap NewIds(n) = {}
      /\ NewIds(n) \subseteq Own
      /\ \A t \in Created : tx'[t] = tx[t]
      /\ \A t \in NewIds(n) : /\ tx'[t].basis = job[p].basis
                               /\ tx'[t].notes \subseteq job[p].notes
      /\ \A t, u \in NewIds(n) : t # u => tx'[t].notes \cap tx'[u].notes = {}
  BY AppendedTx
<1>2. EnhanceInv'
  <2>1. known' \subseteq known \cup Own
    BY <1>1
  <2>2. /\ pool \subseteq Tx /\ chain \subseteq Tx /\ wanted \subseteq Tx
        /\ mined \subseteq chain /\ hasTip \in BOOLEAN
    BY DEF IInv, EnhanceInv, EnhanceTypeOK, MinedIsTrue
  <2>3. QED
    BY <2>1, <2>2, OthersKeep DEF IInv
<1>3. \A q \in Process : job'[q] = (IF q = p THEN j ELSE job[q])
  BY DEF IInv, LedgerTypeOK
<1>4. LedgerTypeOK'
  BY <1>1 DEF IInv, LedgerTypeOK, GoodHeir, Appended
<1>5. ServerHasCreated'
  BY <1>1 DEF IInv, ServerHasCreated
<1>6. \A q \in Process : /\ job[q].basis \cap Own \subseteq Created
                         /\ job'[q].basis \subseteq job[q].basis
                         /\ job'[q].notes \subseteq job[q].notes
  BY <1>3 DEF IInv, JobsInv, BasisIsCreated, GoodHeir
<1>7. BasisIsCreated'
  BY <1>1, <1>6 DEF IInv, JobsInv, BasisIsCreated
<1>8. \A q \in Process : \A t \in job[q].basis \cap stored' :
        /\ t \in stored /\ t \in Created
        /\ tx[t].notes \cap job[q].notes # {} => t \in late
  BY <1>1, <1>6 DEF IInv, JobsInv, LedgerTypeOK, ProposalsAreFresh, Payment
<1>9. ProposalsAreFresh'
  BY <1>1, <1>6, <1>8 DEF ProposalsAreFresh, Payment
<1>10. OneTransaction'
  <2> SUFFICES ASSUME NEW q \in Process
               PROVE  /\ job'[q].txs = {} \/ (job'[q].steps = 1 /\ \E t \in Created' : job'[q].txs = {t})
                      /\ job'[q].at \in {"created", "accepted", "refused"} => job'[q].txs # {}
                      /\ job'[q].at \in {"idle", "accepted", "ok"} => job'[q].txs \subseteq accepted'
                      /\ job'[q].how # "wallet" => job'[q].steps = 1
                      /\ job'[q].at \in {"confirm", "proposed"} => job'[q].steps \in 1..2
                      /\ job'[q].at = "pczt" => job'[q].how # "wallet"
    BY DEF OneTransaction
  <2>1. NewIds(1) = {Len(tx) + 1}
    BY DEF NewIds, IInv, LedgerTypeOK
  <2>2. CASE q = p
    BY <1>1, <1>3, <2>1, <2>2 DEF GoodHeir
  <2>3. CASE q # p
    BY <1>1, <1>3, <2>3 DEF IInv, JobsInv, OneTransaction
  <2>4. QED
    BY <2>2, <2>3
<1>11. SentIsStored'
  BY <1>3 DEF IInv, JobsInv, SentIsStored, GoodHeir
<1>12. NoSelfConflict'
  <2> SUFFICES ASSUME NEW t \in Created', NEW u \in Created', t # u,
                      tx'[t].notes \cap tx'[u].notes # {}, t \in tx'[u].basis, t \in stored'
               PROVE  t \in late
    BY DEF NoSelfConflict, Conflict, Payment
  <2>1. CASE u \in NewIds(n)
    <3>1. t \in job[p].basis \cap stored'
      BY <1>1, <2>1
    <3>2. t \in Created /\ tx[t].notes \cap job[p].notes # {}
      BY <1>1, <1>8, <2>1, <3>1
    <3>3. QED
      BY <1>8, <3>1, <3>2
  <2>2. CASE u \in Created
    <3>1. t \in Created /\ t \in stored
      BY <1>1, <2>2 DEF IInv, JobsInv, BasisIsCreated
    <3>2. QED
      BY <1>1, <2>2, <3>1 DEF IInv, JobsInv, NoSelfConflict, Conflict, Payment
  <2>3. QED
    BY <1>1, <2>1, <2>2
<1>13. QED
  BY <1>2, <1>4, <1>5, <1>7, <1>9, <1>10, <1>11, <1>12 DEF IInv, JobsInv

LEMMA CreateTransactionsKeeps ==
    ASSUME IInv, NEW p \in Process, CreateTransactions(p)
    PROVE  IInv'
<1> DEFINE n == job[p].steps
           ids == NewIds(n)
           j == IF TooMany(n) THEN Failed(job[p]) ELSE Made(job[p], ids)
<1>1. /\ job[p].at = "proposed" /\ Len(tx) + n <= MaxTx
      /\ tx' = tx \o NewTx(p, n)
      /\ known' = known \cup ids /\ stored' = stored \cup ids
      /\ job' = [job EXCEPT ![p] = j]
      /\ UNCHANGED <<server, wanted, strange, mined, hasTip, command, accepted, expiry, runs>>
  BY DEF CreateTransactions, StoredNow
<1>2. GoodJob(job[p]) /\ job[p] \in Job /\ n \in 1..2
  BY <1>1, JobsAreGood DEF GoodJob
<1>3. Appended(p, n)
  BY <1>1, <1>2 DEF Appended
<1>4. ids \subseteq Own
  BY <1>3, AppendedTx
<1>5. CASE n = 1
  <2>1. j = Made(job[p], ids)
    BY <1>5 DEF TooMany
  <2>2. ids # {}
    BY <1>5 DEF NewIds, IInv, LedgerTypeOK
  <2>3. GoodHeir(p, n, j)
    BY <1>1, <1>2, <1>4, <1>5, <2>1, <2>2 DEF GoodHeir, Made, Job
  <2>4. QED
    BY <1>1, <1>3, <2>3, CreatingKeeps DEF IInv
<1>6. CASE n = 2
  <2>1. j = Failed(job[p]) /\ job[p].how = "wallet"
    BY <1>2, <1>6 DEF TooMany, GoodJob
  <2>2. GoodHeir(p, n, j)
    BY <1>2, <2>1 DEF GoodHeir, Failed, Idle, Job
  <2>3. QED
    BY <1>1, <1>3, <2>2, CreatingKeeps DEF IInv
<1>7. QED
  BY <1>2, <1>5, <1>6

LEMMA ExtractPcztKeeps ==
    ASSUME IInv, NEW p \in Process, ExtractPczt(p)
    PROVE  IInv'
<1>1. GoodJob(job[p]) /\ job[p] \in Job /\ job[p].how # "wallet" /\ job[p].steps = 1
  BY JobsAreGood DEF GoodJob, ExtractPczt
<1>2. CASE job[p].txs # {}
  <2> DEFINE j == Made(job[p], job[p].txs)
  <2>1. job' = [job EXCEPT ![p] = j] /\ OnlyJob
    BY <1>1, <1>2 DEF ExtractPczt, OnlyJob, StoredNow, GoodJob, IInv, wallet
  <2>2. GoodJob(j)
    BY <1>1, <1>2 DEF GoodJob, Made, Job
  <2>3. QED
    BY <2>1, <2>2, JobKeeps
<1>3. CASE job[p].txs = {}
  <2> DEFINE j == Made(job[p], NewIds(1))
  <2>1. /\ Len(tx) < MaxTx /\ tx' = tx \o NewTx(p, 1) /\ job' = [job EXCEPT ![p] = j]
        /\ IF job[p].how = "pczt"
           THEN known' = known \cup NewIds(1) /\ stored' = stored \cup NewIds(1)
           ELSE UNCHANGED <<known, stored>>
        /\ UNCHANGED <<server, wanted, strange, mined, hasTip, command, accepted, expiry, runs>>
    BY <1>3 DEF ExtractPczt, StoredNow
  <2>2. Appended(p, 1)
    BY <2>1, PaymentsAssumption DEF Appended, IInv, LedgerTypeOK
  <2>3. NewIds(1) \subseteq Own /\ NewIds(1) # {}
    BY <2>2, AppendedTx DEF NewIds, IInv, LedgerTypeOK
  <2>4. GoodHeir(p, 1, j)
    BY <1>1, <2>1, <2>3 DEF GoodHeir, Made, Job
  <2>5. QED
    BY <2>1, <2>2, <2>4, CreatingKeeps DEF IInv
<1>4. QED
  BY <1>2, <1>3

\* Time passes and the server takes more; what the jobs know stays true.
LEMMA LedgerKeeps ==
    ASSUME IInv, EnhanceInv', LedgerTypeOK', ServerHasCreated', UNCHANGED <<tx, stored, job>>,
           known \subseteq known', late \subseteq late', accepted \subseteq accepted'
    PROVE  IInv'
<1>1. Created' = Created /\ \A t : Payment(t)' = Payment(t)
  BY DEF Created, Payment
<1>2. BasisIsCreated' /\ ProposalsAreFresh' /\ SentIsStored' /\ NoSelfConflict'
  BY <1>1 DEF IInv, JobsInv, BasisIsCreated, ProposalsAreFresh, SentIsStored, NoSelfConflict,
              Conflict, Payment
<1>3. OneTransaction'
  BY <1>1 DEF IInv, JobsInv, OneTransaction
<1>4. QED
  BY <1>2, <1>3 DEF IInv, JobsInv

LEMMA SubmitKeeps ==
    ASSUME IInv, NEW p \in Process, Submit(p)
    PROVE  IInv'
<1> USE PaymentsAssumption
<1>1. GoodJob(job[p]) /\ job[p] \in Job /\ job[p].at = "created"
  BY JobsAreGood DEF GoodJob, Submit
<1>2. PICK t \in Created : job[p].txs = {t}
  BY <1>1 DEF GoodJob
<1>3. First(job[p].txs) = t
  <2>1. t \in Nat
    BY DEF Created, IInv, LedgerTypeOK
  <2>2. t <= t
    BY <2>1
  <2>3. QED
    BY <1>2, <2>2 DEF First
<1>4. UNCHANGED <<chain, wallet, hasTip, command, tx, stored, expiry, runs>>
  BY DEF Submit
<1>5. CASE UNCHANGED <<pool, accepted>> /\ Goto(p, "refused")
  <2>1. GoodJob([job[p] EXCEPT !.at = "refused"])
    BY <1>1 DEF GoodJob, Job
  <2>2. QED
    BY <1>4, <1>5, <2>1, JobKeeps DEF Goto, OnlyJob, server
<1>6. CASE /\ pool' \subseteq pool \cup {t} /\ accepted' = accepted \cup {t}
           /\ Goto(p, "accepted")
  <2>1. t \in Own
    BY <1>2 DEF Created, IInv, LedgerTypeOK
  <2>2. EnhanceInv'
    <3>1. /\ pool' \subseteq Tx /\ chain \subseteq Tx /\ wanted \subseteq Tx
          /\ mined \subseteq chain /\ hasTip \in BOOLEAN
      BY <1>6, <2>1 DEF IInv, EnhanceInv, EnhanceTypeOK, MinedIsTrue, Tx
    <3>2. QED
      BY <1>4, <3>1, OthersKeep DEF IInv, wallet
  <2>3. \A q \in Process :
          job'[q] = IF q = p THEN [job[p] EXCEPT !.at = "accepted"] ELSE job[q]
    BY <1>6 DEF IInv, LedgerTypeOK, Goto
  <2>4. [job[p] EXCEPT !.at = "accepted"] \in Job
    BY <1>1 DEF Job
  <2>5. LedgerTypeOK'
    BY <1>2, <1>4, <1>6, <2>4 DEF IInv, LedgerTypeOK, Goto, Created, expiry
  <2>6. ServerHasCreated'
    BY <1>2, <1>4, <1>6 DEF IInv, ServerHasCreated, Created
  <2>7. \A q \in Process :
          /\ job'[q].basis = job[q].basis /\ job'[q].notes = job[q].notes
          /\ job'[q].txs = job[q].txs /\ job'[q].how = job[q].how /\ job'[q].steps = job[q].steps
          /\ job'[q].at = IF q = p THEN "accepted" ELSE job[q].at
    BY <1>1, <2>3 DEF Job
  <2>8. BasisIsCreated' /\ ProposalsAreFresh' /\ SentIsStored' /\ NoSelfConflict'
    BY <1>4, <2>7 DEF IInv, JobsInv, BasisIsCreated, ProposalsAreFresh, SentIsStored,
                      NoSelfConflict, Conflict, Payment, Created, expiry
  <2>9. OneTransaction'
    <3>1. OneTransaction /\ Created' = Created
      BY <1>4 DEF IInv, JobsInv, Created
    <3>2. job[p].txs # {} /\ job[p].txs \subseteq accepted'
      BY <1>2, <1>6
    <3>3. accepted \subseteq accepted'
      BY <1>6
    <3>4. QED
      BY <1>1, <2>7, <3>1, <3>2, <3>3 DEF OneTransaction
  <2>10. QED
    BY <1>4, <2>2, <2>5, <2>6, <2>8, <2>9 DEF IInv, JobsInv, wallet
<1>7. QED
  BY <1>3, <1>5, <1>6 DEF Submit

-----------------------------------------------------------------------------
(* The server, sync and enhance. *)

LEMMA EnvironmentKeeps ==
    ASSUME IInv, Mine \/ (\E t \in Own : Expire(t)) \/ SyncTip \/ SyncScan
    PROVE  IInv'
<1> USE PaymentsAssumption, TransactionsAssumption DEF server, wallet, command, payments, expiry
<1>1. /\ pool \subseteq Tx /\ chain \subseteq Tx /\ wanted \subseteq Tx /\ Received \subseteq Tx
      /\ mined \subseteq chain /\ hasTip \in BOOLEAN
  BY DEF IInv, EnhanceInv, EnhanceTypeOK, MinedIsTrue, Tx
<1>2. CASE Mine
  <2>1. EnhanceInv'
    BY <1>1, <1>2, OthersKeep DEF Mine, IInv
  <2>2. QED
    BY <1>2, <2>1, LedgerKeeps DEF Mine, IInv, LedgerTypeOK, ServerHasCreated, Created
<1>3. CASE \E t \in Own : Expire(t)
  <2>1. EnhanceInv'
    BY <1>1, <1>3, OthersKeep DEF Expire, IInv
  <2>2. QED
    BY <1>3, <2>1, LedgerKeeps DEF Expire, IInv, LedgerTypeOK, ServerHasCreated, Created
<1>4. CASE SyncTip
  <2>1. EnhanceInv'
    BY <1>1, <1>4, OthersKeep DEF SyncTip, IInv
  <2>2. QED
    BY <1>4, <2>1, LedgerKeeps DEF SyncTip, IInv, LedgerTypeOK, ServerHasCreated, Created
<1>5. CASE SyncScan
  <2>1. EnhanceInv'
    BY <1>1, <1>5, OthersKeep DEF SyncScan, IInv
  <2>2. QED
    BY <1>5, <2>1, LedgerKeeps DEF SyncScan, IInv, LedgerTypeOK, ServerHasCreated, Created
<1>6. QED
  BY <1>2, <1>3, <1>4, <1>5

LEMMA RunEnhanceKeeps ==
    ASSUME IInv, RunEnhance
    PROVE  IInv'
<1> USE PaymentsAssumption DEF payments, expiry
<1>1. /\ BeginEnhance \/ EnhanceStep \/ FailEnhance
      /\ UNCHANGED <<tx, stored, accepted, job, late, lateSeen>>
      /\ runs' \in 0..MaxRuns
  BY DEF RunEnhance, IInv, LedgerTypeOK
<1>2. EnhanceInv'
  BY <1>1, BeginEnhanceKeeps, FetchKeeps, RecordKeeps, RecordNothingKeeps, EndPassKeeps,
     FailEnhanceKeeps DEF EnhanceStep, IInv
<1>3. known \subseteq known' /\ UNCHANGED server
  BY <1>1 DEF BeginEnhance, EnhanceStep, Fetch, Record, RecordNothing, EndPass, FailEnhance,
              StoreTransaction, wallet
<1>4. QED
  BY <1>1, <1>2, <1>3, LedgerKeeps DEF IInv, LedgerTypeOK, ServerHasCreated, Created, server

LEMMA StutterKeeps == IInv /\ UNCHANGED vars => IInv'
<1> SUFFICES ASSUME IInv, UNCHANGED vars PROVE IInv'
  OBVIOUS
<1> USE DEF vars, payments, expiry, server, wallet
<1>1. EnhanceInv'
  <2>1. /\ pool \subseteq Tx /\ chain \subseteq Tx /\ wanted \subseteq Tx
        /\ mined \subseteq chain /\ hasTip \in BOOLEAN
    BY DEF IInv, EnhanceInv, EnhanceTypeOK, MinedIsTrue
  <2>2. QED
    BY <2>1, OthersKeep DEF IInv
<1>2. QED
  BY <1>1, LedgerKeeps DEF IInv, LedgerTypeOK, ServerHasCreated, Created

LEMMA InvariantStep == IInv /\ [Next]_vars => IInv'
<1> SUFFICES ASSUME IInv, [Next]_vars PROVE IInv'
  OBVIOUS
<1>1. ASSUME NEW p \in Process, Pay(p) PROVE IInv'
  BY <1>1, ProposalsKeep, WaitingKeeps, CreateTransactionsKeeps, ExtractPcztKeeps, SubmitKeeps
     DEF Pay, Pays
<1>2. QED
  BY <1>1, RunEnhanceKeeps, EnvironmentKeeps, StutterKeeps DEF Next

LEMMA PaymentsInvariant == Spec => []IInv
<1>1. QED
  BY InitEstablishes, InvariantStep, PTL DEF Spec

-----------------------------------------------------------------------------

\* Every variable has its type, whatever the wallet holds.
THEOREM TypeCorrect == Spec => []TypeOK
<1>1. IInv => TypeOK
  BY DEF IInv, EnhanceInv, LedgerTypeOK, TypeOK, PayTx
<1>2. QED
  BY <1>1, PaymentsInvariant, PTL

\* Only a transaction that is in the chain is ever taken for mined, whatever heights
\* the server answers with.
THEOREM MinedTrue == Spec => []MinedIsTrue
<1>1. IInv => MinedIsTrue
  BY DEF IInv, EnhanceInv
<1>2. QED
  BY <1>1, PaymentsInvariant, PTL

\* When enhance ends by itself it has left no question open, whatever the graph of the
\* transactions, the order of the answers and the commands that ran beside it.
THEOREM AncestryComplete == Spec => []AncestryClosed
<1>1. IInv => AncestryClosed
  BY DEF IInv, EnhanceInv
<1>2. QED
  BY <1>1, PaymentsInvariant, PTL

\* No payment spends a note that a stored payment, which the server had, still spends:
\* for any number of processes, and whatever fails.
THEOREM NeverSpentTwice == Spec => []NoSelfConflict
<1>1. IInv => NoSelfConflict
  BY DEF IInv, JobsInv
<1>2. QED
  BY <1>1, PaymentsInvariant, PTL

\* A command that says it has paid has paid the whole proposal.
THEOREM SuccessMeansPaid == Spec => []PaidInFull
<1>1. IInv => PaidInFull
  <2> SUFFICES ASSUME IInv, NEW p \in Process, job[p].at = "ok", job[p].txs # {}
               PROVE  Cardinality(job[p].txs) = job[p].steps /\ job[p].txs \subseteq accepted
    BY DEF PaidInFull
  <2>1. PICK t \in Created : job[p].txs = {t} /\ job[p].steps = 1
    BY DEF IInv, JobsInv, OneTransaction
  <2>2. Cardinality({t}) = 1
    BY FS_Singleton
  <2>3. QED
    BY <2>1, <2>2 DEF IInv, JobsInv, OneTransaction
<1>2. QED
  BY <1>1, PaymentsInvariant, PTL

=============================================================================
