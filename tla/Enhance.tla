-------------------------------- MODULE Enhance --------------------------------
(***************************************************************************)
(* `wallet enhance` (src/commands/wallet/enhance.rs): the wallet database  *)
(* lists what it wants to know about transactions; the command asks the    *)
(* server for each entry, records the answer, which may add entries, and   *)
(* goes on until the list has nothing it has not asked.                    *)
(*                                                                         *)
(* The list and what recording changes in it are the database's            *)
(* (external), as is the server.  Other commands may change the wallet and *)
(* the server at any time: every request awaits its answer.                *)
(***************************************************************************)
EXTENDS Integers, FiniteSets

CONSTANTS
    Own,        \* transactions the wallet may create
    Foreign,    \* transactions of others
    parents,    \* [Foreign -> SUBSET Foreign]: those a transaction spends outputs of
    Address,    \* the wallet's transparent addresses
    involving,  \* [Address -> SUBSET Foreign]
    MaxHeight,  \* the greatest height of a block
    NoRequest

Tx == Own \cup Foreign

ASSUME TransactionsAssumption ==
    /\ Own \cap Foreign = {}
    /\ parents \in [Foreign -> SUBSET Foreign]
    /\ involving \in [Address -> SUBSET Foreign]
    /\ MaxHeight \in Nat \ {0}

VARIABLES
    pool,       \* the server's unmined transactions
    chain,      \* the server's mined transactions
    known,      \* the transactions the wallet has
    wanted,     \* those it knows the id of only
    strange,    \* ids the server did not recognise
    mined,      \* those the wallet takes for mined
    hasTip,     \* whether the wallet was ever told a chain height
    loop,       \* "off", "running", "done" or "failed": the command
    left,       \* the requests that are left in this pass over the list
    satisfied,  \* satisfied_requests
    fresh,      \* new_request_encountered
    asked,      \* the request being answered
    answer      \* what came for it: transactions with their heights

server == <<pool, chain>>
wallet == <<known, wanted, strange, mined>>
command == <<loop, left, satisfied, fresh, asked, answer>>

Request ==
    [kind : {"GetStatus", "Enhancement"}, of : Tx]
    \cup [kind : {"TransactionsInvolvingAddress"}, of : Address]
RawTransaction == Tx \X (0..MaxHeight + 1)

\* transaction_data_requests.
Requests ==
    [kind : {"GetStatus"}, of : known \ mined]
    \cup [kind : {"Enhancement"}, of : wanted]
    \cup [kind : {"TransactionsInvolvingAddress"}, of : Address]

\* What the server says: a height of 0, or one that no block can have, for a
\* transaction that is not in the chain.
RawHeights(t) == IF t \in chain THEN {1} ELSE {0, MaxHeight + 1}

\* Mutant: height 0 is taken for a block's.
MinedHeightFromZero(h) == h \in 0..MaxHeight

\* parse_raw_transaction: whether the height is that of a block.
MinedHeight(h) == h \in 1..MaxHeight

-----------------------------------------------------------------------------
BeginEnhance ==
    /\ loop # "running" /\ hasTip
    /\ loop' = "running" /\ left' = Requests
    /\ satisfied' = {} /\ fresh' = FALSE /\ asked' = NoRequest /\ answer' = {}
    /\ UNCHANGED <<server, wallet, hasTip>>

\* Mutant: only the entry asked last is remembered.
RememberLast(r) == {r}

\* satisfied_requests.insert
Remember(r) == satisfied \cup {r}

\* fetch_transaction, and the stream of get_taddress_txids.
Fetch ==
    /\ loop = "running" /\ asked = NoRequest
    /\ \E r \in left \ satisfied :
        /\ asked' = r /\ left' = left \ {r} /\ fresh' = TRUE
        /\ LET txs == IF r.kind = "TransactionsInvolvingAddress"
                      THEN involving[r.of] \cap chain
                      ELSE {r.of} \cap (pool \cup chain)
           IN \E heights \in [txs -> {0, 1, MaxHeight + 1}] :
                /\ \A t \in txs : heights[t] \in RawHeights(t)
                /\ answer' = {<<t, heights[t]>> : t \in txs}
    /\ UNCHANGED <<server, wallet, hasTip, loop, satisfied>>

Told(t, h) == mined' = IF MinedHeight(h) THEN mined \cup {t} ELSE mined

\* decrypt_and_store_transaction: the wallet has t, and wants its ancestors.
StoreTransaction(t, h) ==
    /\ known' = known \cup {t}
    /\ wanted' = (wanted \ {t}) \cup
                 (IF t \in Foreign THEN parents[t] \ known' ELSE {})
    /\ strange' = strange \ {t}
    /\ Told(t, h)

\* One transaction of the answer is recorded.
Record ==
    /\ loop = "running" /\ asked # NoRequest
    /\ \E raw \in answer :
        /\ answer' = answer \ {raw}
        /\ IF asked.kind = "GetStatus"
           THEN Told(raw[1], raw[2]) /\ UNCHANGED <<known, wanted, strange>>
           ELSE StoreTransaction(raw[1], raw[2])
        /\ IF answer' = {} THEN satisfied' = Remember(asked) /\ asked' = NoRequest
                           ELSE UNCHANGED <<satisfied, asked>>
    /\ UNCHANGED <<server, hasTip, loop, left, fresh>>

\* The server has nothing: the id is not recognised, or the address not used.
RecordNothing ==
    /\ loop = "running" /\ asked # NoRequest /\ answer = {}
    /\ IF asked.kind = "Enhancement"
       THEN wanted' = wanted \ {asked.of} /\ strange' = strange \cup {asked.of}
       ELSE UNCHANGED <<wanted, strange>>
    /\ satisfied' = Remember(asked) /\ asked' = NoRequest
    /\ UNCHANGED <<server, known, mined, hasTip, loop, left, fresh, answer>>

\* Mutant: one pass over the list is all.
PassEndsAlways == TRUE

\* !new_request_encountered
PassEndsLoop == ~fresh

EndPass ==
    /\ loop = "running" /\ asked = NoRequest /\ left \subseteq satisfied
    /\ IF PassEndsLoop THEN loop' = "done" /\ left' = {} /\ fresh' = FALSE
                       ELSE left' = Requests /\ fresh' = FALSE /\ UNCHANGED loop
    /\ UNCHANGED <<server, wallet, hasTip, satisfied, asked, answer>>

\* A request that fails otherwise than with NotFound, or a crash.
FailEnhance ==
    /\ loop = "running" /\ loop' = "failed"
    /\ left' = {} /\ fresh' = FALSE /\ asked' = NoRequest /\ answer' = {}
    /\ UNCHANGED <<server, wallet, hasTip, satisfied>>

EnhanceStep == Fetch \/ Record \/ RecordNothing \/ EndPass

-----------------------------------------------------------------------------
InitEnhance ==
    /\ chain \in SUBSET Foreign /\ pool \in SUBSET (Foreign \ chain)
    /\ known \in SUBSET Own /\ wanted = {} /\ strange = {} /\ mined = {} /\ hasTip = FALSE
    /\ loop = "off" /\ left = {} /\ satisfied = {} /\ fresh = FALSE
    /\ asked = NoRequest /\ answer = {}

EnhanceTypeOK ==
    /\ pool \subseteq Tx /\ chain \subseteq Tx
    /\ known \subseteq Tx /\ wanted \subseteq Tx
    /\ strange \subseteq Tx /\ mined \subseteq Tx
    /\ hasTip \in BOOLEAN /\ fresh \in BOOLEAN
    /\ loop \in {"off", "running", "done", "failed"}
    /\ left \subseteq Request /\ satisfied \subseteq Request
    /\ asked \in Request \cup {NoRequest} /\ answer \subseteq RawTransaction

\* When enhance ends by itself no question is left open: every transaction the
\* wallet got from others has its ancestors in the wallet too, except those the
\* server did not know, whatever order the answers came in.
AncestryClosed ==
    loop = "done" =>
        \A t \in known \cap Foreign : parents[t] \subseteq known \cup strange

\* The wallet takes a transaction for mined only if it is: an unmined one must not
\* be, or its notes would stay spent when it expires.
MinedIsTrue == mined \subseteq chain

\* enhance ends, though each answer may add to the list it works through and a
\* transaction that stays unmined stays on it.
EnhanceEnds == loop = "running" ~> loop # "running"
=============================================================================
