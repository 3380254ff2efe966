------------------------------ MODULE MCPayments ------------------------------
(* One transaction pays the wallet and spends an output of another, which also   *)
(* involves the wallet's address.                                               *)
EXTENDS Payments

CONSTANTS In, Before, Second

MCOwn == 1..MaxTx
MCForeign == {In, Before}
MCParents == [t \in Foreign |-> IF t = In THEN {Before} ELSE {}]
MCInvolving == [a \in Address |-> {In}]
MCReceived == {In}

\* Either two processes pay, or one pays while another enhances: then it starts with
\* an old payment, and one of the transactions of others may be unmined or unknown.
MCInit ==
    /\ Init
    /\ \/ /\ runs = MaxRuns /\ tx = << >> /\ pool \cup chain = {}
          /\ \A p \in Process : job[p] = Idle
       \/ /\ runs = 0 /\ tx # << >> /\ In \in pool \cup chain /\ Before \notin pool
          /\ \A p \in Process : job[p] = IF p = Second THEN Closed ELSE Idle

MCSpec == MCInit /\ [][Next]_vars /\ Fairness
=============================================================================
