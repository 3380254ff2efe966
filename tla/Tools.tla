--------------------------------- MODULE Tools ---------------------------------
(***************************************************************************)
(* One run of the program (src/main.rs): it runs the one command that is   *)
(* on its command line, to its end.  The commands here need no server, but *)
(* for what sync shows of itself, and share no state; what else happens to *)
(* the wallet's tree or on a screen is in their modules.                   *)
(***************************************************************************)
EXTENDS TreeWalk, QrTransport, PcztRedact, PcztOutputs, Defrag

VARIABLE command

vars == <<command, treeVars, qrVars, redactVars, payVars, defragVars>>

Command ==
    {"tree explore", "pczt from-qr", "pczt redact", "pczt pay-manual", "sync --defrag"}

Init ==
    /\ command \in Command
    /\ IF command = "tree explore" THEN InitTree ELSE IdleTree
    /\ InitQr
    /\ IF command = "pczt redact" THEN InitRedact ELSE IdleRedact
    /\ IF command = "pczt pay-manual" THEN InitPay ELSE IdlePay
    /\ IF command = "sync --defrag" THEN InitDefrag ELSE IdleDefrag

\* The match on opts.command.
Next ==
    /\ UNCHANGED command
    /\ \/ /\ command = "tree explore" /\ TreeStep
          /\ UNCHANGED <<qrVars, redactVars, payVars, defragVars>>
       \/ /\ command = "pczt from-qr" /\ QrStep
          /\ UNCHANGED <<treeVars, redactVars, payVars, defragVars>>
       \/ /\ command = "pczt redact" /\ RedactStep
          /\ UNCHANGED <<treeVars, qrVars, payVars, defragVars>>
       \/ /\ command = "pczt pay-manual" /\ PayStep
          /\ UNCHANGED <<treeVars, qrVars, redactVars, defragVars>>
       \/ /\ command = "sync --defrag" /\ DefragStep
          /\ UNCHANGED <<treeVars, qrVars, redactVars, payVars>>

Spec == Init /\ [][Next]_vars
FairSpec == Spec /\ (command = "pczt from-qr" => QrFairness)

TypeOK ==
    /\ command \in Command
    /\ TreeTypeOK /\ QrTypeOK /\ RedactTypeOK
    /\ DefragTypeOK
    /\ tagged \in 0..Len(recipients) /\ maker \in {"ready", "tagging", "written", "failed"}
=============================================================================
