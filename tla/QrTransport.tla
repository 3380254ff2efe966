------------------------------ MODULE QrTransport ------------------------------
(***************************************************************************)
(* `pczt to-qr`, `keystone enroll` and `pczt from-qr`                      *)
(* (src/commands/pczt/qr.rs, src/commands/keystone.rs): one device shows a *)
(* message as a sequence of QR codes, over and over; another looks at the  *)
(* screen with a camera until it has enough of them.                       *)
(*                                                                         *)
(* The parts come from a fountain code (the ur library): first the         *)
(* fragments one by one, then mixtures of any of them.  The camera may     *)
(* miss any part, or misread it; the user may put another message on the   *)
(* screen, or stop either side.                                            *)
(***************************************************************************)
EXTENDS Integers, FiniteSets, Sequences

CONSTANTS
    Pczt,       \* transactions to carry over
    Accounts,   \* what `keystone enroll` shows
    Fragment,   \* the fragments of a message
    NoMessage,
    MaxShows    \* bound: messages put on the screen

ASSUME QrAssumption ==
    /\ IsFiniteSet(Fragment) /\ Fragment # {} /\ MaxShows \in Nat
    /\ Pczt \cap Accounts = {} /\ NoMessage \notin Pczt \cup Accounts

VARIABLES
    sending,   \* the message being shown, if any
    plain,     \* the fragments not yet shown on their own
    screen,    \* the part on the screen: the fragments mixed in it, and of what
    scanner,   \* "off", "looking", "done", "garbled", "stopped" or "failed"
    decoding,  \* the message whose parts the decoder takes
    solved,    \* its fragments, each with the messages it was worked out from
    pending,   \* the mixtures it cannot solve yet, and the messages they are made of
    output,    \* what from-qr wrote: fragments, and of which messages
    shows

qrVars == <<sending, plain, screen, scanner, decoding, solved, pending, output, shows>>

Message == Pczt \cup Accounts
Part == [message : Message, of : (SUBSET Fragment) \ {{}}]
NoPart == [message |-> NoMessage, of |-> {}]

\* What a message is made of, when each fragment is its own.
Intact(m) == Fragment \X {m}

\* A message is a CBOR map; the value under DATA is the transaction.
DATA == 1
Encode(m) == <<[key |-> DATA, value |-> m]>>

\* cbor_map: it calls back for every entry, of a map of known length.
Entries(packet) == 1..Len(packet)

\* The value under DATA, if there is one.
Decode(packet) == {packet[n].value : n \in {k \in Entries(packet) : packet[k].key = DATA}}

-----------------------------------------------------------------------------
(* The fountain decoder (external).  The fragments of a mixture are added bit by bit, *)
(* and subtracted again: what comes of it is of all the messages that went into it.   *)

Known(have) == {p[1] : p \in have}
Sources(have, F) == {p[2] : p \in {q \in have : q[1] \in F}}
Mixture(part) == [of |-> part.of, from |-> {part.message}]

\* A mixture without the fragments that are known.
Reduced(have, x) == [of |-> x.of \ Known(have), from |-> x.from \cup Sources(have, x.of)]

\* A mixture of which all but one fragment is known gives that one.
Given(have, mixed) ==
    UNION {x.of \X x.from :
           x \in {y \in {Reduced(have, z) : z \in mixed} : Cardinality(y.of) = 1}}

\* What there is once mixtures are given.
Solve(have, mixed) ==
    LET round[n \in 0..Cardinality(Fragment)] ==
            IF n = 0 THEN have
            ELSE LET before == round[n - 1] IN before \cup Given(before, mixed)
    IN round[Cardinality(Fragment)]

Unsolved(have, mixed) == {x \in {Reduced(have, y) : y \in mixed} : x.of # {}}

\* Mutant: the checksum that comes with a part is not compared.
ConsistentAlways(part) == TRUE

\* A part of another message than the one begun is an InconsistentPart.
Consistent(part) == decoding \in {NoMessage, part.message}

\* What the decoder has after it took a part.
Learnt(part) == Solve(solved, pending \cup {Mixture(part)})

Complete == Known(solved) = Fragment

-----------------------------------------------------------------------------
(* to-qr and keystone enroll *)

BeginShow(m) ==
    /\ sending = NoMessage /\ shows < MaxShows
    /\ sending' = m /\ plain' = Fragment /\ shows' = shows + 1
    /\ UNCHANGED <<screen, scanner, decoding, solved, pending, output>>

ToQr == \E m \in Pczt : BeginShow(m)
Enroll == \E m \in Accounts : BeginShow(m)

\* A tick, no shutdown requested, encoder.next_part().
NextPart ==
    /\ sending # NoMessage
    /\ \E F \in IF plain # {} THEN {{f} : f \in plain} ELSE (SUBSET Fragment) \ {{}} :
        /\ screen' = [message |-> sending, of |-> F]
        /\ plain' = plain \ F
    /\ UNCHANGED <<sending, scanner, decoding, solved, pending, output, shows>>

\* Ctrl-C, or the end of the TUI.  The last code stays on a terminal.
StopShow ==
    /\ sending # NoMessage /\ sending' = NoMessage /\ plain' = {}
    /\ screen' \in {screen, NoPart}
    /\ UNCHANGED <<scanner, decoding, solved, pending, output, shows>>

-----------------------------------------------------------------------------
(* from-qr *)

BeginScan ==
    /\ scanner = "off" /\ scanner' = "looking"
    /\ UNCHANGED <<sending, plain, screen, decoding, solved, pending, output, shows>>

\* Mutant: the content is compared as it is read, in capitals.
AcceptedAsRead(part) == FALSE

\* content.starts_with(UR_ZCASH_PCZT)
Accepted(part) == part.message \in Pczt

\* A frame in which a code is found and read.  A frame without one, or an error, is
\* only logged: nothing changes.
Look ==
    /\ scanner = "looking" /\ ~Complete
    /\ Accepted(screen) /\ Consistent(screen)
    /\ decoding' = screen.message /\ solved' = Learnt(screen)
    /\ pending' = Unsolved(solved', pending \cup {Mixture(screen)})
    /\ UNCHANGED <<sending, plain, screen, scanner, output, shows>>

\* Pczt::parse reads a transaction.  Of fragments that are no transaction it may make
\* something too: the decoder does not look at them again.
Parsed(data) ==
    {read \in SUBSET data : \A d \in data : (\E m \in Pczt : d = Intact(m)) => d \in read}

Finish ==
    /\ scanner = "looking" /\ Complete
    /\ output' \in Parsed(Decode(Encode(solved)))
    /\ scanner' = IF output' = {} THEN "garbled" ELSE "done"
    /\ UNCHANGED <<sending, plain, screen, decoding, solved, pending, shows>>

\* Ctrl-C, or an error of the camera, which is stopped after the last part too.
StopScan ==
    /\ scanner = "looking"
    /\ scanner' = "failed" \/ (~Complete /\ scanner' = "stopped")
    /\ UNCHANGED <<sending, plain, screen, decoding, solved, pending, output, shows>>

QrStep ==
    \/ ToQr \/ Enroll
    \/ NextPart \/ StopShow \/ BeginScan \/ Look \/ Finish \/ StopScan

InitQr ==
    /\ sending = NoMessage /\ plain = {} /\ screen = NoPart /\ scanner = "off"
    /\ decoding = NoMessage /\ solved = {} /\ pending = {} /\ output = {} /\ shows = 0

\* A part that would tell the decoder something comes up now and then, and is read now
\* and then; the loops go on until they are stopped.
Helps(part) == Accepted(part) /\ Consistent(part) /\ Learnt(part) # solved
QrFairness ==
    /\ WF_qrVars(NextPart) /\ SF_qrVars(NextPart /\ Helps(screen'))
    /\ SF_qrVars(Look /\ solved' # solved)
    /\ WF_qrVars(Finish)

-----------------------------------------------------------------------------
QrTypeOK ==
    /\ sending \in Message \cup {NoMessage} /\ plain \subseteq Fragment
    /\ screen \in Part \cup {NoPart}
    /\ scanner \in {"off", "looking", "done", "garbled", "stopped", "failed"}
    /\ decoding \in Message \cup {NoMessage}
    /\ solved \subseteq Fragment \X Message
    /\ pending \subseteq [of : SUBSET Fragment, from : SUBSET Message]
    /\ output \subseteq SUBSET (Fragment \X Message) /\ shows \in 0..MaxShows

\* What from-qr writes is one transaction, every fragment of it worked out from parts of
\* that one alone, however they came, and whatever other messages were on the screen
\* before, between or after them; and what the decoder completes can always be read.
DeliversWhatWasShown ==
    /\ scanner = "done" => \E m \in Pczt : output = {Intact(m)}
    /\ scanner # "garbled"

\* While a transaction is shown a scan ends, unless it is stopped, or had begun with a
\* code of another transaction, as one that was left on the screen: the decoder does
\* not start again.  A code of another kind that it sees does not put it off.
Arrives ==
    \A m \in Pczt :
        sending = m /\ scanner = "looking"
            ~> scanner # "looking" \/ sending # m \/ decoding \in Pczt \ {m}
=============================================================================
