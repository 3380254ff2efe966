------------------------------- MODULE ToolsProofs -------------------------------
(***************************************************************************)
(* Proofs about the commands that need no server (Tools): the QR transport *)
(* (QrTransport), the outputs of pay-manual (PcztOutputs) and redaction    *)
(* (PcztRedact), each with its inductive invariant; and, with those of     *)
(* ScreenProofs, the theorems about a run of any of the commands.          *)
(***************************************************************************)
EXTENDS Tools, ScreenProofs, SequenceTheorems

-----------------------------------------------------------------------------
(* The QR transport. *)

\* What is given by mixtures of some messages is fragments of those.
LEMMA GivenType ==
    ASSUME NEW T, NEW have \in SUBSET (Fragment \X T),
           NEW mixed \in SUBSET [of : SUBSET Fragment, from : SUBSET T]
    PROVE  /\ \A x \in mixed : Reduced(have, x) \in [of : SUBSET Fragment, from : SUBSET T]
           /\ Given(have, mixed) \in SUBSET (Fragment \X T)
<1> DEFINE R == {Reduced(have, z) : z \in mixed}
<1>1. \A x \in mixed : Reduced(have, x) \in [of : SUBSET Fragment, from : SUBSET T]
  <2> TAKE x \in mixed
  <2>1. x.of \subseteq Fragment /\ x.from \subseteq T
    OBVIOUS
  <2>2. Sources(have, x.of) \subseteq T
    BY DEF Sources
  <2>3. QED
    BY <2>1, <2>2 DEF Reduced
<1>2. \A y \in R : y.of \subseteq Fragment /\ y.from \subseteq T
  BY <1>1
<1>3. Given(have, mixed) = UNION {y.of \X y.from : y \in {z \in R : Cardinality(z.of) = 1}}
  BY DEF Given
<1> HIDE DEF R
<1>4. QED
  BY <1>1, <1>2, <1>3

\* What is solved from mixtures of some messages is fragments of those.
LEMMA SolveType ==
    ASSUME NEW T, NEW have \in SUBSET (Fragment \X T),
           NEW mixed \in SUBSET [of : SUBSET Fragment, from : SUBSET T]
    PROVE  Solve(have, mixed) \in SUBSET (Fragment \X T)
<1> DEFINE N == Cardinality(Fragment)
           S == SUBSET (Fragment \X T)
           more(k) == k \cup Given(k, mixed)
           step == [n \in 1..N |-> [k \in S |-> more(k)]]
           body(g) == [n \in 0..N |-> IF n = 0 THEN have ELSE more(g[n - 1])]
           round == CHOOSE g : g = body(g)
<1>1. N \in Nat
  BY QrAssumption, FS_CardinalityType
<1>2. \A k \in S : more(k) \in S
  BY GivenType
<1>3. step \in [1..N -> [S -> S]]
  BY <1>2
<1>4. PICK g \in [0..N -> S] : Recursion(g, N, have, step)
  <2> HIDE DEF N, step
  <2>1. QED
    BY <1>1, <1>3, RecursionExists
<1>5. ASSUME NEW n \in 1..N PROVE g[n] = more(g[n - 1])
  <2>1. n - 1 \in 0..N
    BY <1>1
  <2>2. g[n - 1] \in S
    BY <1>4, <2>1
  <2>3. step[n][g[n - 1]] = more(g[n - 1])
    BY <2>2
  <2> HIDE DEF more, step
  <2>4. QED
    BY <1>4, <2>3 DEF Recursion
<1>6. g = body(g)
  <2> HIDE DEF more, N
  <2>1. QED
    BY <1>1, <1>4, <1>5 DEF Recursion
<1>7. round = body(round)
  <2> HIDE DEF body
  <2>1. QED
    BY <1>6
<1>8. Solve(have, mixed) = round[N]
  BY DEF Solve
<1> HIDE DEF round, more, N
<1>9. round[0] = have /\ \A n \in 1..N : round[n] = more(round[n - 1])
  BY <1>1, <1>7
<1>10. Obeys(round, N, S, have, step)
  BY <1>1, <1>3, <1>9 DEF Obeys
<1>11. \A n \in 0..N : round[n] \in S
  BY <1>10, RecursionValues
<1>12. QED
  BY <1>1, <1>8, <1>11

LEMMA UnsolvedType ==
    ASSUME NEW T, NEW have \in SUBSET (Fragment \X T),
           NEW mixed \in SUBSET [of : SUBSET Fragment, from : SUBSET T]
    PROVE  Unsolved(have, mixed) \subseteq [of : SUBSET Fragment, from : SUBSET T]
<1> DEFINE S == [of : SUBSET Fragment, from : SUBSET T]
           R == {Reduced(have, y) : y \in mixed}
<1>1. \A y \in mixed : Reduced(have, y) \in S
  BY GivenType
<1>2. R \subseteq S
  BY <1>1
<1>3. Unsolved(have, mixed) = {x \in R : x.of # {}}
  BY DEF Unsolved
<1> HIDE DEF R, S
<1>4. Unsolved(have, mixed) \subseteq S
  BY <1>2, <1>3
<1>5. QED
  BY <1>4 DEF S

\* A message is read as it was written.
LEMMA DecodeEncode == ASSUME NEW m PROVE Decode(Encode(m)) = {m}
<1> DEFINE packet == Encode(m)
<1>1. packet = <<[key |-> DATA, value |-> m]>>
  BY DEF Encode
<1>2. Len(packet) = 1 /\ packet[1].key = DATA /\ packet[1].value = m
  BY <1>1
<1> HIDE DEF packet
<1>3. {k \in Entries(packet) : packet[k].key = DATA} = {1}
  BY <1>2 DEF Entries
<1>4. Decode(packet) = {packet[n].value : n \in {1}}
  BY <1>3 DEF Decode
<1>5. QED
  BY <1>2, <1>4 DEF packet

\* The messages that what the decoder has may be of.
Begun == {decoding} \cap Pczt

\* The decoder began with a transaction, if at all, and everything it has is of that one,
\* what it knows and what it cannot solve yet.
QrInv ==
    /\ QrTypeOK
    /\ decoding \in Pczt \cup {NoMessage}
    /\ solved \subseteq Fragment \X Begun
    /\ pending \subseteq [of : SUBSET Fragment, from : SUBSET Begun]
    /\ DeliversWhatWasShown

\* Complete fragments of one transaction are all of it.
LEMMA CompleteIsIntact ==
    ASSUME QrInv, Complete
    PROVE  decoding \in Pczt /\ solved = Intact(decoding)
<1>1. PICK f \in Fragment : TRUE
  BY QrAssumption
<1>2. \A g \in Fragment : \E p \in solved : p[1] = g
  BY DEF Complete, Known
<1>3. \A p \in solved : p = <<p[1], decoding>> /\ p[1] \in Fragment /\ decoding \in Pczt
  BY DEF QrInv, Begun
<1>4. \A g \in Fragment : <<g, decoding>> \in solved
  BY <1>2, <1>3
<1>5. QED
  BY <1>1, <1>2, <1>3, <1>4 DEF Intact

LEMMA InitQrInv == InitQr => QrInv
BY QrAssumption DEF InitQr, QrInv, QrTypeOK, DeliversWhatWasShown, NoPart, Begun

LEMMA QrStepInv ==
    ASSUME QrInv, [QrStep]_qrVars PROVE QrInv'
<1> USE QrAssumption DEF QrInv, DeliversWhatWasShown
<1>1. CASE UNCHANGED qrVars
  BY <1>1 DEF qrVars, QrTypeOK, Begun
<1>2. ASSUME NEW m \in Message, BeginShow(m) PROVE QrInv'
  BY <1>2 DEF BeginShow, QrTypeOK, Begun
<1>3. CASE NextPart
  <2>1. PICK F \in (SUBSET Fragment) \ {{}} :
            screen' = [message |-> sending, of |-> F] /\ plain' = plain \ F
    BY <1>3 DEF NextPart, QrTypeOK
  <2>2. screen' \in Part /\ plain' \subseteq Fragment
    BY <1>3, <2>1 DEF NextPart, QrTypeOK, Part
  <2>3. QED
    BY <1>3, <2>2 DEF NextPart, QrTypeOK, Begun
<1>4. CASE StopShow
  BY <1>4 DEF StopShow, QrTypeOK, Begun
<1>5. CASE BeginScan
  BY <1>5 DEF BeginScan, QrTypeOK, Begun
<1>6. CASE Look
  <2>1. screen.message \in Pczt /\ screen \in Part /\ decoding \in {NoMessage, screen.message}
    BY <1>6 DEF Look, Accepted, Consistent, QrTypeOK, NoPart
  <2>2. decoding' = screen.message /\ Begun' = {screen.message} /\ Begun \subseteq Begun'
    BY <1>6, <2>1 DEF Look, Begun
  <2> DEFINE T == Begun'
             mixed == pending \cup {Mixture(screen)}
  <2>3. Mixture(screen) \in [of : SUBSET Fragment, from : SUBSET T]
    BY <2>1, <2>2 DEF Mixture, Part
  <2>4. pending \subseteq [of : SUBSET Fragment, from : SUBSET T]
    BY <2>2
  <2>5. solved \in SUBSET (Fragment \X T) /\ mixed \in SUBSET [of : SUBSET Fragment, from : SUBSET T]
    BY <2>2, <2>3, <2>4
  <2>6. solved' = Solve(solved, mixed) /\ pending' = Unsolved(solved', mixed)
    BY <1>6 DEF Look, Learnt
  <2>7. T \subseteq Message
    BY <2>1, <2>2 DEF Message
  <2>8. UNCHANGED <<sending, plain, screen, scanner, output, shows>> /\ scanner = "looking"
    BY <1>6 DEF Look
  <2> HIDE DEF T, mixed
  <2>9. solved' \in SUBSET (Fragment \X T)
    BY <2>5, <2>6, SolveType
  <2>10. pending' \subseteq [of : SUBSET Fragment, from : SUBSET T]
    BY <2>5, <2>6, <2>9, UnsolvedType
  <2>11. QrTypeOK'
    <3>1. solved' \subseteq Fragment \X Message
      BY <2>7, <2>9
    <3>2. pending' \subseteq [of : SUBSET Fragment, from : SUBSET Message]
      BY <2>7, <2>10
    <3>3. decoding' \in Message \cup {NoMessage}
      BY <2>1, <2>2 DEF Message
    <3>4. QED
      BY <2>8, <3>1, <3>2, <3>3 DEF QrTypeOK
  <2>12. QED
    BY <2>1, <2>2, <2>8, <2>9, <2>10, <2>11 DEF T
<1>7. CASE Finish
  <2>1. decoding \in Pczt /\ solved = Intact(decoding)
    BY <1>7, CompleteIsIntact DEF Finish
  <2>2. Decode(Encode(solved)) = {solved}
    BY DecodeEncode
  <2>3. output' \subseteq {solved} /\ solved \in output'
    BY <1>7, <2>1, <2>2 DEF Finish, Parsed
  <2>4. output' = {Intact(decoding)} /\ scanner' = "done"
    BY <1>7, <2>1, <2>3 DEF Finish
  <2>5. UNCHANGED <<sending, plain, screen, decoding, solved, pending, shows>>
    BY <1>7 DEF Finish
  <2>6. output' \subseteq SUBSET (Fragment \X Message)
    BY <2>1, <2>4 DEF QrTypeOK
  <2>7. QED
    BY <2>1, <2>4, <2>5, <2>6 DEF QrTypeOK, Begun
<1>8. CASE StopScan
  BY <1>8 DEF StopScan, QrTypeOK, Begun
<1>9. QED
  BY <1>1, <1>2, <1>3, <1>4, <1>5, <1>6, <1>7, <1>8 DEF QrStep, ToQr, Enroll, Message

-----------------------------------------------------------------------------
(* The outputs. *)

\* A list that a pool's outputs are appended to.
Appended(list, as, p) ==
    /\ \A n \in 0..Len(as) : list[n] \in Seq(Nat)
    /\ list[0] = << >>
    /\ \A n \in 1..Len(as) :
          list[n] = IF PoolOf(as[n]) = p THEN Append(list[n - 1], n) ELSE list[n - 1]

LEMMA BuiltInDef ==
    ASSUME NEW as, Len(as) \in Nat, NEW p
    PROVE  \E list : Appended(list, as, p) /\ BuiltIn(as, p) = list[Len(as)]
<1> DEFINE N == Len(as)
           S == Seq(Nat)
           more(n, l) == IF PoolOf(as[n]) = p THEN Append(l, n) ELSE l
           step == [n \in 1..N |-> [l \in S |-> more(n, l)]]
           body(g) == [n \in 0..N |-> IF n = 0 THEN << >> ELSE more(n, g[n - 1])]
<1>1. N \in Nat
  OBVIOUS
<1>2. << >> \in S /\ \A n \in 1..N : \A l \in S : more(n, l) \in S
  <2>1. \A n \in Nat : \A l \in S : Append(l, n) \in S
    OBVIOUS
  <2>2. \A n \in 1..N : n \in Nat
    BY <1>1
  <2> HIDE DEF N
  <2>3. << >> \in S
    OBVIOUS
  <2> HIDE DEF S
  <2>4. QED
    BY <2>1, <2>2, <2>3
<1> HIDE DEF N, S, more
<1>3. step \in [1..N -> [S -> S]]
  BY <1>2
<1>4. PICK g \in [0..N -> S] : Recursion(g, N, << >>, step)
  <2> HIDE DEF step
  <2>1. QED
    BY <1>1, <1>2, <1>3, RecursionExists
<1>5. ASSUME NEW n \in 1..N PROVE g[n] = more(n, g[n - 1])
  <2>1. n - 1 \in 0..N
    BY <1>1
  <2>2. step[n][g[n - 1]] = more(n, g[n - 1])
    BY <1>4, <2>1
  <2>3. QED
    BY <1>4, <2>2 DEF Recursion
<1>6. g = body(g)
  BY <1>1, <1>4, <1>5 DEF Recursion
<1> DEFINE list == CHOOSE h : h = body(h)
<1>7. list = body(list)
  <2> HIDE DEF body
  <2>1. QED
    BY <1>6
<1>8. BuiltIn(as, p) = list[N]
  BY DEF BuiltIn, more, N
<1> HIDE DEF list
<1>9. list[0] = << >> /\ \A n \in 1..N : list[n] = more(n, list[n - 1])
  BY <1>1, <1>7
<1>10. Obeys(list, N, S, << >>, step)
  BY <1>1, <1>2, <1>3, <1>9 DEF Obeys
<1>11. \A n \in 0..N : list[n] \in S
  BY <1>10, RecursionValues
<1>12. QED
  <2>1. Appended(list, as, p)
    BY <1>9, <1>11 DEF Appended, N, S, more
  <2>2. QED
    BY <1>8, <2>1 DEF N

\* The command's counts, one address at a time.
LEMMA CountsDef ==
    ASSUME NEW as, Len(as) \in Nat
    PROVE  /\ \A n \in 0..Len(as) : \A q \in DOMAIN Counts(as)[n] : Counts(as)[n][q] \in Nat
           /\ DOMAIN Counts(as)[0] = {}
           /\ \A n \in 1..Len(as) :
                 /\ DOMAIN Counts(as)[n] = DOMAIN Counts(as)[n - 1] \cup {PoolOf(as[n])}
                 /\ \A q \in DOMAIN Counts(as)[n - 1] :
                       Counts(as)[n][q] = IF q = PoolOf(as[n]) THEN Counts(as)[n - 1][q] + 1
                                          ELSE Counts(as)[n - 1][q]
                 /\ PoolOf(as[n]) \notin DOMAIN Counts(as)[n - 1] =>
                       Counts(as)[n][PoolOf(as[n])] = 0
<1> DEFINE N == Len(as)
           P == {PoolOf(as[n]) : n \in 1..N}
           S == UNION {[D -> Nat] : D \in SUBSET P}
           next(p, k) == [q \in DOMAIN k \cup {p} |->
                            IF q = p THEN CountOne(IF p \in DOMAIN k THEN k[p] ELSE 0, p \in DOMAIN k)
                            ELSE k[q]]
           none == [p \in {} |-> 0]
           step == [n \in 1..N |-> [k \in S |-> next(PoolOf(as[n]), k)]]
           body(g) == [n \in 0..N |-> IF n = 0 THEN none ELSE next(PoolOf(as[n]), g[n - 1])]
<1>1. N \in Nat
  OBVIOUS
<1>2. none \in S
  <2>1. none \in [{} -> Nat] /\ {} \in SUBSET P
    OBVIOUS
  <2> HIDE DEF P, none
  <2>2. QED
    BY <2>1
<1>3. ASSUME NEW p \in P, NEW k \in S
      PROVE  /\ next(p, k) \in S /\ DOMAIN next(p, k) = DOMAIN k \cup {p}
             /\ \A q \in DOMAIN k : next(p, k)[q] = IF q = p THEN k[q] + 1 ELSE k[q]
             /\ p \notin DOMAIN k => next(p, k)[p] = 0
             /\ \A q \in DOMAIN k : k[q] \in Nat
  <2>1. PICK D \in SUBSET P : k \in [D -> Nat]
    BY <1>3
  <2> HIDE DEF P
  <2>2. DOMAIN k = D /\ \A q \in D : k[q] \in Nat
    BY <2>1
  <2>3. DOMAIN next(p, k) = D \cup {p}
    BY <2>2
  <2>4. \A q \in D : next(p, k)[q] = IF q = p THEN k[q] + 1 ELSE k[q]
    BY <2>2 DEF CountOne
  <2>5. p \notin D => next(p, k)[p] = 0
    BY <2>2 DEF CountOne
  <2>6. next(p, k) = [q \in D \cup {p} |-> next(p, k)[q]]
    BY <2>2
  <2> HIDE DEF next
  <2>7. \A q \in D \cup {p} : next(p, k)[q] \in Nat
    BY <2>2, <2>4, <2>5
  <2>8. next(p, k) \in [D \cup {p} -> Nat]
    BY <2>6, <2>7
  <2>9. D \cup {p} \in SUBSET P
    BY <1>3
  <2>10. next(p, k) \in S
    BY <2>8, <2>9
  <2>11. QED
    BY <2>2, <2>3, <2>4, <2>5, <2>10
<1>4. \A n \in 1..N : PoolOf(as[n]) \in P
  OBVIOUS
<1> HIDE DEF N, P, S, next, none
<1>5. step \in [1..N -> [S -> S]]
  BY <1>3, <1>4
<1>6. PICK g \in [0..N -> S] : Recursion(g, N, none, step)
  <2> HIDE DEF step
  <2>1. QED
    BY <1>1, <1>2, <1>5, RecursionExists
<1>7. ASSUME NEW n \in 1..N PROVE g[n] = next(PoolOf(as[n]), g[n - 1])
  <2>1. n - 1 \in 0..N
    BY <1>1
  <2>2. step[n][g[n - 1]] = next(PoolOf(as[n]), g[n - 1])
    BY <1>6, <2>1
  <2>3. QED
    BY <1>6, <2>2 DEF Recursion
<1>8. g = body(g)
  BY <1>1, <1>6, <1>7 DEF Recursion
<1> DEFINE c == CHOOSE h : h = body(h)
<1>9. c = body(c)
  <2> HIDE DEF body
  <2>1. QED
    BY <1>8
<1>10. Counts(as) = c
  BY DEF Counts, next, N, none
<1> HIDE DEF c
<1>11. c[0] = none /\ \A n \in 1..N : c[n] = next(PoolOf(as[n]), c[n - 1])
  BY <1>1, <1>9
<1>12. Obeys(c, N, S, none, step)
  BY <1>1, <1>2, <1>5, <1>11 DEF Obeys
<1>13. \A n \in 0..N : c[n] \in S
  BY <1>12, RecursionValues
<1>14. ASSUME NEW n \in 1..N
       PROVE  /\ DOMAIN c[n] = DOMAIN c[n - 1] \cup {PoolOf(as[n])}
              /\ \A q \in DOMAIN c[n - 1] :
                    c[n][q] = IF q = PoolOf(as[n]) THEN c[n - 1][q] + 1 ELSE c[n - 1][q]
              /\ PoolOf(as[n]) \notin DOMAIN c[n - 1] => c[n][PoolOf(as[n])] = 0
  <2> DEFINE p == PoolOf(as[n])
             k == c[n - 1]
  <2>1. p \in P /\ k \in S /\ c[n] = next(p, k)
    <3>1. n - 1 \in 0..N
      BY <1>1
    <3>2. QED
      BY <1>4, <1>11, <1>13, <3>1
  <2> HIDE DEF p, k
  <2> DEFINE x == next(p, k)
  <2>2. /\ DOMAIN x = DOMAIN k \cup {p}
        /\ \A q \in DOMAIN k : x[q] = IF q = p THEN k[q] + 1 ELSE k[q]
        /\ p \notin DOMAIN k => x[p] = 0
    BY <1>3, <2>1
  <2>3. c[n] = x
    BY <2>1
  <2> HIDE DEF x
  <2>4. QED
    BY <2>2, <2>3 DEF p, k
<1>15. \A n \in 0..N : \A q \in DOMAIN c[n] : c[n][q] \in Nat
  BY <1>13 DEF S
<1>16. DOMAIN c[0] = {}
  BY <1>11 DEF none
<1>17. QED
  BY <1>10, <1>14, <1>15, <1>16 DEF N

\* A pool's count is that of its list.
LEMMA CountsAreLengths ==
    ASSUME NEW as, Len(as) \in Nat, NEW p, NEW list, Appended(list, as, p)
    PROVE  \A n \in 0..Len(as) :
              Len(list[n]) = IF p \in DOMAIN Counts(as)[n] THEN Counts(as)[n][p] + 1 ELSE 0
<1> DEFINE N == Len(as)
           c == Counts(as)
           Same(n) == Len(list[n]) = IF p \in DOMAIN c[n] THEN c[n][p] + 1 ELSE 0
           G == {n \in Nat : n <= N => Same(n)}
<1>1. N \in Nat
  OBVIOUS
<1>2. DOMAIN c[0] = {} /\ list[0] = << >>
  BY CountsDef DEF Appended
<1>3. ASSUME NEW n \in 1..N
      PROVE  /\ DOMAIN c[n] = DOMAIN c[n - 1] \cup {PoolOf(as[n])}
             /\ \A q \in DOMAIN c[n - 1] :
                   /\ c[n][q] = IF q = PoolOf(as[n]) THEN c[n - 1][q] + 1 ELSE c[n - 1][q]
                   /\ c[n - 1][q] \in Nat
             /\ PoolOf(as[n]) \notin DOMAIN c[n - 1] => c[n][PoolOf(as[n])] = 0
             /\ list[n - 1] \in Seq(Nat)
             /\ list[n] = IF PoolOf(as[n]) = p THEN Append(list[n - 1], n) ELSE list[n - 1]
  <2>1. n - 1 \in 0..N
    <3> HIDE DEF N
    <3>1. QED
      BY <1>1
  <2>2. /\ DOMAIN c[n] = DOMAIN c[n - 1] \cup {PoolOf(as[n])}
        /\ \A q \in DOMAIN c[n - 1] :
              c[n][q] = IF q = PoolOf(as[n]) THEN c[n - 1][q] + 1 ELSE c[n - 1][q]
        /\ PoolOf(as[n]) \notin DOMAIN c[n - 1] => c[n][PoolOf(as[n])] = 0
    BY CountsDef
  <2>3. \A q \in DOMAIN c[n - 1] : c[n - 1][q] \in Nat
    BY <2>1, CountsDef
  <2>4. list[n - 1] \in Seq(Nat)
    BY <2>1 DEF Appended
  <2>5. list[n] = IF PoolOf(as[n]) = p THEN Append(list[n - 1], n) ELSE list[n - 1]
    BY DEF Appended
  <2> HIDE DEF c
  <2>6. QED
    BY <2>2, <2>3, <2>4, <2>5
<1> HIDE DEF c, N
<1>4. 0 \in G
  BY <1>2
<1>5. ASSUME NEW n \in 1..N, Same(n - 1) PROVE Same(n)
  <2> DEFINE k == n - 1
             a == PoolOf(as[n])
  <2>1. Same(k)
    BY <1>5
  <2>2. /\ DOMAIN c[n] = DOMAIN c[k] \cup {a}
        /\ \A q \in DOMAIN c[k] :
              c[n][q] = (IF q = a THEN c[k][q] + 1 ELSE c[k][q]) /\ c[k][q] \in Nat
        /\ a \notin DOMAIN c[k] => c[n][a] = 0
        /\ list[k] \in Seq(Nat)
        /\ list[n] = IF a = p THEN Append(list[k], n) ELSE list[k]
    BY <1>3
  <2> HIDE DEF k, a
  <2>3. CASE a = p
    <3>1. Len(list[n]) = Len(list[k]) + 1
      BY <2>2, <2>3
    <3>2. CASE p \in DOMAIN c[k]
      <4>1. Len(list[k]) = c[k][p] + 1 /\ p \in DOMAIN c[n] /\ c[n][p] = c[k][p] + 1
        BY <2>1, <2>2, <2>3, <3>2
      <4>2. QED
        BY <3>1, <4>1
    <3>3. CASE p \notin DOMAIN c[k]
      <4>1. Len(list[k]) = 0 /\ p \in DOMAIN c[n] /\ c[n][p] = 0
        BY <2>1, <2>2, <2>3, <3>3
      <4>2. QED
        BY <3>1, <4>1
    <3>4. QED
      BY <3>2, <3>3
  <2>4. CASE a # p
    <3>1. list[n] = list[k] /\ (p \in DOMAIN c[n] <=> p \in DOMAIN c[k])
          /\ (p \in DOMAIN c[k] => c[n][p] = c[k][p])
      BY <2>2, <2>4
    <3>2. QED
      BY <2>1, <3>1
  <2>5. QED
    BY <2>3, <2>4
<1> HIDE DEF Same
<1>6. ASSUME NEW n \in Nat, n \in G PROVE n + 1 \in G
  <2> SUFFICES ASSUME n + 1 <= N PROVE Same(n + 1)
    OBVIOUS
  <2>1. n + 1 \in 1..N /\ (n + 1) - 1 = n /\ Same(n)
    BY <1>1, <1>6
  <2>2. QED
    BY <1>5, <2>1
<1> HIDE DEF G
<1>7. Nat \subseteq G
  BY <1>4, <1>6, Induction
<1>8. \A n \in 0..N : Same(n)
  BY <1>1, <1>7 DEF G
<1>9. QED
  BY <1>8 DEF Same, c, N

\* The output that gets an address is the one that pays it.
LEMMA TaggedIsPaid ==
    ASSUME NEW as, Len(as) \in Nat, NEW i \in 1..Len(as) PROVE TaggedBy(as, i) = i
<1> DEFINE N == Len(as)
           p == PoolOf(as[i])
<1>1. N \in Nat /\ i \in 1..N /\ i \in 0..N /\ i - 1 \in 0..N /\ i \in Nat
  <2>1. N \in Nat /\ i \in 1..N
    OBVIOUS
  <2> HIDE DEF N
  <2>2. QED
    BY <2>1
<1>2. PICK list : Appended(list, as, p) /\ BuiltIn(as, p) = list[N]
  BY BuiltInDef
<1>3. Len(list[i]) = IF p \in DOMAIN Counts(as)[i] THEN Counts(as)[i][p] + 1 ELSE 0
  BY <1>1, <1>2, CountsAreLengths
<1>4. /\ \A n \in 0..N : list[n] \in Seq(Nat) /\ Len(list[n]) \in Nat
      /\ \A n \in 1..N :
            list[n] = IF PoolOf(as[n]) = p THEN Append(list[n - 1], n) ELSE list[n - 1]
  BY <1>2, LenProperties DEF Appended
<1> DEFINE at == Len(list[i])
           Kept(n) == at <= Len(list[n]) /\ list[n][at] = i
<1>5. at \in Nat /\ at >= 1 /\ list[i][at] = i
  <2>1. list[i] = Append(list[i - 1], i)
    BY <1>1, <1>4
  <2>2. list[i - 1] \in Seq(Nat)
    BY <1>1, <1>4
  <2> HIDE DEF N, p
  <2>3. QED
    BY <1>1, <2>1, <2>2
<1>6. IndexInPool(as, i) + 1 = at
  <2>1. IndexInPool(as, i) = Counts(as)[i][p]
    BY DEF IndexInPool
  <2> HIDE DEF p, N, at
  <2>2. at = IF p \in DOMAIN Counts(as)[i] THEN Counts(as)[i][p] + 1 ELSE 0
    BY <1>3 DEF at
  <2>3. at # 0
    BY <1>5
  <2>4. QED
    BY <2>1, <2>2, <2>3
<1>7. Kept(i)
  BY <1>5
<1> HIDE DEF N, p, at
<1>8. ASSUME NEW n \in 1..N, Kept(n - 1) PROVE Kept(n)
  <2> DEFINE k == n - 1
  <2>1. Kept(k) /\ list[k] \in Seq(Nat) /\ Len(list[k]) \in Nat
        /\ (list[n] = Append(list[k], n) \/ list[n] = list[k])
    <3>1. k \in 0..N
      BY <1>1
    <3>2. QED
      BY <1>4, <1>8, <3>1
  <2> HIDE DEF k
  <2>2. CASE list[n] = list[k]
    BY <2>1, <2>2
  <2>3. CASE list[n] = Append(list[k], n)
    <3>1. Len(list[n]) = Len(list[k]) + 1 /\ at \in 1..Len(list[k])
      BY <1>5, <2>1, <2>3
    <3>2. list[n][at] = list[k][at]
      BY <2>1, <2>3, <3>1, AppendProperties
    <3>3. QED
      BY <1>5, <2>1, <3>1, <3>2
  <2>4. QED
    BY <2>1, <2>2, <2>3
<1> HIDE DEF Kept
<1> DEFINE G == {m \in Nat : i + m <= N => Kept(i + m)}
<1>9. 0 \in G
  BY <1>1, <1>7
<1>10. ASSUME NEW m \in Nat, m \in G PROVE m + 1 \in G
  <2> SUFFICES ASSUME i + (m + 1) <= N PROVE Kept(i + (m + 1))
    OBVIOUS
  <2>1. i + (m + 1) \in 1..N /\ (i + (m + 1)) - 1 = i + m /\ Kept(i + m)
    BY <1>1, <1>10
  <2>2. QED
    BY <1>8, <2>1
<1> HIDE DEF G
<1>11. Nat \subseteq G
  BY <1>9, <1>10, Induction
<1>12. Kept(N)
  <2> DEFINE m == N - i
  <2>1. m \in Nat /\ i + m = N
    BY <1>1
  <2> HIDE DEF m
  <2>2. QED
    BY <1>1, <1>11, <2>1 DEF G
<1>13. at \in 1..Len(BuiltIn(as, p)) /\ BuiltIn(as, p)[at] = i
  <2>1. Len(list[N]) \in Nat
    BY <1>1, <1>4
  <2>2. QED
    BY <1>2, <1>5, <1>12, <2>1 DEF Kept
<1>14. QED
  BY <1>6, <1>13 DEF TaggedBy, p

\* The addresses up to the one that is recorded are on their outputs.
PayInv ==
    /\ recipients \in Seq(AddressType)
    /\ tagged \in 0..Len(recipients) /\ maker \in {"ready", "tagging", "written", "failed"}
    /\ DOMAIN tags = 1..Len(recipients)
    /\ \A i \in 1..Len(recipients) : tags[i] = IF i <= tagged THEN i ELSE 0
    /\ maker = "written" => tagged = Len(recipients)

LEMMA InitPayInv == InitPay \/ IdlePay => PayInv
<1> SUFFICES ASSUME InitPay \/ IdlePay PROVE PayInv
  OBVIOUS
<1>1. CASE InitPay
  <2>1. PICK n \in 0..MaxRecipients : recipients \in [1..n -> AddressType]
    BY <1>1 DEF InitPay
  <2>2. n \in Nat
    BY <2>1, AddressTypesAssumption
  <2>3. recipients \in Seq(AddressType) /\ Len(recipients) = n
    BY <2>1, <2>2
  <2>4. tags = [i \in 1..n |-> 0] /\ tagged = 0 /\ maker = "ready"
    BY <1>1, <2>3 DEF InitPay
  <2>5. QED
    BY <2>2, <2>3, <2>4 DEF PayInv
<1>2. CASE IdlePay
  <2>1. recipients = << >> /\ tags = << >> /\ tagged = 0 /\ maker = "failed"
    BY <1>2 DEF IdlePay
  <2>2. QED
    BY <2>1 DEF PayInv
<1>3. QED
  BY <1>1, <1>2

LEMMA PayStepInv ==
    ASSUME PayInv, [PayStep]_payVars PROVE PayInv'
<1> DEFINE N == Len(recipients)
<1>1. N \in Nat
  BY LenProperties DEF PayInv
<1>2. CASE UNCHANGED payVars
  BY <1>2 DEF payVars, PayInv
<1>3. CASE BeginPay
  BY <1>3 DEF BeginPay, PayInv
<1>4. CASE TagNext
  <2> DEFINE i == tagged + 1
  <2>1. maker = "tagging" /\ tagged' = i /\ recipients' = recipients /\ i \in 1..N /\ tagged \in 0..N
    <3>1. maker = "tagging" /\ tagged < N /\ tagged' = i /\ recipients' = recipients /\ tagged \in 0..N
      BY <1>4 DEF TagNext, PayInv
    <3> HIDE DEF N
    <3>2. QED
      BY <1>1, <3>1
  <2>2. TaggedBy(recipients, i) = i
    BY <1>1, <2>1, TaggedIsPaid
  <2> HIDE DEF i
  <2>3. i # 0
    BY <1>1, <2>1
  <2>4. tags' = [tags EXCEPT ![i] = i] /\ maker' = maker
    BY <1>4, <2>1, <2>2, <2>3 DEF TagNext
  <2>5. DOMAIN tags = 1..N /\ \A j \in 1..N : tags[j] = IF j <= tagged THEN j ELSE 0
    BY DEF PayInv
  <2> HIDE DEF N
  <2>6. DOMAIN tags' = 1..N /\ \A j \in 1..N : tags'[j] = IF j <= i THEN j ELSE 0
    <3>1. \A j \in 1..N : tags'[j] = IF j = i THEN i ELSE tags[j]
      BY <2>4, <2>5
    <3>2. DOMAIN tags' = 1..N
      BY <2>4, <2>5
    <3>3. \A j \in 1..N : j <= i <=> j = i \/ j <= tagged
      BY <1>1, <2>1 DEF i
    <3>4. QED
      BY <2>5, <3>1, <3>2, <3>3
  <2>7. N' = N /\ recipients \in Seq(AddressType)
    BY <2>1 DEF N, PayInv
  <2>8. i \in 0..N
    BY <1>1, <2>1
  <2>9. QED
    BY <2>1, <2>4, <2>6, <2>7, <2>8 DEF PayInv, N
<1>5. CASE WritePay
  BY <1>5 DEF WritePay, PayInv
<1>6. QED
  BY <1>2, <1>3, <1>4, <1>5 DEF PayStep

LEMMA PayInvSafe == PayInv => AddressesOnTheirOutputs
<1> SUFFICES ASSUME PayInv PROVE AddressesOnTheirOutputs
  OBVIOUS
<1> DEFINE N == Len(recipients)
<1>1. N \in Nat
  BY LenProperties DEF PayInv
<1>2. (\A i \in 1..N : tags[i] = IF i <= tagged THEN i ELSE 0) /\ (maker = "written" => tagged = N)
  BY DEF PayInv
<1> HIDE DEF N
<1>3. \A i \in 1..N : tags[i] \in {0, i} /\ (maker = "written" => tags[i] = i)
  BY <1>1, <1>2
<1>4. QED
  BY <1>3 DEF AddressesOnTheirOutputs, N

-----------------------------------------------------------------------------
(* Keys to redact. *)

\* A token in front of others: it comes off again.
LEMMA TokenFirst ==
    ASSUME NEW S, NEW a \in S, NEW t \in Seq(S)
    PROVE  /\ <<a>> \o t \in Seq(S) /\ <<a>> \o t # << >>
           /\ Head(<<a>> \o t) = a /\ Tail(<<a>> \o t) = t
           /\ Len(<<a>> \o t) = Len(t) + 1
<1> DEFINE k == <<a>> \o t
<1>1. <<a>> \in Seq(S) /\ Len(<<a>>) = 1 /\ <<a>>[1] = a
  OBVIOUS
<1>2. /\ k \in Seq(S) /\ Len(k) = 1 + Len(t) /\ Len(t) \in Nat
      /\ \A i \in 1..(1 + Len(t)) : k[i] = IF i <= 1 THEN <<a>>[i] ELSE t[i - 1]
  <2>1. /\ k \in Seq(S) /\ Len(k) = Len(<<a>>) + Len(t)
        /\ \A i \in 1..(Len(<<a>>) + Len(t)) :
            k[i] = IF i <= Len(<<a>>) THEN <<a>>[i] ELSE t[i - Len(<<a>>)]
    BY <1>1, ConcatProperties, Zenon
  <2>2. Len(t) \in Nat
    BY LenProperties
  <2> HIDE DEF k
  <2>3. QED
    BY <1>1, <2>1, <2>2
<1>3. k[1] = a /\ \A i \in 1..Len(t) : k[i + 1] = t[i]
  <2> HIDE DEF k
  <2>1. QED
    BY <1>1, <1>2
<1> HIDE DEF k
<1>4. k # << >> /\ Head(k) = a
  BY <1>2, <1>3
<1>5. Tail(k) = t
  <2>1. /\ Tail(k) \in Seq(S) /\ Len(Tail(k)) = Len(k) - 1
        /\ \A i \in 1..Len(Tail(k)) : Tail(k)[i] = k[i + 1]
    BY <1>2, <1>4, HeadTailProperties, Zenon
  <2>2. Len(Tail(k)) = Len(t)
    BY <1>2, <2>1
  <2>3. \A i \in 1..Len(Tail(k)) : Tail(k)[i] = t[i]
    BY <1>2, <1>3, <2>1, <2>2
  <2>4. QED
    BY <2>1, <2>2, <2>3, SeqEqual
<1>6. QED
  BY <1>2, <1>4, <1>5 DEF k

LEMMA TokenOff ==
    ASSUME NEW S, NEW k \in Seq(S), k # << >>
    PROVE  Head(k) \in S /\ Tail(k) \in Seq(S) /\ k = <<Head(k)>> \o Tail(k)
<1>1. Head(k) \in S /\ Tail(k) \in Seq(S)
  BY HeadTailProperties
<1>2. k = <<Head(k)>> \o Tail(k)
  OBVIOUS
<1>3. QED
  BY <1>1, <1>2

Where(s, is, t) == [section |-> s, items |-> is, rest |-> t]
Indexed(t) == {j \in Item : Digits[j] = t[2]}
HasIndex(t) == Len(t) > 1 /\ \E i \in DOMAIN Digits : Digits[i] = t[2]

\* Tokens: strings, but the provers are not told which are.
Steps == {"inputs", "outputs", "spends", "spend", "output", "actions", "action"}
Token == STRING \cup Whole \cup {"transparent"} \cup Steps \cup {Digits[i] : i \in Item}
         \cup {v.field : v \in Value} \cup {v.key : v \in Value}

LEMMA TwoTokens ==
    ASSUME NEW a \in Token, NEW b \in Token, NEW t \in Seq(Token)
    PROVE  <<a, b>> \o t = <<a>> \o (<<b>> \o t)
<1>1. /\ <<a>> \in Seq(Token) /\ Len(<<a>>) = 1 /\ <<a>>[1] = a
      /\ <<b>> \in Seq(Token) /\ Len(<<b>>) = 1 /\ <<b>>[1] = b
      /\ <<a, b>> \in Seq(Token) /\ Len(<<a, b>>) = 2 /\ <<a, b>>[1] = a /\ <<a, b>>[2] = b
  OBVIOUS
<1> DEFINE x == <<a>>
           y == <<b>>
           z == <<a, b>>
           w == x \o y
<1>2. x \o y = z
  <2>1. /\ w \in Seq(Token) /\ Len(w) = Len(x) + Len(y)
        /\ \A i \in 1..(Len(x) + Len(y)) : w[i] = IF i <= Len(x) THEN x[i] ELSE y[i - Len(x)]
    BY <1>1, ConcatProperties, Zenon
  <2> HIDE DEF w, x, y, z
  <2>2. Len(w) = Len(z) /\ \A i \in 1..Len(w) : w[i] = z[i]
    BY <1>1, <2>1 DEF x, y, z
  <2>3. w = z
    BY <1>1, <2>1, <2>2, SeqEqual DEF z
  <2>4. QED
    BY <2>3 DEF w
<1>3. (x \o y) \o t = x \o (y \o t)
  <2>1. x \in Seq(Token) /\ y \in Seq(Token)
    BY <1>1
  <2> HIDE DEF w, x, y, z
  <2>2. QED
    BY <2>1, ConcatAssociative
<1> HIDE DEF w, x, y, z
<1>4. z \o t = x \o (y \o t)
  BY <1>2, <1>3
<1>5. QED
  BY <1>4 DEF x, y, z

\* A name for the concatenation helps the provers to instantiate the lemma.
Key3(a, b, c, t) == <<a, b, c>> \o t

LEMMA ThreeTokens ==
    ASSUME NEW a \in Token, NEW b \in Token, NEW c \in Token, NEW t \in Seq(Token)
    PROVE  Key3(a, b, c, t) = <<a>> \o (<<b>> \o (<<c>> \o t))
<1>. SUFFICES <<a, b, c>> \o t = <<a>> \o (<<b>> \o (<<c>> \o t))
  BY DEF Key3
<1>1. /\ <<a>> \in Seq(Token) /\ Len(<<a>>) = 1 /\ <<a>>[1] = a
      /\ <<b, c>> \in Seq(Token) /\ Len(<<b, c>>) = 2 /\ <<b, c>>[1] = b /\ <<b, c>>[2] = c
      /\ <<a, b, c>> \in Seq(Token) /\ Len(<<a, b, c>>) = 3 
      /\ <<a, b, c>>[1] = a /\ <<a, b, c>>[2] = b /\ <<a, b, c>>[3] = c
  OBVIOUS
<1> DEFINE x == <<a>>
           y == <<b, c>>
           z == <<a, b, c>>
           w == x \o y
<1>2. x \o y = z
  <2>1. /\ w \in Seq(Token) /\ Len(w) = Len(x) + Len(y)
        /\ \A i \in 1..(Len(x) + Len(y)) : w[i] = IF i <= Len(x) THEN x[i] ELSE y[i - Len(x)]
    BY <1>1, ConcatProperties, Zenon
  <2> HIDE DEF w, x, y, z
  <2>2. Len(w) = Len(z) /\ \A i \in 1..Len(w) : w[i] = z[i]
    BY <1>1, <2>1 DEF x, y, z
  <2>3. w = z
    BY <1>1, <2>1, <2>2, SeqEqual DEF z
  <2>4. QED
    BY <2>3 DEF w
<1>3. (x \o y) \o t = x \o (y \o t)
  <2>1. x \in Seq(Token) /\ y \in Seq(Token)
    BY <1>1
  <2> HIDE DEF w, x, y, z
  <2>2. QED
    BY <2>1, ConcatAssociative
<1>6. y \o t = <<b>> \o (<<c>> \o t)
  BY TwoTokens
<1> HIDE DEF w, x, y, z
<1>4. z \o t = x \o (y \o t)
  BY <1>2, <1>3
<1>5. QED
  BY <1>4, <1>6 DEF x, y, z

\* Where one step of the walk leads from each section.
LEMMA FromEnds ==
    ASSUME NEW s \in {"global", "t_input", "t_output", "s_spend", "s_output", "o_spend",
                     "o_output"},
           NEW is, NEW t
    PROVE  Descend(Where(s, is, t)) = Where(s, is, t)
<1>1. s \notin DOMAIN ListNamed /\ s \notin DOMAIN PartNamed /\ s \notin DOMAIN ItemNamed
  BY DEF ListNamed, PartNamed, ItemNamed
<1>2. Where(s, is, t).section = s
  BY DEF Where
<1>3. QED
  BY <1>1, <1>2 DEF Descend, Enters

LEMMA FromTransparent ==
    ASSUME NEW is, NEW t
    PROVE  LET r == Where("transparent", is, t)
           IN Descend(r) = IF t # << >> /\ Head(t) = "inputs" THEN Where("t_input", Item, Tail(t))
                           ELSE IF t # << >> /\ Head(t) = "outputs"
                           THEN Where("t_output", Item, Tail(t)) ELSE r
<1> DEFINE r == Where("transparent", is, t)
<1>1. r.section = "transparent" /\ r.rest = t
  BY DEF Where
<1>2. /\ DOMAIN ListNamed["transparent"] = {"inputs", "outputs"}
      /\ ListNamed["transparent"]["inputs"] = "t_input"
      /\ ListNamed["transparent"]["outputs"] = "t_output"
      /\ "transparent" \in DOMAIN ListNamed
      /\ "transparent" \notin DOMAIN PartNamed /\ "transparent" \notin DOMAIN ItemNamed
  BY DEF ListNamed, PartNamed, ItemNamed
<1>3. "inputs" # "outputs"
  OBVIOUS
<1> HIDE DEF r
<1>4. ~Enters(PartNamed, r) /\ ~Enters(ItemNamed, r)
  BY <1>1, <1>2 DEF Enters
<1>5. Enters(ListNamed, r) <=> t # << >> /\ (Head(t) = "inputs" \/ Head(t) = "outputs")
  BY <1>1, <1>2 DEF Enters
<1>6. Descend(r) = IF Enters(ListNamed, r)
                   THEN Where(ListNamed["transparent"][Head(t)], Item, Tail(t)) ELSE r
  BY <1>1, <1>4 DEF Descend, Where
<1>7. QED
  BY <1>2, <1>3, <1>5, <1>6 DEF r

LEMMA FromSapling ==
    ASSUME NEW is, NEW t
    PROVE  LET r == Where("sapling", is, t)
           IN Descend(r) =
                IF t # << >> /\ Head(t) = "spends" THEN Where("s_spend", Item, Tail(t))
                ELSE IF t # << >> /\ Head(t) = "outputs" THEN Where("s_output", Item, Tail(t))
                ELSE IF t # << >> /\ Head(t) = "spend" /\ HasIndex(t)
                THEN Where("s_spend", Indexed(t), Tail(Tail(t)))
                ELSE IF t # << >> /\ Head(t) = "output" /\ HasIndex(t)
                THEN Where("s_output", Indexed(t), Tail(Tail(t))) ELSE r
<1> DEFINE r == Where("sapling", is, t)
<1>1. r.section = "sapling" /\ r.rest = t
  BY DEF Where
<1>2. /\ DOMAIN ListNamed["sapling"] = {"spends", "outputs"}
      /\ ListNamed["sapling"]["spends"] = "s_spend"
      /\ ListNamed["sapling"]["outputs"] = "s_output"
      /\ DOMAIN ItemNamed["sapling"] = {"spend", "output"}
      /\ ItemNamed["sapling"]["spend"] = "s_spend"
      /\ ItemNamed["sapling"]["output"] = "s_output"
      /\ "sapling" \in DOMAIN ListNamed /\ "sapling" \in DOMAIN ItemNamed
      /\ "sapling" \notin DOMAIN PartNamed
  BY DEF ListNamed, PartNamed, ItemNamed
<1>3. /\ "spends" # "outputs" /\ "spend" # "output"
      /\ {"spends", "outputs"} \cap {"spend", "output"} = {}
  OBVIOUS
<1> HIDE DEF r
<1>4. ~Enters(PartNamed, r)
  BY <1>1, <1>2 DEF Enters
<1>5. Enters(ListNamed, r) <=> t # << >> /\ (Head(t) = "spends" \/ Head(t) = "outputs")
  BY <1>1, <1>2 DEF Enters
<1>6. Enters(ItemNamed, r) <=> t # << >> /\ (Head(t) = "spend" \/ Head(t) = "output")
  BY <1>1, <1>2 DEF Enters
<1>7. Descend(r) = IF Enters(ListNamed, r) THEN Where(ListNamed["sapling"][Head(t)], Item, Tail(t))
                   ELSE IF Enters(ItemNamed, r) /\ HasIndex(t)
                   THEN Where(ItemNamed["sapling"][Head(t)], Indexed(t), Tail(Tail(t))) ELSE r
  BY <1>1, <1>4 DEF Descend, Where, HasIndex, Indexed
<1>8. QED
  BY <1>2, <1>3, <1>5, <1>6, <1>7 DEF r

LEMMA FromOrchard ==
    ASSUME NEW is, NEW t
    PROVE  LET r == Where("orchard", is, t)
           IN Descend(r) =
                IF t # << >> /\ Head(t) = "actions" THEN Where("action", Item, Tail(t))
                ELSE IF t # << >> /\ Head(t) = "action" /\ HasIndex(t)
                THEN Where("action", Indexed(t), Tail(Tail(t))) ELSE r
<1> DEFINE r == Where("orchard", is, t)
<1>1. r.section = "orchard" /\ r.rest = t
  BY DEF Where
<1>2. /\ DOMAIN ListNamed["orchard"] = {"actions"}
      /\ ListNamed["orchard"]["actions"] = "action"
      /\ DOMAIN ItemNamed["orchard"] = {"action"}
      /\ ItemNamed["orchard"]["action"] = "action"
      /\ "orchard" \in DOMAIN ListNamed /\ "orchard" \in DOMAIN ItemNamed
      /\ "orchard" \notin DOMAIN PartNamed
  BY DEF ListNamed, PartNamed, ItemNamed
<1>3. "actions" # "action"
  OBVIOUS
<1> HIDE DEF r
<1>4. ~Enters(PartNamed, r)
  BY <1>1, <1>2 DEF Enters
<1>5. Enters(ListNamed, r) <=> t # << >> /\ Head(t) = "actions"
  BY <1>1, <1>2 DEF Enters
<1>6. Enters(ItemNamed, r) <=> t # << >> /\ Head(t) = "action"
  BY <1>1, <1>2 DEF Enters
<1>7. Descend(r) = IF Enters(ListNamed, r) THEN Where(ListNamed["orchard"][Head(t)], Item, Tail(t))
                   ELSE IF Enters(ItemNamed, r) /\ HasIndex(t)
                   THEN Where(ItemNamed["orchard"][Head(t)], Indexed(t), Tail(Tail(t))) ELSE r
  BY <1>1, <1>4 DEF Descend, Where, HasIndex, Indexed
<1>8. QED
  BY <1>2, <1>3, <1>5, <1>6, <1>7 DEF r

LEMMA FromAction ==
    ASSUME NEW is, NEW t
    PROVE  LET r == Where("action", is, t)
           IN Descend(r) = IF t # << >> /\ Head(t) = "spend" THEN Where("o_spend", is, Tail(t))
                           ELSE IF t # << >> /\ Head(t) = "output"
                           THEN Where("o_output", is, Tail(t)) ELSE r
<1> DEFINE r == Where("action", is, t)
<1>1. r.section = "action" /\ r.rest = t
  BY DEF Where
<1>2. /\ DOMAIN PartNamed["action"] = {"spend", "output"}
      /\ PartNamed["action"]["spend"] = "o_spend"
      /\ PartNamed["action"]["output"] = "o_output"
      /\ "action" \in DOMAIN PartNamed
      /\ "action" \notin DOMAIN ListNamed /\ "action" \notin DOMAIN ItemNamed
  BY DEF ListNamed, PartNamed, ItemNamed
<1>3. "spend" # "output"
  OBVIOUS
<1>4. r.items = is
  BY DEF Where
<1> HIDE DEF r
<1>5. ~Enters(ListNamed, r) /\ ~Enters(ItemNamed, r)
  BY <1>1, <1>2 DEF Enters
<1>6. Enters(PartNamed, r) <=> t # << >> /\ (Head(t) = "spend" \/ Head(t) = "output")
  BY <1>1, <1>2 DEF Enters
<1>7. Descend(r) = IF Enters(PartNamed, r)
                   THEN Where(PartNamed["action"][Head(t)], is, Tail(t)) ELSE r
  BY <1>1, <1>4, <1>5 DEF Descend, Where
<1>8. QED
  BY <1>2, <1>3, <1>6, <1>7 DEF r

LEMMA DigitsType ==
    ASSUME NEW i \in Item
    PROVE  i \in DOMAIN Digits /\ Digits[i] \in Token
<1>1. i \in 0..MaxItems
  BY RedactAssumption DEF Item
<1>2. QED
  BY <1>1 DEF Digits, Token

\* A key whose first tokens are these, and then those of t.
Two(k, p, q, t) ==
    /\ k \in Seq(Token) /\ k # << >> /\ Head(k) = p
    /\ Tail(k) # << >> /\ Head(Tail(k)) = q /\ Tail(Tail(k)) = t
Three(k, p, q, d, t) ==
    /\ k \in Seq(Token) /\ k # << >> /\ Head(k) = p
    /\ Tail(k) # << >> /\ Head(Tail(k)) = q /\ Len(Tail(k)) > 1
    /\ Tail(k)[2] = d /\ Tail(Tail(Tail(k))) = t

LEMMA ManyPath ==
    ASSUME NEW p \in Token, NEW many \in Token, NEW t \in Seq(Token)
    PROVE  Two(<<p, many>> \o t, p, many, t)
<1> DEFINE u == <<many>> \o t
<1>1. u \in Seq(Token) /\ u # << >> /\ Head(u) = many /\ Tail(u) = t
  BY TokenFirst
<1>2. <<p, many>> \o t = <<p>> \o u
  BY TwoTokens
<1> HIDE DEF u
<1>3. /\ <<p>> \o u \in Seq(Token) /\ <<p>> \o u # << >>
      /\ Head(<<p>> \o u) = p /\ Tail(<<p>> \o u) = u
  BY <1>1, TokenFirst
<1>4. QED
  BY <1>1, <1>2, <1>3 DEF Two

LEMMA OnePath ==
    ASSUME NEW p \in Token, NEW one \in Token, NEW d \in Token, NEW t \in Seq(Token)
    PROVE  Three(<<p, one, d>> \o t, p, one, d, t)
<1> DEFINE w == <<d>> \o t
           u == <<one>> \o w
<1>1. w \in Seq(Token) /\ w # << >> /\ Head(w) = d /\ Tail(w) = t
  BY TokenFirst
<1>2. Key3(p, one, d, t) = <<p>> \o u
  BY ThreeTokens
<1> HIDE DEF w
<1>3. u \in Seq(Token) /\ u # << >> /\ Head(u) = one /\ Tail(u) = w /\ Len(u) = Len(w) + 1
  BY <1>1, TokenFirst
<1> HIDE DEF u
<1>4. /\ <<p>> \o u \in Seq(Token) /\ <<p>> \o u # << >>
      /\ Head(<<p>> \o u) = p /\ Tail(<<p>> \o u) = u
  BY <1>3, TokenFirst
<1>5. Len(u) > 1 /\ u[2] = d
  <2>1. Len(w) \in Nat /\ Len(w) > 0 /\ w[1] = d
    BY <1>1
  <2>2. \A i \in 1..Len(Tail(u)) : Tail(u)[i] = u[i + 1]
    BY <1>3, HeadTailProperties
  <2>3. w[1] = u[1 + 1]
    BY <1>3, <2>1, <2>2
  <2>4. QED
    BY <1>3, <2>1, <2>3
<1>6. QED
  BY <1>1, <1>2, <1>3, <1>4, <1>5 DEF Three, Key3

LEMMA ReachedIs ==
    ASSUME NEW key, key # << >>, Head(key) \in Whole \cup {"transparent"}
    PROVE  Reached(key) = {Descend(Descend(Where(Head(key), {0}, Tail(key))))}
BY DEF Reached, Where

\* The paths to an item's fields are walked to that item.
LEMMA PathsLead ==
    ASSUME NEW s \in Whole \cup Listed, NEW i \in IF s \in Listed THEN Item ELSE {0},
           NEW t \in Seq(Token), t # << >>, Head(t) \notin Steps,
           NEW key \in PathsTo(s, i, t)
    PROVE  /\ key \in Seq(Token)
           /\ \E is \in SUBSET (Item \cup {0}) : i \in is /\ Reached(key) = {Where(s, is, t)}
<1>0. /\ Whole \subseteq Token /\ {"transparent", "sapling", "orchard"} \subseteq Token
      /\ {"inputs", "outputs", "spends", "spend", "output", "actions", "action"} \subseteq Token
      /\ {"transparent", "sapling", "orchard"} \subseteq Whole \cup {"transparent"}
  BY DEF Token, Steps, Whole
<1>00. Head(t) \notin {"inputs", "outputs", "spends", "spend", "output", "actions", "action"}
  BY DEF Steps
<1>1. CASE s \in Whole
  <2>1. key = <<s>> \o t /\ s \in Token /\ i = 0
    <3>1. s \notin Listed
      BY <1>1 DEF Whole, Listed
    <3>2. PathsTo(s, i, t) = {<<s>> \o t}
      BY <1>1 DEF PathsTo, Whole
    <3>3. QED
      BY <1>0, <1>1, <3>1, <3>2
  <2>2. key \in Seq(Token) /\ key # << >> /\ Head(key) = s /\ Tail(key) = t
    BY <2>1, TokenFirst
  <2>3. Descend(Where(s, {0}, t)) = Where(s, {0}, t)
    BY <1>00, <1>1, FromEnds, FromSapling, FromOrchard DEF Whole
  <2>4. QED
    BY <1>1, <2>1, <2>2, <2>3, ReachedIs
<1>2. ASSUME NEW many \in {"inputs", "outputs", "spends", "actions"},
             NEW p \in {"transparent", "sapling", "orchard"}, NEW u \in Seq(Token),
             key = <<p, many>> \o u
      PROVE  /\ key \in Seq(Token) /\ Tail(key) # << >> /\ Head(Tail(key)) = many
             /\ Tail(Tail(key)) = u
             /\ Reached(key) = {Descend(Descend(Where(p, {0}, Tail(key))))}
  <2>1. p \in Token /\ many \in Token /\ p \in Whole \cup {"transparent"}
    BY <1>0
  <2>2. Two(<<p, many>> \o u, p, many, u)
    BY <2>1, ManyPath
  <2>3. QED
    BY <1>2, <2>1, <2>2, ReachedIs DEF Two
<1>3. ASSUME NEW one \in {"spend", "output", "action"},
             NEW p \in {"transparent", "sapling", "orchard"}, NEW u \in Seq(Token),
             key = <<p, one, Digits[i]>> \o u, i \in Item
      PROVE  /\ key \in Seq(Token) /\ Tail(key) # << >> /\ Head(Tail(key)) = one
             /\ HasIndex(Tail(key)) /\ i \in Indexed(Tail(key))
             /\ Indexed(Tail(key)) \subseteq Item
             /\ Tail(Tail(Tail(key))) = u
             /\ Reached(key) = {Descend(Descend(Where(p, {0}, Tail(key))))}
  <2>1. p \in Token /\ one \in Token /\ p \in Whole \cup {"transparent"}
    BY <1>0
  <2>2. i \in DOMAIN Digits /\ Digits[i] \in Token
    BY <1>3, DigitsType
  <2>3. Three(<<p, one, Digits[i]>> \o u, p, one, Digits[i], u)
    BY <2>1, <2>2, OnePath
  <2>4. /\ HasIndex(Tail(key)) /\ i \in Indexed(Tail(key))
        /\ Indexed(Tail(key)) \subseteq Item
    BY <1>3, <2>2, <2>3 DEF HasIndex, Indexed, Three
  <2>5. QED
    BY <1>3, <2>1, <2>3, <2>4, ReachedIs DEF Three
<1>4. \A u : u \in Seq(Token) => <<"spend">> \o u \in Seq(Token) /\ <<"spend">> \o u # << >>
          /\ <<"output">> \o u \in Seq(Token) /\ <<"output">> \o u # << >>
          /\ Head(<<"spend">> \o u) = "spend" /\ Tail(<<"spend">> \o u) = u
          /\ Head(<<"output">> \o u) = "output" /\ Tail(<<"output">> \o u) = u
  BY <1>0, TokenFirst
<1>5. CASE s = "t_input"
  <2>1. key = <<"transparent", "inputs">> \o t /\ i \in Item
    BY <1>5 DEF PathsTo, Whole, Listed
  <2>2. key \in Seq(Token) /\ Reached(key) = {Descend(Where("t_input", Item, t))}
    BY <1>2, <2>1, FromTransparent
  <2>3. QED
    BY <1>5, <2>1, <2>2, FromEnds
<1>6. CASE s = "t_output"
  <2>1. key = <<"transparent", "outputs">> \o t /\ i \in Item
    BY <1>6 DEF PathsTo, Whole, Listed
  <2>2. key \in Seq(Token) /\ Reached(key) = {Descend(Where("t_output", Item, t))}
    BY <1>2, <2>1, FromTransparent
  <2>3. QED
    BY <1>6, <2>1, <2>2, FromEnds
<1>7. CASE s = "s_spend"
  <2>1. i \in Item /\ key \in {<<"sapling", "spends">> \o t, <<"sapling", "spend", Digits[i]>> \o t}
    BY <1>7 DEF PathsTo, Whole, Listed
  <2>2. CASE key = <<"sapling", "spends">> \o t
    <3>1. key \in Seq(Token) /\ Reached(key) = {Descend(Where("s_spend", Item, t))}
      BY <1>2, <2>2, FromSapling
    <3>2. QED
      BY <1>7, <2>1, <3>1, FromEnds
  <2>3. CASE key = <<"sapling", "spend", Digits[i]>> \o t
    <3>1. key \in Seq(Token) /\ Reached(key) = {Descend(Where("s_spend", Indexed(Tail(key)), t))}
            /\ i \in Indexed(Tail(key)) /\ Indexed(Tail(key)) \subseteq Item
      BY <1>3, <2>1, <2>3, FromSapling
    <3>2. QED
      BY <1>7, <2>1, <3>1, FromEnds
  <2>4. QED
    BY <2>1, <2>2, <2>3
<1>8. CASE s = "s_output"
  <2>1. /\ i \in Item
        /\ key \in {<<"sapling", "outputs">> \o t, <<"sapling", "output", Digits[i]>> \o t}
    BY <1>8 DEF PathsTo, Whole, Listed
  <2>2. CASE key = <<"sapling", "outputs">> \o t
    <3>1. key \in Seq(Token) /\ Reached(key) = {Descend(Where("s_output", Item, t))}
      BY <1>2, <2>2, FromSapling
    <3>2. QED
      BY <1>8, <2>1, <3>1, FromEnds
  <2>3. CASE key = <<"sapling", "output", Digits[i]>> \o t
    <3>1. key \in Seq(Token) /\ Reached(key) = {Descend(Where("s_output", Indexed(Tail(key)), t))}
            /\ i \in Indexed(Tail(key)) /\ Indexed(Tail(key)) \subseteq Item
      BY <1>3, <2>1, <2>3, FromSapling
    <3>2. QED
      BY <1>8, <2>1, <3>1, FromEnds
  <2>4. QED
    BY <2>1, <2>2, <2>3
<1>9. ASSUME s \in {"action", "o_spend", "o_output"}, NEW u \in Seq(Token),
             key \in {<<"orchard", "actions">> \o u, <<"orchard", "action", Digits[i]>> \o u}
      PROVE  /\ key \in Seq(Token)
             /\ \E is \in SUBSET (Item \cup {0}) :
                   i \in is /\ Reached(key) = {Descend(Where("action", is, u))}
  <2>1. i \in Item
    BY <1>9 DEF Listed
  <2>2. CASE key = <<"orchard", "actions">> \o u
    <3>1. key \in Seq(Token) /\ Reached(key) = {Descend(Where("action", Item, u))}
      BY <1>2, <2>2, FromOrchard
    <3>2. QED
      BY <2>1, <3>1
  <2>3. CASE key = <<"orchard", "action", Digits[i]>> \o u
    <3>1. key \in Seq(Token) /\ Reached(key) = {Descend(Where("action", Indexed(Tail(key)), u))}
            /\ i \in Indexed(Tail(key)) /\ Indexed(Tail(key)) \subseteq Item
      BY <1>3, <2>1, <2>3, FromOrchard
    <3>2. QED
      BY <3>1
  <2>4. QED
    BY <1>9, <2>2, <2>3
<1>10. CASE s = "action"
  <2>1. key \in {<<"orchard", "actions">> \o t, <<"orchard", "action", Digits[i]>> \o t}
    BY <1>10 DEF PathsTo, Whole
  <2>2. \A is : Descend(Where("action", is, t)) = Where("action", is, t)
    BY <1>00, FromAction
  <2>3. QED
    BY <1>9, <1>10, <2>1, <2>2
<1>11. CASE s = "o_spend"
  <2> DEFINE u == <<"spend">> \o t
  <2>1. key \in {<<"orchard", "actions">> \o u, <<"orchard", "action", Digits[i]>> \o u}
    BY <1>11 DEF PathsTo, Whole
  <2>2. u \in Seq(Token) /\ u # << >> /\ Head(u) = "spend" /\ Tail(u) = t
    BY <1>4
  <2> HIDE DEF u
  <2>3. \A is : Descend(Where("action", is, u)) = Where("o_spend", is, t)
    BY <2>2, FromAction
  <2>4. QED
    BY <1>9, <1>11, <2>1, <2>2, <2>3
<1>12. CASE s = "o_output"
  <2> DEFINE u == <<"output">> \o t
  <2>1. key \in {<<"orchard", "actions">> \o u, <<"orchard", "action", Digits[i]>> \o u}
    BY <1>12 DEF PathsTo, Whole
  <2>2. u \in Seq(Token) /\ u # << >> /\ Head(u) = "output" /\ Tail(u) = t
    BY <1>4
  <2> HIDE DEF u
  <2>3. \A is : Descend(Where("action", is, u)) = Where("o_output", is, t)
    BY <2>2, FromAction
  <2>4. QED
    BY <1>9, <1>12, <2>1, <2>2, <2>3
<1>13. QED
  BY <1>1, <1>5, <1>6, <1>7, <1>8, <1>10, <1>11, <1>12 DEF Listed

LEMMA BackTwo ==
    ASSUME NEW k \in Seq(Token), k # << >>, Tail(k) # << >>
    PROVE  /\ Tail(Tail(k)) \in Seq(Token)
           /\ k = <<Head(k), Head(Tail(k))>> \o Tail(Tail(k))
<1> DEFINE a == Head(k)
           u == Tail(k)
           b == Head(u)
           t == Tail(u)
<1>1. a \in Token /\ u \in Seq(Token) /\ k = <<a>> \o u /\ u # << >>
  BY TokenOff
<1> HIDE DEF a, u
<1>2. b \in Token /\ t \in Seq(Token) /\ u = <<b>> \o t
  BY <1>1, TokenOff
<1> HIDE DEF b, t
<1>3. <<a, b>> \o t = <<a>> \o (<<b>> \o t)
  BY <1>1, <1>2, TwoTokens
<1>4. k = <<a, b>> \o t
  BY <1>1, <1>2, <1>3
<1>5. QED
  BY <1>2, <1>4 DEF a, b, t, u

LEMMA BackThree ==
    ASSUME NEW k \in Seq(Token), k # << >>, Tail(k) # << >>, Len(Tail(k)) > 1
    PROVE  /\ Tail(Tail(Tail(k))) \in Seq(Token)
           /\ k = <<Head(k), Head(Tail(k)), Tail(k)[2]>> \o Tail(Tail(Tail(k)))
<1> DEFINE a == Head(k)
           u == Tail(k)
           b == Head(u)
           w == Tail(u)
           d == Head(w)
           t == Tail(w)
<1>1. a \in Token /\ u \in Seq(Token) /\ k = <<a>> \o u /\ u # << >> /\ Len(u) > 1
  BY TokenOff
<1> HIDE DEF a, u
<1>2. b \in Token /\ w \in Seq(Token) /\ u = <<b>> \o w
  BY <1>1, TokenOff
<1>3. Len(w) = Len(u) - 1 /\ (\A i \in 1..Len(w) : w[i] = u[i + 1]) /\ Len(u) \in Nat
  BY <1>1, HeadTailProperties
<1> HIDE DEF b, w
<1>4. w # << >> /\ w[1] = u[1 + 1]
  <2>1. 1 \in 1..Len(w)
    BY <1>1, <1>3
  <2>2. w[1] = u[1 + 1]
    BY <1>3, <2>1
  <2>3. w # << >>
    BY <2>1
  <2>4. QED
    BY <2>2, <2>3
<1>5. d = u[2]
  BY <1>2, <1>4
<1>6. d \in Token /\ t \in Seq(Token) /\ w = <<d>> \o t
  BY <1>2, <1>4, TokenOff
<1> HIDE DEF d, t
<1>7. Key3(a, b, d, t) = <<a>> \o (<<b>> \o (<<d>> \o t))
  <2>1. a \in Token /\ b \in Token /\ d \in Token /\ t \in Seq(Token)
    BY <1>1, <1>2, <1>6
  <2>2. QED
    BY <2>1, ThreeTokens
<1>8. k = Key3(a, b, d, t)
  BY <1>1, <1>2, <1>6, <1>7
<1>9. k = <<a, b, u[2]>> \o t
  BY <1>5, <1>8 DEF Key3
<1>10. QED
  BY <1>6, <1>9 DEF a, b, t, u, w

Many(p, many, t) == <<p, many>> \o t
One(p, one, i, t) == <<p, one, Digits[i]>> \o t

LEMMA PathsAre ==
    ASSUME NEW i, NEW t
    PROVE  /\ \A s \in Whole : PathsTo(s, i, t) = {<<s>> \o t}
           /\ PathsTo("t_input", i, t) = {Many("transparent", "inputs", t)}
           /\ PathsTo("t_output", i, t) = {Many("transparent", "outputs", t)}
           /\ PathsTo("s_spend", i, t)
                = {Many("sapling", "spends", t), One("sapling", "spend", i, t)}
           /\ PathsTo("s_output", i, t)
                = {Many("sapling", "outputs", t), One("sapling", "output", i, t)}
           /\ PathsTo("action", i, t)
                = {Many("orchard", "actions", t), One("orchard", "action", i, t)}
           /\ PathsTo("o_spend", i, t)
                = {Many("orchard", "actions", <<"spend">> \o t),
                   One("orchard", "action", i, <<"spend">> \o t)}
           /\ PathsTo("o_output", i, t)
                = {Many("orchard", "actions", <<"output">> \o t),
                   One("orchard", "action", i, <<"output">> \o t)}
BY DEF PathsTo, Whole, Many, One

Led(key, i, r) == r.rest \in Seq(Token) /\ key \in PathsTo(r.section, i, r.rest)

LEMMA LedAre ==
    ASSUME NEW key, NEW i, NEW is, NEW t \in Seq(Token)
    PROVE  /\ \A s \in Whole : key = <<s>> \o t => Led(key, i, Where(s, is, t))
           /\ key = Many("transparent", "inputs", t) => Led(key, i, Where("t_input", is, t))
           /\ key = Many("transparent", "outputs", t) => Led(key, i, Where("t_output", is, t))
           /\ key = Many("sapling", "spends", t) => Led(key, i, Where("s_spend", is, t))
           /\ key = One("sapling", "spend", i, t) => Led(key, i, Where("s_spend", is, t))
           /\ key = Many("sapling", "outputs", t) => Led(key, i, Where("s_output", is, t))
           /\ key = One("sapling", "output", i, t) => Led(key, i, Where("s_output", is, t))
           /\ \/ key = Many("orchard", "actions", t)
              \/ key = One("orchard", "action", i, t)
              => Led(key, i, Where("action", is, t))
           /\ \/ key = Many("orchard", "actions", <<"spend">> \o t)
              \/ key = One("orchard", "action", i, <<"spend">> \o t)
              => Led(key, i, Where("o_spend", is, t))
           /\ \/ key = Many("orchard", "actions", <<"output">> \o t)
              \/ key = One("orchard", "action", i, <<"output">> \o t)
              => Led(key, i, Where("o_output", is, t))
<1>1. \A s : Where(s, is, t).section = s /\ Where(s, is, t).rest = t
  BY DEF Where
<1>2. \A s : key \in PathsTo(s, i, t) => Led(key, i, Where(s, is, t))
  BY <1>1 DEF Led
<1>7. ASSUME NEW s \in Whole PROVE PathsTo(s, i, t) = {<<s>> \o t}
  BY <1>7 DEF PathsTo, Whole
<1>3. /\ PathsTo("t_input", i, t) = {Many("transparent", "inputs", t)}
      /\ PathsTo("t_output", i, t) = {Many("transparent", "outputs", t)}
      /\ PathsTo("s_spend", i, t)
           = {Many("sapling", "spends", t), One("sapling", "spend", i, t)}
      /\ PathsTo("s_output", i, t)
           = {Many("sapling", "outputs", t), One("sapling", "output", i, t)}
  BY PathsAre
<1>4. /\ PathsTo("action", i, t)
                = {Many("orchard", "actions", t), One("orchard", "action", i, t)}
           /\ PathsTo("o_spend", i, t)
                = {Many("orchard", "actions", <<"spend">> \o t),
                   One("orchard", "action", i, <<"spend">> \o t)}
           /\ PathsTo("o_output", i, t)
                = {Many("orchard", "actions", <<"output">> \o t),
                   One("orchard", "action", i, <<"output">> \o t)}
  BY PathsAre, Zenon
<1>5. \A s \in Whole : key = <<s>> \o t => Led(key, i, Where(s, is, t))
  BY <1>2, <1>7
<1>6. QED
  BY <1>2, <1>3, <1>4, <1>5

\* What the walk reached is what the key is a path to.
LEMMA LedByPath ==
    ASSUME NEW key \in Seq(Token), NEW r \in Reached(key), NEW i \in r.items,
           r.section \in Whole \cup Listed
    PROVE  /\ r.rest \in Seq(Token)
           /\ key \in PathsTo(r.section, i, r.rest)
<1> SUFFICES Led(key, i, r)
  BY DEF Led
<1> DEFINE u == Tail(key)
<1>1. key # << >> /\ Head(key) \in {"global", "sapling", "orchard", "transparent"}
  BY DEF Reached, Whole
<1>2. r = Descend(Descend(Where(Head(key), {0}, u)))
  BY <1>1, ReachedIs DEF Whole
<1>3. u \in Seq(Token) /\ key = <<Head(key)>> \o u
  BY <1>1, TokenOff
<1>4. \A s, is, t : /\ Where(s, is, t).section = s /\ Where(s, is, t).items = is
                    /\ Where(s, is, t).rest = t
  BY DEF Where
<1>5. u # << >> => /\ Tail(u) \in Seq(Token)
                   /\ key = Many(Head(key), Head(u), Tail(u))
  BY <1>1, BackTwo DEF Many
<1>6. ASSUME u # << >>, HasIndex(u), i \in Indexed(u)
      PROVE  /\ Tail(Tail(u)) \in Seq(Token)
             /\ key = One(Head(key), Head(u), i, Tail(Tail(u)))
  BY <1>1, <1>6, BackThree DEF One, HasIndex, Indexed
<1> HIDE DEF u
<1>12. u # << >> /\ HasIndex(u) => Tail(Tail(u)) \in Seq(Token)
  BY <1>1, BackThree DEF HasIndex, u
<1>7. CASE Head(key) = "global"
  <2>1. r = Where("global", {0}, u)
    BY <1>2, <1>7, FromEnds
  <2>2. QED
    BY <1>3, <1>4, <1>7, <2>1, LedAre DEF Whole
<1>8. CASE Head(key) = "transparent"
  <2>1. CASE u # << >> /\ Head(u) = "inputs"
    <3>1. r = Where("t_input", Item, Tail(u))
      BY <1>2, <1>8, <2>1, FromTransparent, FromEnds
    <3>2. QED
      BY <1>4, <1>5, <1>8, <2>1, <3>1, LedAre
  <2>2. CASE u # << >> /\ Head(u) = "outputs"
    <3>1. r = Where("t_output", Item, Tail(u))
      BY <1>2, <1>8, <2>2, FromTransparent, FromEnds
    <3>2. QED
      BY <1>4, <1>5, <1>8, <2>2, <3>1, LedAre
  <2>3. CASE ~(u # << >> /\ Head(u) \in {"inputs", "outputs"})
    <3>1. r = Where("transparent", {0}, u)
      BY <1>2, <1>8, <2>3, FromTransparent
    <3>2. QED
      BY <1>4, <3>1 DEF Whole, Listed
  <2>4. QED
    BY <2>1, <2>2, <2>3
<1>9. CASE Head(key) = "sapling"
  <2>1. CASE u # << >> /\ Head(u) = "spends"
    <3>1. r = Where("s_spend", Item, Tail(u))
      BY <1>2, <1>9, <2>1, FromSapling, FromEnds
    <3>2. QED
      BY <1>4, <1>5, <1>9, <2>1, <3>1, LedAre
  <2>2. CASE u # << >> /\ Head(u) = "outputs"
    <3>1. r = Where("s_output", Item, Tail(u))
      BY <1>2, <1>9, <2>2, FromSapling, FromEnds
    <3>2. QED
      BY <1>4, <1>5, <1>9, <2>2, <3>1, LedAre
  <2>3. CASE u # << >> /\ Head(u) = "spend" /\ HasIndex(u)
    <3>1. r = Where("s_spend", Indexed(u), Tail(Tail(u)))
      BY <1>2, <1>9, <2>3, FromSapling, FromEnds
    <3>2. i \in Indexed(u)
      BY <1>4, <3>1
    <3>3. key = One("sapling", "spend", i, Tail(Tail(u))) /\ Tail(Tail(u)) \in Seq(Token)
      BY <1>6, <1>9, <2>3, <3>2
    <3>4. QED
      BY <3>1, <3>3, LedAre
  <2>4. CASE u # << >> /\ Head(u) = "output" /\ HasIndex(u)
    <3>1. r = Where("s_output", Indexed(u), Tail(Tail(u)))
      BY <1>2, <1>9, <2>4, FromSapling, FromEnds
    <3>2. i \in Indexed(u)
      BY <1>4, <3>1
    <3>3. key = One("sapling", "output", i, Tail(Tail(u))) /\ Tail(Tail(u)) \in Seq(Token)
      BY <1>6, <1>9, <2>4, <3>2
    <3>4. QED
      BY <3>1, <3>3, LedAre
  <2>5. CASE /\ ~(u # << >> /\ Head(u) = "spends") /\ ~(u # << >> /\ Head(u) = "outputs")
             /\ ~(u # << >> /\ Head(u) = "spend" /\ HasIndex(u))
             /\ ~(u # << >> /\ Head(u) = "output" /\ HasIndex(u))
    <3>1. r = Where("sapling", {0}, u)
      BY <1>2, <1>9, <2>5, FromSapling
    <3>2. QED
      BY <1>3, <1>4, <1>9, <3>1, LedAre DEF Whole
  <2>6. QED
    BY <2>1, <2>2, <2>3, <2>4, <2>5
<1>10. CASE Head(key) = "orchard"
  <2>1. ASSUME NEW is, NEW t \in Seq(Token), r = Descend(Where("action", is, t)),
               i \in is => key \in {Many("orchard", "actions", t), One("orchard", "action", i, t)}
        PROVE  Led(key, i, r)
    <3>1. CASE t # << >> /\ Head(t) = "spend"
      <4>1. r = Where("o_spend", is, Tail(t))
        BY <2>1, <3>1, FromAction
      <4>2. Tail(t) \in Seq(Token) /\ t = <<"spend">> \o Tail(t)
        BY <3>1, TokenOff
      <4>3. QED
        <5> DEFINE w == Tail(t)
        <5> HIDE DEF w
        <5>1. w \in Seq(Token) /\ t = <<"spend">> \o w /\ r = Where("o_spend", is, w)
          BY <4>1, <4>2 DEF w
        <5>2. \/ key = Many("orchard", "actions", <<"spend">> \o w)
              \/ key = One("orchard", "action", i, <<"spend">> \o w)
          BY <1>4, <2>1, <5>1
        <5>3. QED
          BY <5>1, <5>2, LedAre
    <3>2. CASE t # << >> /\ Head(t) = "output"
      <4>1. r = Where("o_output", is, Tail(t))
        BY <2>1, <3>2, FromAction
      <4>2. Tail(t) \in Seq(Token) /\ t = <<"output">> \o Tail(t)
        BY <3>2, TokenOff
      <4>3. QED
        <5> DEFINE w == Tail(t)
        <5> HIDE DEF w
        <5>1. w \in Seq(Token) /\ t = <<"output">> \o w /\ r = Where("o_output", is, w)
          BY <4>1, <4>2 DEF w
        <5>2. \/ key = Many("orchard", "actions", <<"output">> \o w)
              \/ key = One("orchard", "action", i, <<"output">> \o w)
          BY <1>4, <2>1, <5>1
        <5>3. QED
          BY <5>1, <5>2, LedAre
    <3>3. CASE ~(t # << >> /\ Head(t) \in {"spend", "output"})
      <4>1. r = Where("action", is, t)
        BY <2>1, <3>3, FromAction
      <4>2. QED
        BY <1>4, <2>1, <4>1, LedAre
    <3>4. QED
      BY <3>1, <3>2, <3>3
  <2>2. CASE u # << >> /\ Head(u) = "actions"
    <3>1. r = Descend(Where("action", Item, Tail(u)))
      BY <1>2, <1>10, <2>2, FromOrchard
    <3>2. Tail(u) \in Seq(Token) /\ key = Many("orchard", "actions", Tail(u))
      BY <1>5, <1>10, <2>2
    <3>3. QED
      BY <2>1, <3>1, <3>2
  <2>3. CASE u # << >> /\ Head(u) = "action" /\ HasIndex(u)
    <3>1. r = Descend(Where("action", Indexed(u), Tail(Tail(u))))
      BY <1>2, <1>10, <2>3, FromOrchard
    <3>2. i \in Indexed(u) => key = One("orchard", "action", i, Tail(Tail(u)))
      BY <1>6, <1>10, <2>3
    <3>3. Tail(Tail(u)) \in Seq(Token)
      BY <1>12, <2>3
    <3>4. QED
      BY <2>1, <3>1, <3>2, <3>3
  <2>4. CASE /\ ~(u # << >> /\ Head(u) = "actions")
             /\ ~(u # << >> /\ Head(u) = "action" /\ HasIndex(u))
    <3>1. r = Where("orchard", {0}, u)
      BY <1>2, <1>10, <2>4, FromOrchard
    <3>2. QED
      BY <1>3, <1>4, <1>10, <3>1, LedAre DEF Whole
  <2>5. QED
    BY <2>2, <2>3, <2>4
<1>11. QED
  BY <1>1, <1>7, <1>8, <1>9, <1>10

LEMMA ValueParts ==
    ASSUME NEW v \in Value
    PROVE  /\ v.section \in Whole \cup Listed
           /\ v.item \in IF v.section \in Listed THEN Item ELSE {0}
           /\ <<v.field, v.key>> \in ValuesOf(v.section)
           /\ v.field \in Token /\ v.key \in Token
<1>1. v.field \in Token /\ v.key \in Token
  BY DEF Token
<1>2. PICK s \in Whole \cup Listed : \E i \in IF s \in Listed THEN Item ELSE {0} :
            \E w \in ValuesOf(s) : v = [section |-> s, item |-> i, field |-> w[1], key |-> w[2]]
  BY DEF Value
<1>3. PICK i \in IF s \in Listed THEN Item ELSE {0}, w \in ValuesOf(s) :
            v = [section |-> s, item |-> i, field |-> w[1], key |-> w[2]]
  BY <1>2
<1>4. w = <<w[1], w[2]>>
  <2>1. \A A, B : w \in A \X B => w = <<w[1], w[2]>>
    OBVIOUS
  <2>2. ASSUME w \in {<<f, "">> : f \in Plain[s]} PROVE w = <<w[1], w[2]>>
    <3>1. PICK f \in Plain[s] : w = <<f, "">>
      BY <2>2
    <3>2. w[1] = f /\ w[2] = ""
      BY <3>1
    <3>3. QED
      BY <3>1, <3>2
  <2>3. QED
    BY <2>1, <2>2 DEF ValuesOf
<1>5. v.section = s /\ v.item = i /\ v.field = w[1] /\ v.key = w[2]
  BY <1>3
<1>6. QED
  BY <1>1, <1>4, <1>5

LEMMA FieldIsNoStep ==
    ASSUME NEW v \in Value
    PROVE  v.field \notin Steps
<1>1. v.section \in Whole \cup Listed /\ <<v.field, v.key>> \in ValuesOf(v.section)
  BY ValueParts
<1>2. v.field \in Plain[v.section] \cup Maps(v.section) \cup Proprietary(v.section)
  BY <1>1 DEF ValuesOf
<1>3. Maps(v.section) \cap Steps = {} /\ Proprietary(v.section) \cap Steps = {}
  BY DEF Maps, Preimages, Proprietary, Steps
<1>4. Plain[v.section] \cap Steps = {}
  <2>1. \A s \in Whole \cup Listed : Plain[s] \cap Steps = {}
    BY DEF Plain, Shared, Whole, Listed, Steps
  <2>2. QED
    BY <1>1, <2>1
<1>5. QED
  BY <1>2, <1>3, <1>4

\* A value's key is that of a map or a name, or there is none.
LEMMA KeyOfValue ==
    ASSUME NEW v \in Value, v.key # "", v.field # "proprietary"
    PROVE  v.field \in Maps(v.section)
<1>1. <<v.field, v.key>> \in ValuesOf(v.section)
  BY ValueParts
<1>2. <<v.field, v.key>> \notin Proprietary(v.section) \X Name
  BY DEF Proprietary
<1>3. QED
  BY <1>1, <1>2 DEF ValuesOf

LEMMA OneOrTwo ==
    ASSUME NEW f \in Token, NEW k \in Token
    PROVE  /\ <<f>> \in Seq(Token) /\ <<f>> # << >> /\ Head(<<f>>) = f
           /\ <<f, k>> \in Seq(Token) /\ <<f, k>> # << >> /\ Head(<<f, k>>) = f
OBVIOUS

\* A key that names a value takes it out.
LEMMA NamedIsRemoved ==
    ASSUME NEW v \in Value, NEW key, Names(key, v), NEW r \in Reached(key)
    PROVE  v \in Removed(r)
<1> DEFINE f == v.field
           k == v.key
<1>1. /\ v.section \in Whole \cup Listed /\ f \in Token /\ k \in Token /\ f \notin Steps
      /\ v.item \in IF v.section \in Listed THEN Item ELSE {0}
  BY ValueParts, FieldIsNoStep
<1>2. PICK t \in {<<f>>, <<f, k>>} : key \in PathsTo(v.section, v.item, t)
  BY DEF Names, Paths, FullPaths
<1>3. t \in Seq(Token) /\ t # << >> /\ Head(t) = f
  BY <1>1, <1>2, OneOrTwo
<1>4. PICK is \in SUBSET (Item \cup {0}) : v.item \in is /\ Reached(key) = {Where(v.section, is, t)}
  <2> DEFINE s == v.section
             i == v.item
  <2>1. /\ s \in Whole \cup Listed /\ i \in IF s \in Listed THEN Item ELSE {0}
        /\ key \in PathsTo(s, i, t) /\ Head(t) \notin Steps
    BY <1>1, <1>2, <1>3
  <2> HIDE DEF s, i, f, k
  <2>2. \E is \in SUBSET (Item \cup {0}) : i \in is /\ Reached(key) = {Where(s, is, t)}
    BY <1>3, <2>1, PathsLead
  <2>3. QED
    BY <2>2 DEF s, i
<1>5. r.section = v.section /\ r.items = is /\ r.rest = t
  BY <1>4 DEF Where
<1>6. ASSUME NEW n \in DOMAIN t, n >= 2 PROVE t[n] = k
  BY <1>2, <1>6
<1>7. KeyFor(r, v) \subseteq {k}
  <2>1. MapKeyFor(r) \subseteq {k}
    BY <1>5, <1>6 DEF MapKeyFor
  <2>2. NameFor(r, v.item) \subseteq {k}
    <3> DEFINE before == {j \in ItemsOf(r) : j < v.item}
    <3>1. before \subseteq Item \cup {0}
      BY <1>5 DEF ItemsOf
    <3>2. IsFiniteSet(Item \cup {0})
      <4> DEFINE last == 2
      <4>1. Item \cup {0} \subseteq 0..last /\ 0 \in Int /\ last \in Int
        BY RedactAssumption DEF Item
      <4> HIDE DEF last
      <4>2. IsFiniteSet(0..last)
        BY <4>1, FS_Interval
      <4>3. QED
        BY <4>1, <4>2, FS_Subset
    <3>3. Cardinality(before) \in Nat
      BY <3>1, <3>2, FS_Subset, FS_CardinalityType
    <3> HIDE DEF before
    <3>4. NameFor(r, v.item) = {t[n] : n \in {2 + Cardinality(before)} \cap DOMAIN t}
      BY <1>5 DEF NameFor, before
    <3>5. 2 + Cardinality(before) >= 2
      BY <3>3
    <3>6. QED
      BY <1>6, <3>4, <3>5
  <2>3. QED
    BY <2>1, <2>2 DEF KeyFor
<1>8. QED
  BY <1>3, <1>4, <1>5, <1>7 DEF Removed, ItemsOf

\* The beginning of a path is the path to a beginning.
LEMMA FirstOfToken ==
    ASSUME NEW a \in Token, NEW t \in Seq(Token), NEW n \in 1..Len(t)
    PROVE  /\ n + 1 \in 1..Len(<<a>> \o t) /\ FirstOf(t, n) \in Seq(Token)
           /\ FirstOf(<<a>> \o t, n + 1) = <<a>> \o FirstOf(t, n)
<1> DEFINE k == <<a>> \o t
           b == FirstOf(t, n)
           l == <<a>> \o b
           c == FirstOf(k, n + 1)
<1>1. Len(t) \in Nat /\ n \in Nat /\ n <= Len(t)
  OBVIOUS
<1>2. b \in [1..n -> Token]
  BY <1>1 DEF FirstOf
<1>3. b \in Seq(Token) /\ Len(b) = n /\ \A j \in 1..n : b[j] = t[j]
  <2>1. b \in Seq(Token) /\ Len(b) = n
    BY <1>1, <1>2
  <2>2. QED
    BY <2>1 DEF FirstOf
<1> HIDE DEF b
<1>4. /\ k \in Seq(Token) /\ k # << >> /\ Head(k) = a /\ Tail(k) = t /\ Len(k) = Len(t) + 1
      /\ l \in Seq(Token) /\ l # << >> /\ Head(l) = a /\ Tail(l) = b /\ Len(l) = n + 1
  BY <1>3, TokenFirst
<1> HIDE DEF k, l
<1>5. /\ k[1] = a /\ l[1] = a
      /\ \A j \in 1..Len(t) : k[j + 1] = t[j]
      /\ \A j \in 1..n : l[j + 1] = b[j]
  <2>1. ASSUME NEW x \in Seq(Token), x # << >>
        PROVE  x[1] = Head(x) /\ \A j \in 1..Len(Tail(x)) : Tail(x)[j] = x[j + 1]
    BY <2>1, HeadTailProperties
  <2>2. k[1] = a /\ \A j \in 1..Len(t) : k[j + 1] = t[j]
    BY <1>4, <2>1
  <2>3. l[1] = a /\ \A j \in 1..n : l[j + 1] = b[j]
    BY <1>3, <1>4, <2>1
  <2>4. QED
    BY <2>2, <2>3
<1>6. c \in [1..(n + 1) -> Token]
  BY <1>1, <1>4 DEF FirstOf
<1>7. c \in Seq(Token) /\ Len(c) = n + 1
  BY <1>1, <1>6
<1>8. \A j \in 1..(n + 1) : c[j] = k[j]
  BY DEF FirstOf
<1>9. ASSUME NEW j \in 1..(n + 1) PROVE c[j] = l[j]
  <2>1. CASE j = 1
    BY <1>1, <1>5, <1>8, <2>1
  <2>2. CASE j # 1
    <3>1. j - 1 \in 1..n /\ j - 1 \in 1..Len(t) /\ (j - 1) + 1 = j
      BY <1>1, <2>2
    <3>2. k[(j - 1) + 1] = t[j - 1] /\ l[(j - 1) + 1] = b[j - 1] /\ b[j - 1] = t[j - 1]
      BY <1>3, <1>5, <3>1
    <3>3. QED
      BY <1>8, <3>1, <3>2
  <2>3. QED
    BY <2>1, <2>2
<1> HIDE DEF c
<1>10. c = l
  BY <1>4, <1>7, <1>9, SeqEqual
<1>11. QED
  BY <1>1, <1>3, <1>4, <1>10 DEF b, c, k, l

Begins(b, k) == \E n \in 1..Len(k) : b = FirstOf(k, n)

LEMMA BeginsWith ==
    ASSUME NEW a \in Token, NEW t \in Seq(Token), NEW b, Begins(b, t)
    PROVE  b \in Seq(Token) /\ Begins(<<a>> \o b, <<a>> \o t)
BY FirstOfToken DEF Begins

LEMMA PathBegins ==
    ASSUME NEW s \in Whole \cup Listed, NEW i \in IF s \in Listed THEN Item ELSE {0},
           NEW t \in Seq(Token), NEW b, Begins(b, t), NEW key \in PathsTo(s, i, t)
    PROVE  \E p \in PathsTo(s, i, b) : Begins(p, key)
<1>1. b \in Seq(Token)
  <2>1. \E a \in Token : TRUE
    BY DEF Token, Whole
  <2>2. QED
    BY <2>1, BeginsWith
<1>2. Whole \subseteq Token /\ {"transparent"} \subseteq Token /\ Steps \subseteq Token
  BY DEF Token
<1>3. ASSUME NEW p \in Token, NEW q \in Token, NEW u \in Seq(Token), NEW c, Begins(c, u)
      PROVE  Begins(Many(p, q, c), Many(p, q, u))
  <2>1. c \in Seq(Token) /\ Begins(<<q>> \o c, <<q>> \o u)
    BY <1>3, BeginsWith
  <2>2. <<q>> \o u \in Seq(Token)
    BY TokenFirst
  <2>3. Begins(<<p>> \o (<<q>> \o c), <<p>> \o (<<q>> \o u))
    BY <2>1, <2>2, BeginsWith
  <2>4. Many(p, q, c) = <<p>> \o (<<q>> \o c) /\ Many(p, q, u) = <<p>> \o (<<q>> \o u)
    BY <2>1, TwoTokens DEF Many
  <2>5. QED
    BY <2>3, <2>4
<1>4. ASSUME NEW p \in Token, NEW q \in Token, NEW u \in Seq(Token), NEW c, Begins(c, u), i \in Item
      PROVE  Begins(One(p, q, i, c), One(p, q, i, u))
  <2> DEFINE d == Digits[i]
  <2>1. d \in Token
    BY <1>4, DigitsType
  <2> HIDE DEF d
  <2>2. c \in Seq(Token) /\ Begins(<<d>> \o c, <<d>> \o u) /\ <<d>> \o u \in Seq(Token)
    BY <1>4, <2>1, BeginsWith, TokenFirst
  <2>3. /\ Begins(<<q>> \o (<<d>> \o c), <<q>> \o (<<d>> \o u))
        /\ <<q>> \o (<<d>> \o u) \in Seq(Token)
    BY <2>2, BeginsWith, TokenFirst
  <2>4. Begins(<<p>> \o (<<q>> \o (<<d>> \o c)), <<p>> \o (<<q>> \o (<<d>> \o u)))
    BY <2>3, BeginsWith
  <2>5. Key3(p, q, d, c) = <<p>> \o (<<q>> \o (<<d>> \o c))
    <3>1. c \in Seq(Token)
      BY <2>2
    <3>2. QED
      BY <2>1, <3>1, ThreeTokens
  <2>6. Key3(p, q, d, u) = <<p>> \o (<<q>> \o (<<d>> \o u))
    BY <2>1, ThreeTokens
  <2>7. Begins(Key3(p, q, d, c), Key3(p, q, d, u))
    BY <2>4, <2>5, <2>6
  <2>8. QED
    BY <2>7 DEF One, Key3, d
<1>5. CASE s \in Whole
  <2>1. PathsTo(s, i, t) = {<<s>> \o t} /\ PathsTo(s, i, b) = {<<s>> \o b}
    BY <1>5 DEF PathsTo, Whole
  <2>2. Begins(<<s>> \o b, <<s>> \o t)
    BY <1>2, <1>5, BeginsWith
  <2>3. QED
    BY <2>1, <2>2
<1>6. {"transparent", "sapling", "orchard", "inputs", "outputs", "spends", "spend",
        "output", "actions", "action"} \subseteq Token
  BY <1>2 DEF Whole, Steps
<1>7. CASE s \in {"t_input", "t_output"}
  BY <1>3, <1>6, <1>7, PathsAre
<1>8. i \in Item \/ s \in Whole
  BY DEF Listed
<1>9. CASE s \in {"s_spend", "s_output"} /\ i \in Item
  BY <1>3, <1>4, <1>6, <1>9, PathsAre
<1>10. CASE s = "action" /\ i \in Item
  BY <1>3, <1>4, <1>6, <1>10, PathsAre
<1>11. ASSUME NEW o \in {"spend", "output"}
       PROVE <<o>> \o t \in Seq(Token) /\ Begins(<<o>> \o b, <<o>> \o t)
  BY <1>6, TokenFirst, BeginsWith
<1>12. ASSUME s \in {"o_spend", "o_output"}, i \in Item
       PROVE  \E p \in PathsTo(s, i, b) : Begins(p, key)
  <2>1. PICK o \in {"spend", "output"} : 
            \A u : PathsTo(s, i, u) = {Many("orchard", "actions", <<o>> \o u),
                                     One("orchard", "action", i, <<o>> \o u)}
    BY <1>12, PathsAre
  <2> DEFINE c == <<o>> \o b
             u == <<o>> \o t
  <2>2. u \in Seq(Token) /\ Begins(c, u)
    BY <1>11
  <2>3. /\ PathsTo(s, i, t) = {Many("orchard", "actions", u), One("orchard", "action", i, u)}
        /\ PathsTo(s, i, b) = {Many("orchard", "actions", c), One("orchard", "action", i, c)}
    BY <2>1
  <2> HIDE DEF c, u
  <2>4. Begins(Many("orchard", "actions", c), Many("orchard", "actions", u))
    BY <1>3, <1>6, <2>2
  <2>5. Begins(One("orchard", "action", i, c), One("orchard", "action", i, u))
    BY <1>4, <1>6, <1>12, <2>2
  <2>6. QED
    BY <2>3, <2>4, <2>5
<1>13. QED
  BY <1>5, <1>7, <1>8, <1>9, <1>10, <1>12 DEF Whole, Listed

\* What a key takes out lies on its way, but for proprietary fields.
LEMMA RemovedIsCovered ==
    ASSUME NEW key \in Seq(Token), NEW r \in Reached(key), Redactable(r),
           NEW v \in Removed(r), v.field # "proprietary"
    PROVE  Covers(key, v)
<1> DEFINE t == r.rest
           s == v.section
           i == v.item
           f == v.field
           k == v.key
<1>1. v \in Value /\ s = r.section /\ i \in r.items /\ f = Head(t)
  BY DEF Removed, ItemsOf
<1>2. /\ s \in Whole \cup Listed /\ f \in Token /\ k \in Token
      /\ i \in IF s \in Listed THEN Item ELSE {0}
  BY <1>1, ValueParts
<1>3. t \in Seq(Token) /\ key \in PathsTo(s, i, t)
  BY <1>1, <1>2, LedByPath DEF Led
<1>4. t # << >>
  BY DEF Redactable
<1>5. FullPaths(v) = PathsTo(s, i, IF k = "" THEN <<f>> ELSE <<f, k>>)
  BY DEF FullPaths
<1>6. Paths(v) = FullPaths(v) \cup PathsTo(s, i, <<f>>)
  BY DEF Paths
<1>7. f \in Maps(s) /\ Len(t) > 1 => k = t[2]
  <2>1. ASSUME f \in Maps(s), Len(t) > 1 PROVE k = t[2]
    <3>1. KeyFor(r, v) = MapKeyFor(r)
      BY <1>1, <2>1 DEF KeyFor
    <3>2. 2 \in DOMAIN t
      BY <1>3, <2>1
    <3>3. MapKeyFor(r) = {t[2]}
      BY <3>2 DEF MapKeyFor
    <3>4. QED
      BY <3>1, <3>3 DEF Removed
  <2>2. QED
    BY <2>1
<1>8. k # "" => f \in Maps(s)
  BY <1>1, KeyOfValue
<1> HIDE DEF t, s, i, f, k
<1>9. t[1] = f /\ Len(t) \in Nat /\ Len(t) >= 1
  BY <1>1, <1>3, <1>4
<1>10. CASE Len(t) = 1
  <2>1. t = <<f>>
    BY <1>3, <1>9, <1>10
  <2>2. QED
    BY <1>3, <1>6, <2>1 DEF Covers, Names
<1>11. ASSUME NEW n \in 1..Len(t), FirstOf(t, n) = IF k = "" THEN <<f>> ELSE <<f, k>>
       PROVE  Covers(key, v)
  <2> DEFINE b == FirstOf(t, n)
  <2>1. Begins(b, t)
    BY DEF Begins
  <2> HIDE DEF b
  <2>2. PICK p \in PathsTo(s, i, b) : Begins(p, key)
    BY <1>2, <1>3, <2>1, PathBegins
  <2>3. PICK m \in 1..Len(key) : p = FirstOf(key, m)
    BY <2>2 DEF Begins
  <2>4. PathsTo(s, i, b) = FullPaths(v)
    BY <1>5, <1>11 DEF b
  <2>5. QED
    BY <2>2, <2>3, <2>4 DEF Covers
<1>12. CASE Len(t) # 1
  <2>1. 1 \in 1..Len(t) /\ 2 \in 1..Len(t) /\ Len(t) > 1
    <3> DEFINE N == Len(t)
    <3>1. N \in Nat /\ N >= 1 /\ N # 1
      BY <1>9, <1>12
    <3> HIDE DEF N
    <3>2. 1 \in 1..N /\ 2 \in 1..N /\ N > 1
      BY <3>1
    <3>3. QED
      BY <3>2 DEF N
  <2>2. FirstOf(t, 1) = <<f>>
    BY <1>9 DEF FirstOf
  <2>3. k # "" => FirstOf(t, 2) = <<f, k>>
    <3>1. k # "" => t[2] = k
      BY <1>7, <1>8, <2>1
    <3>2. FirstOf(t, 2) = <<t[1], t[2]>>
      BY DEF FirstOf
    <3>3. QED
      BY <1>9, <3>1, <3>2
  <2>4. QED
    BY <1>11, <2>1, <2>2, <2>3
<1>13. QED
  BY <1>10, <1>12

\* What a key named that was taken is gone, and nothing else went on its way.
RedactInv ==
    /\ RedactTypeOK
    /\ keys \in Seq(Seq(STRING))
    /\ redactor = "ready" => taken = 0
    /\ redactor = "written" => taken = Len(keys)
    /\ \A n \in 1..taken, v \in Value : Names(keys[n], v) => v \notin pczt
    /\ redactor # "failed" =>
        \A v \in Value \ pczt :
            v.field # "proprietary" => \E n \in 1..taken : Covers(keys[n], v)

LEMMA InitRedactInv ==
    ASSUME InitRedact \/ IdleRedact
    PROVE  RedactInv
<1>0. \A S : << >> \in Seq(S) /\ Len(<< >>) = 0
  OBVIOUS
<1>1. keys \in Seq(Seq(STRING)) /\ Len(keys) = 0 /\ taken = 0 /\ taken \in 0..Len(keys)
  <2>1. keys = << >> /\ taken = 0
    BY DEF InitRedact, IdleRedact
  <2> DEFINE T == Seq(STRING)
  <2>2. keys \in Seq(T) /\ Len(keys) = 0
    <3> HIDE DEF T
    <3>1. QED
      BY <1>0, <2>1
  <2>3. QED
    BY <2>1, <2>2
<1>2. 1..taken = {}
  BY <1>1
<1>3. \/ pczt = Value /\ redactor = "ready"
      \/ pczt = {} /\ redactor = "failed"
  BY DEF InitRedact, IdleRedact
<1>4. QED
  BY <1>1, <1>2, <1>3 DEF RedactInv, RedactTypeOK

LEMMA RedactStepInv ==
    ASSUME RedactInv, [RedactStep]_redactVars
    PROVE  RedactInv'
<1> USE DEF RedactInv, RedactTypeOK
<1>1. taken \in Nat /\ Len(keys) \in Nat
  OBVIOUS
<1>2. CASE BeginRedact
  <2>1. keys' \in KeyList /\ redactor = "ready" /\ redactor' = "folding" /\ pczt' = pczt
        /\ taken' = taken /\ taken = 0
    BY <1>2 DEF BeginRedact
  <2>2. keys' \in Seq(Seq(STRING))
    BY <2>1, RedactAssumption
  <2>3. Len(keys') \in Nat
    BY <2>2
  <2>4. 1..taken = {}
    BY <2>1
  <2>5. QED
    BY <2>1, <2>2, <2>3, <2>4
<1>3. CASE RedactKey
  <2> DEFINE key == keys[taken + 1]
  <2>1. /\ redactor = "folding" /\ taken < Len(keys) /\ taken' = taken + 1
        /\ keys' = keys /\ redactor' = redactor
    BY <1>3 DEF RedactKey
  <2>2. PICK r \in Reached(key) : Redactable(r) /\ pczt' = pczt \ Removed(r)
    BY <1>3 DEF RedactKey
  <2>3. taken + 1 \in 1..Len(keys) /\ key \in Seq(STRING)
    BY <1>1, <2>1
  <2>4. key \in Seq(Token)
    BY <2>3 DEF Token
  <2>5. \A v \in Value : Names(key, v) => v \notin pczt'
    BY <2>2, NamedIsRemoved
  <2>6. \A v \in Removed(r) : v.field # "proprietary" => Covers(key, v)
    BY <2>2, <2>4, RemovedIsCovered
  <2>7. 1..taken' = 1..taken \cup {taken + 1}
    BY <1>1, <2>1
  <2>8. pczt' \subseteq pczt
    BY <2>2
  <2>9. \A n \in 1..taken', v \in Value : Names(keys'[n], v) => v \notin pczt'
    <3> TAKE n \in 1..taken', v \in Value
    <3> HAVE Names(keys'[n], v)
    <3>1. CASE n \in 1..taken
      BY <2>1, <2>8, <3>1
    <3>2. CASE n = taken + 1
      BY <2>1, <2>5, <3>2
    <3>3. QED
      BY <2>7, <3>1, <3>2
  <2>10. \A v \in Value \ pczt' :
            v.field # "proprietary" => \E n \in 1..taken' : Covers(keys'[n], v)
    <3> TAKE v \in Value \ pczt'
    <3> HAVE v.field # "proprietary"
    <3>1. CASE v \in pczt
      <4>1. Covers(key, v)
        BY <2>2, <2>6, <3>1
      <4>2. QED
        BY <2>1, <2>7, <4>1
    <3>2. CASE v \notin pczt
      BY <2>1, <2>7, <3>2
    <3>3. QED
      BY <3>1, <3>2
  <2>11. pczt' \subseteq Value /\ taken' \in 0..Len(keys')
    BY <1>1, <2>1, <2>8
  <2>12. QED
    BY <2>1, <2>9, <2>10, <2>11
<1>4. CASE FailKey
  BY <1>4 DEF FailKey
<1>5. CASE WriteRedacted
  BY <1>5 DEF WriteRedacted
<1>6. CASE UNCHANGED redactVars
  BY <1>6 DEF redactVars
<1>7. QED
  BY <1>2, <1>3, <1>4, <1>5, <1>6 DEF RedactStep

LEMMA RedactInvSafe ==
    ASSUME RedactInv
    PROVE  NamedAreGone /\ OtherFieldsStay
<1>1. ASSUME redactor = "written" PROVE DOMAIN keys = 1..taken
  BY <1>1 DEF RedactInv, RedactTypeOK
<1>2. NamedAreGone
  BY <1>1 DEF RedactInv, NamedAreGone, Named
<1>3. OtherFieldsStay
  BY <1>1 DEF RedactInv, OtherFieldsStay, Covered
<1>4. QED
  BY <1>2, <1>3

-----------------------------------------------------------------------------
(* One run of the program. *)

IInv ==
    /\ command \in Command
    /\ TreeInv /\ QrInv /\ RedactInv /\ PayInv /\ DefragInv

\* The run begins with every command's part as its own module says, or idle.
LEMMA InitIInv == Init => IInv
<1> SUFFICES ASSUME Init PROVE IInv
  OBVIOUS
<1>1. command \in Command /\ InitQr
  BY DEF Init
<1>2. TreeInv
  BY InitTreeInv DEF Init
<1>3. RedactInv
  BY InitRedactInv DEF Init
<1>4. PayInv
  BY InitPayInv DEF Init
<1>5. DefragInv
  BY InitDefragInv DEF Init
<1>6. QED
  BY <1>1, <1>2, <1>3, <1>4, <1>5, InitQrInv DEF IInv

\* In a step one command's part moves, and the others stay.
LEMMA OneMoves ==
    ASSUME [Next]_vars
    PROVE  /\ command' = command
           /\ [TreeStep]_treeVars /\ [QrStep]_qrVars /\ [RedactStep]_redactVars
           /\ [PayStep]_payVars /\ [DefragStep]_defragVars
<1>1. CASE UNCHANGED vars
  BY <1>1 DEF vars
<1>2. CASE Next
  BY <1>2 DEF Next
<1>3. QED
  BY <1>1, <1>2

LEMMA IInvStep == IInv /\ [Next]_vars => IInv'
<1> SUFFICES ASSUME IInv, [Next]_vars PROVE IInv'
  OBVIOUS
<1>1. /\ command' = command
      /\ [TreeStep]_treeVars /\ [QrStep]_qrVars /\ [RedactStep]_redactVars
      /\ [PayStep]_payVars /\ [DefragStep]_defragVars
  BY OneMoves
<1>2. TreeInv'
  BY <1>1, TreeStepInv DEF IInv
<1>3. QrInv'
  BY <1>1, QrStepInv DEF IInv
<1>4. RedactInv'
  BY <1>1, RedactStepInv DEF IInv
<1>5. PayInv'
  BY <1>1, PayStepInv DEF IInv
<1>6. DefragInv'
  BY <1>1, DefragStepInv DEF IInv
<1>7. QED
  BY <1>1, <1>2, <1>3, <1>4, <1>5, <1>6 DEF IInv

LEMMA AlwaysIInv == Spec => []IInv
BY InitIInv, IInvStep, PTL DEF Spec

LEMMA IInvSafe ==
    ASSUME IInv
    PROVE  /\ TypeOK /\ DrawnInPlace /\ BoundariesExact /\ DeliversWhatWasShown
           /\ NamedAreGone /\ OtherFieldsStay /\ AddressesOnTheirOutputs
           /\ EntriesAreQueue /\ RangesAreShown
<1>1. DrawnInPlace /\ BoundariesExact /\ TreeTypeOK
  BY TreeInvSafe DEF IInv, TreeInv
<1>2. DeliversWhatWasShown /\ QrTypeOK
  BY DEF IInv, QrInv
<1>3. NamedAreGone /\ OtherFieldsStay /\ RedactTypeOK
  BY RedactInvSafe DEF IInv, RedactInv
<1>4. /\ AddressesOnTheirOutputs
      /\ tagged \in 0..Len(recipients) /\ maker \in {"ready", "tagging", "written", "failed"}
  BY PayInvSafe DEF IInv, PayInv
<1>5. EntriesAreQueue /\ RangesAreShown /\ DefragTypeOK
  BY DefragInvQueue, DefragInvShown DEF IInv, DefragInv
<1>6. QED
  BY <1>1, <1>2, <1>3, <1>4, <1>5 DEF IInv, TypeOK

\* Whatever the command and its inputs, its part keeps its type (main.rs).
THEOREM TypeCorrect == Spec => []TypeOK
BY AlwaysIInv, IInvSafe, PTL

\* The region that explore.rs draws is a picture of the tree: each node has one place,
\* those of a level stand in their order and parents above children, for trees of every
\* height and wherever the user walked.
THEOREM RegionInPlace == Spec => []DrawnInPlace
BY AlwaysIInv, IInvSafe, PTL

\* A boundary that explore.rs draws after a node is where a block that brought notes
\* ended, and names that block, whatever the sizes of the tree were.
THEOREM BlocksEndAtBoundaries == Spec => []BoundariesExact
BY AlwaysIInv, IInvSafe, PTL

\* Moves in explore.rs never lead off a tree that does not change, and the region shown
\* is that of the node the next key moves from.
THEOREM WalkStays == Spec => WalkStaysHere
<1>1. ASSUME IInv, [Next]_vars
      PROVE  [changes' = 0 /\ address \in tree =>
                 /\ address' \in tree'
                 /\ explorer' = "walking" /\ ~reload' => shownAt' = address']_treeVars
  <2>1. [TreeStep]_treeVars /\ TreeTypeOK
    BY <1>1, OneMoves DEF IInv, TreeInv
  <2>2. CASE UNCHANGED treeVars
    BY <2>2
  <2>3. CASE TreeStep
    BY <2>1, <2>3, WalkStaysHereStep
  <2>4. QED
    BY <2>1, <2>2, <2>3
<1>2. QED
  BY <1>1, AlwaysIInv, PTL DEF Spec, WalkStaysHere

\* What from-qr writes is one transaction, each fragment of it worked out from parts of
\* that one alone, in whatever order and mixture the camera caught them and whatever else
\* was on the screen, for any number of fragments and messages; and it can be read.
THEOREM QrDelivers == Spec => []DeliversWhatWasShown
BY AlwaysIInv, IInvSafe, PTL

\* redact.rs: nothing that one of the user's keys names is left in the transaction that
\* is written, for every list of keys there is.
THEOREM RedactsWhatIsNamed == Spec => []NamedAreGone
BY AlwaysIInv, IInvSafe, PTL

\* redact.rs: a field that is not proprietary and that no key names or passes is still in
\* the transaction that is written.
THEOREM RedactsOnlyTheNamed == Spec => []OtherFieldsStay
BY AlwaysIInv, IInvSafe, PTL

\* pay_manual.rs records every address on the output that pays it, for every list of
\* recipients and however they fall into pools.
THEOREM AddressesInPlace == Spec => []AddressesOnTheirOutputs
BY AlwaysIInv, IInvSafe, PTL

\* The entries that defrag.rs keeps of the ranges sync reports say of every height what
\* the wallet's queue says of it.
THEOREM EntriesShowQueue == Spec => []EntriesAreQueue
BY AlwaysIInv, IInvSafe, PTL

\* On a screen of any size, defrag.rs draws every height in one cell and hides no range.
THEOREM ScreenShowsRanges == Spec => []RangesAreShown
BY AlwaysIInv, IInvSafe, PTL
=============================================================================
