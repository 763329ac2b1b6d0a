------------------------ MODULE LedgerJournalProofs --------------------------
(***************************************************************************)
(* The ledger over the text of its journal implements RedemptionLedger,    *)
(* for any redemptions, targets, share values and failures of writes.      *)
(***************************************************************************)
EXTENDS LedgerJournal, SequenceTheorems, Sums, TLAPS

\* What is proved about RedemptionLedger.
L == INSTANCE RedemptionLedgerProofs WITH
    file <- ReplayLines(Front(text)),
    tail <- Parse(Last(text)),
    unreadable <- ~IsUtf8(text)

\* What is written to the file, and what its lines parse to.
Bits == Records \cup {Piece, CutPiece}
Parsed == Records \cup {NoTail, Torn}

\* A text has a last line, if an empty one.
Texts == {t \in Seq(Seq(Bits)) : t # <<>>}

\* The books lines can replay to: order lists each known redemption once.
Orderly(b) ==
    /\ \A id \in Ids : Knows(b, id) <=> \E i \in 1 .. Len(b.order) : b.order[i] = id
    /\ \A i, j \in 1 .. Len(b.order) : b.order[i] = b.order[j] => i = j

Books == {b \in Book : Orderly(b)}

-----------------------------------------------------------------------------
\* Parsing.

\* A line is a record, nothing or torn.
LEMMA ParseTyped == ASSUME NEW line \in Seq(Bits) PROVE Parse(line) \in Parsed
<1>1. CASE line = <<>> \/ ~(Len(line) = 1 /\ line[1].op \in {"open", "credit"})
  BY <1>1 DEF Parse, Parsed
<1>2. CASE line # <<>> /\ Len(line) = 1 /\ line[1].op \in {"open", "credit"}
  <2>1. line[1] \in Bits
    BY <1>2
  <2>2. line[1] # Piece /\ line[1] # CutPiece
    BY <1>2 DEF Piece, CutPiece
  <2>3. line[1] \in Records
    BY <2>1, <2>2 DEF Bits
  <2> QED BY <1>2, <2>3 DEF Parse, Parsed
<1> QED BY <1>1, <1>2

\* What a line reads as when bytes were added to it.
LEMMA ParseWritten ==
    ASSUME NEW line \in Seq(Bits)
    PROVE  /\ Parse(line) = NoTail <=> line = <<>>
           /\ \A rec \in Records :
                 Parse(line \o <<rec>>) = IF line = <<>> THEN rec ELSE Torn
           /\ Parse(line \o <<Piece>>) = Torn /\ Parse(line \o <<CutPiece>>) = Torn
<1>1. Parse(<<>>) = NoTail
  BY DEF Parse
<1>2. line # <<>> => Parse(line) # NoTail
  <2>1. \A rec \in Records : rec # NoTail
    BY DEF Records, NoTail
  <2>2. Torn # NoTail
    BY DEF Torn, NoTail
  <2>3. CASE Len(line) = 1 /\ line[1].op \in {"open", "credit"}
    <3>1. SUFFICES ASSUME line # <<>> PROVE line[1] # NoTail
      BY <2>3 DEF Parse
    <3> QED BY <2>3 DEF NoTail
  <2>4. CASE ~(Len(line) = 1 /\ line[1].op \in {"open", "credit"})
    BY <2>2, <2>4 DEF Parse
  <2> QED BY <2>3, <2>4
<1>3. ASSUME NEW x
      PROVE  Parse(line \o <<x>>) = IF line = <<>> /\ x.op \in {"open", "credit"}
                                    THEN x ELSE Torn
  <2> DEFINE l == line \o <<x>>
  <2>1. l # <<>> /\ Len(l) = Len(line) + 1
    OBVIOUS
  <2>2. line = <<>> => Len(l) = 1 /\ l[1] = x
    OBVIOUS
  <2>3. line # <<>> => Len(l) # 1
    OBVIOUS
  <2> HIDE DEF l
  <2>4. Parse(l) = IF line = <<>> /\ x.op \in {"open", "credit"} THEN x ELSE Torn
    BY <2>1, <2>2, <2>3 DEF Parse
  <2> QED BY <2>4 DEF l
<1>4. \A rec \in Records : rec.op \in {"open", "credit"}
  BY DEF Records
<1>5. Piece.op \notin {"open", "credit"} /\ CutPiece.op \notin {"open", "credit"}
  BY DEF Piece, CutPiece
<1> QED BY <1>1, <1>2, <1>3, <1>4, <1>5

-----------------------------------------------------------------------------
\* Replaying a line.

\* A new redemption comes last in the order.
LEMMA OpenOrderly ==
    ASSUME NEW b \in Books, NEW id \in Ids, ~Knows(b, id)
    PROVE  OpenIn(b, id) \in Books
<1> DEFINE n == Len(b.order)
           q == Append(b.order, id)
<1>1. b \in Book /\ Orderly(b) /\ b.order \in Seq(Ids) /\ n \in Nat
  BY DEF Books, Book
<1>2. OpenIn(b, id) = [of |-> [b.of EXCEPT ![id] = New], order |-> q]
  BY DEF OpenIn
<1>3. OpenIn(b, id) \in Book
  BY <1>1 DEF OpenIn, Book, New, Redemption, States
<1>4. \A x \in Ids : Knows(OpenIn(b, id), x) <=> Knows(b, x) \/ x = id
  BY <1>1, <1>2 DEF Knows, Book, New, Redemption
<1>5. Len(q) = n + 1 /\ q[n + 1] = id /\ \A i \in 1 .. n : q[i] = b.order[i]
  BY <1>1
<1>6. /\ \A x \in Ids : Knows(b, x) <=> \E i \in 1 .. n : b.order[i] = x
      /\ \A i, j \in 1 .. n : b.order[i] = b.order[j] => i = j
  BY <1>1 DEF Orderly
<1> HIDE DEF n, q
<1>7. \A i \in 1 .. n : q[i] # id
  BY <1>5, <1>6
<1>8. \A x \in Ids : Knows(OpenIn(b, id), x) <=> \E i \in 1 .. n + 1 : q[i] = x
  <2>1. \A i : i \in 1 .. n + 1 <=> i \in 1 .. n \/ i = n + 1
    BY <1>1
  <2> QED BY <1>4, <1>5, <1>6, <2>1
<1>9. \A i, j \in 1 .. n + 1 : q[i] = q[j] => i = j
  <2>1. \A i \in 1 .. n + 1 : i \in 1 .. n \/ i = n + 1
    BY <1>1
  <2> QED BY <1>5, <1>6, <1>7, <2>1
<1>10. Orderly(OpenIn(b, id))
  <2>1. OpenIn(b, id).order = q
    BY <1>2
  <2> QED BY <1>5, <1>8, <1>9, <2>1 DEF Orderly
<1> QED BY <1>3, <1>10 DEF Books

\* A credit leaves the order.
LEMMA CreditOrderly ==
    ASSUME NEW b \in Books, NEW id \in Ids, Knows(b, id), NEW h \in Nat
    PROVE  CreditIn(b, id, h) \in Books
<1>1. b \in Book /\ Orderly(b)
  BY DEF Books
<1> DEFINE r == CreditHashes(id, b.of[id], h)
<1>2. r \in Redemption /\ r.state # "Absent"
  BY <1>1 DEF CreditHashes, Redemption, States, Book, Knows
<1> HIDE DEF r
<1>3. CreditIn(b, id, h) = [of |-> [b.of EXCEPT ![id] = r], order |-> b.order]
  BY DEF CreditIn, r
<1>4. CreditIn(b, id, h) \in Book
  BY <1>1, <1>2, <1>3 DEF Book
<1>5. \A x \in Ids : Knows(CreditIn(b, id, h), x) <=> Knows(b, x)
  BY <1>1, <1>2, <1>3 DEF Knows, Book
<1>6. Orderly(CreditIn(b, id, h))
  BY <1>1, <1>3, <1>5 DEF Orderly
<1> QED BY <1>4, <1>6 DEF Books

\* Any line makes such a book of such a book.
LEMMA ReplayOrderly ==
    ASSUME NEW b \in Books, NEW line \in Parsed
    PROVE  Replay(b, line) \in Books
<1>1. CASE line \in Records
  <2>1. line.id \in Ids /\ line.hashes \in Nat
    BY <1>1 DEF Records
  <2> QED BY <2>1, OpenOrderly, CreditOrderly DEF Replay
<1>2. CASE line \in {NoTail, Torn}
  BY <1>2 DEF Replay, NoTail, Torn
<1> QED BY <1>1, <1>2 DEF Parsed

\* So is the empty one.
LEMMA EmptyOrderly == Empty \in Books
  BY DEF Empty, Books, Book, Orderly, Absent, Redemption, States, Knows

-----------------------------------------------------------------------------
\* Replaying a text.

\* u[n] is what the first n lines replay to.
Upto(u, t) == u = [n \in 0 .. Len(t) |->
                     IF n = 0 THEN Empty ELSE Replay(u[n - 1], Parse(t[n]))]

\* There is such a u, of books.
LEMMA UptoExists ==
    ASSUME NEW t \in Seq(Seq(Bits))
    PROVE  \E u \in [0 .. Len(t) -> Books] : Upto(u, t)
<1> DEFINE m == Len(t)
           Line(k) == IF k \in 1 .. m THEN Parse(t[k]) ELSE NoTail
           F == [p \in Books \X Nat |-> Replay(p[1], Line(p[2]))]
<1>1. m \in Nat
  OBVIOUS
<1>2. \A k : Line(k) \in Parsed
  <2>1. \A k \in 1 .. m : t[k] \in Seq(Bits)
    OBVIOUS
  <2> QED BY <2>1, ParseTyped DEF Parsed
<1> HIDE DEF m, Line
<1>3. F \in [Books \X Nat -> Books]
  BY <1>2, ReplayOrderly
<1>4. \A b \in Books, k \in Nat : F[<<b, k>>] = Replay(b, Line(k))
  OBVIOUS
<1> HIDE DEF F
<1>5. PICK u : Recurs(u, Books, Empty, F, m)
  BY <1>1, <1>3, EmptyOrderly, RecursionExists
<1>6. \A k \in 1 .. m : u[k] = Replay(u[k - 1], Parse(t[k]))
  <2> TAKE k \in 1 .. m
  <2>1. u[k - 1] \in Books /\ k \in Nat /\ u[k] = F[<<u[k - 1], k>>]
    BY <1>1, <1>5 DEF Recurs
  <2>2. Line(k) = Parse(t[k])
    BY DEF Line
  <2> QED BY <1>4, <2>1, <2>2
<1>7. Upto(u, t)
  <2> DEFINE v == [n \in 0 .. m |->
                     IF n = 0 THEN Empty ELSE Replay(u[n - 1], Parse(t[n]))]
  <2>1. ASSUME NEW n \in 0 .. m PROVE u[n] = v[n]
    <3>1. CASE n = 0
      BY <1>5, <3>1 DEF Recurs
    <3>2. CASE n # 0
      <4>1. n \in 1 .. m
        BY <1>1, <3>2
      <4> QED BY <1>6, <3>2, <4>1
    <3> QED BY <3>1, <3>2
  <2>2. u = v
    <3>1. u = [n \in 0 .. m |-> u[n]] /\ v = [n \in 0 .. m |-> v[n]]
      BY <1>5 DEF Recurs
    <3> HIDE DEF v
    <3> QED BY <2>1, <3>1
  <2> HIDE DEF v
  <2> QED BY <2>2 DEF Upto, v, m
<1> QED BY <1>5, <1>7 DEF m, Recurs

\* Two of them agree on the lines both have.
LEMMA UptoAgree ==
    ASSUME NEW t \in Seq(Seq(Bits)), NEW s \in Seq(Seq(Bits)), NEW u, NEW v,
           Upto(u, t), Upto(v, s), NEW n \in Nat, n =< Len(t), n =< Len(s),
           \A k \in 1 .. n : t[k] = s[k]
    PROVE  u[n] = v[n]
<1> DEFINE C == {k \in Nat : k =< n => u[k] = v[k]}
<1>1. 0 \in C
  BY DEF Upto
<1>2. ASSUME NEW k \in Nat, k \in C PROVE k + 1 \in C
  <2>1. SUFFICES ASSUME k + 1 =< n PROVE u[k + 1] = v[k + 1]
    OBVIOUS
  <2>2. u[k] = v[k] /\ t[k + 1] = s[k + 1]
    BY <1>2, <2>1
  <2>3. k + 1 \in 0 .. Len(t) /\ k + 1 \in 0 .. Len(s) /\ k + 1 # 0 /\ (k + 1) - 1 = k
    BY <2>1
  <2>4. u[k + 1] = Replay(u[k], Parse(t[k + 1]))
    BY <2>3 DEF Upto
  <2>5. v[k + 1] = Replay(v[k], Parse(s[k + 1]))
    BY <2>3 DEF Upto
  <2> QED BY <2>2, <2>4, <2>5
<1> HIDE DEF C
<1>3. n \in C
  BY <1>1, <1>2, NumbersAre
<1> QED BY <1>3 DEF C

\* It is what ReplayLines says.
LEMMA ReplayIs ==
    ASSUME NEW t \in Seq(Seq(Bits))
    PROVE  \E u \in [0 .. Len(t) -> Books] : Upto(u, t) /\ ReplayLines(t) = u[Len(t)]
<1> DEFINE w == CHOOSE u : Upto(u, t)
<1>1. PICK u \in [0 .. Len(t) -> Books] : Upto(u, t)
  BY UptoExists
<1>2. Upto(w, t)
  BY <1>1
<1>3. ReplayLines(t) = w[Len(t)]
  BY DEF ReplayLines, Upto
<1> HIDE DEF w
<1>4. w[Len(t)] = u[Len(t)]
  <2>1. Len(t) \in Nat /\ Len(t) =< Len(t)
    OBVIOUS
  <2> QED BY <1>1, <1>2, <2>1, UptoAgree
<1> QED BY <1>1, <1>3, <1>4

\* A text replays to a book.
LEMMA ReplayBook == ASSUME NEW t \in Seq(Seq(Bits)) PROVE ReplayLines(t) \in Books
<1>1. Len(t) \in 0 .. Len(t)
  OBVIOUS
<1> QED BY <1>1, ReplayIs, Zenon

\* No lines replay to the empty book.
LEMMA ReplayNothing == ReplayLines(<<>>) = Empty
<1>1. <<>> \in Seq(Seq(Bits)) /\ Len(<<>>) = 0
  OBVIOUS
<1>2. PICK u : Upto(u, <<>>) /\ ReplayLines(<<>>) = u[0]
  BY <1>1, ReplayIs
<1> QED BY <1>1, <1>2 DEF Upto

\* A line more changes the book as that line says.
LEMMA ReplayAppend ==
    ASSUME NEW t \in Seq(Seq(Bits)), NEW line \in Seq(Bits)
    PROVE  ReplayLines(Append(t, line)) = Replay(ReplayLines(t), Parse(line))
<1> DEFINE s == Append(t, line)
           n == Len(t)
<1>1. /\ s \in Seq(Seq(Bits)) /\ n \in Nat /\ Len(s) = n + 1 /\ s[n + 1] = line
      /\ \A k \in 1 .. n : t[k] = s[k]
  OBVIOUS
<1> HIDE DEF s
<1>2. PICK u : Upto(u, t) /\ ReplayLines(t) = u[n]
  BY ReplayIs
<1>3. PICK v : Upto(v, s) /\ ReplayLines(s) = v[n + 1]
  BY <1>1, ReplayIs
<1>4. n =< Len(t) /\ n =< Len(s)
  BY <1>1
<1>5. u[n] = v[n]
  <2> DEFINE S == Seq(Seq(Bits))
  <2>1. t \in S /\ s \in S
    BY <1>1
  <2>2. \A x, y \in S : \A f, g : \A k \in Nat :
           Upto(f, x) /\ Upto(g, y) /\ k =< Len(x) /\ k =< Len(y) 
           /\ (\A i \in 1 .. k : x[i] = y[i]) => f[k] = g[k]
    BY UptoAgree
  <2> HIDE DEF n, S
  <2>3. \A i \in 1 .. n : t[i] = s[i]
    BY <1>1
  <2>4. n \in Nat
    BY <1>1
  <2>5. Upto(u, t) /\ Upto(v, s)
    BY <1>2, <1>3
  <2> QED BY <1>4, <2>1, <2>2, <2>3, <2>4, <2>5
<1>6. v[n + 1] = Replay(v[n], Parse(s[n + 1]))
  <2>1. n + 1 \in 0 .. Len(s) /\ n + 1 # 0 /\ (n + 1) - 1 = n
    BY <1>1
  <2> QED BY <1>3, <2>1 DEF Upto
<1> QED BY <1>1, <1>2, <1>3, <1>5, <1>6 DEF s

-----------------------------------------------------------------------------
\* The last line of a text.

\* A text is its last line after the others.
LEMMA TextIs ==
    ASSUME NEW t \in Texts
    PROVE  /\ Front(t) \in Seq(Seq(Bits)) /\ Last(t) \in Seq(Bits)
           /\ t = Append(Front(t), Last(t))
  BY DEF Texts, Front, Last

\* A line that is appended is the last one.
LEMMA AppendIs ==
    ASSUME NEW t \in Seq(Seq(Bits)), NEW line \in Seq(Bits)
    PROVE  /\ Append(t, line) \in Texts
           /\ Front(Append(t, line)) = t
           /\ Last(Append(t, line)) = line
<1> DEFINE s == Append(t, line)
<1>1. s \in Seq(Seq(Bits)) /\ s # <<>> /\ Len(s) = Len(t) + 1 /\ s[Len(s)] = line
  <2>1. s \in Seq(Seq(Bits)) /\ Len(s) = Len(t) + 1
    OBVIOUS
  <2>2. s[Len(t) + 1] = line
    OBVIOUS
  <2>3. Len(t) \in Nat
    OBVIOUS
  <2> HIDE DEF s
  <2>4. s # <<>>
    BY <2>1, <2>3
  <2> QED BY <2>1, <2>2, <2>4
<1>2. SubSeq(s, 1, Len(s) - 1) = t
  <2> DEFINE f == SubSeq(s, 1, Len(s) - 1)
  <2>1. f \in Seq(Seq(Bits)) /\ Len(f) = Len(t) /\ \A i \in 1 .. Len(t) : f[i] = t[i]
    <3>1. Len(t) \in Nat /\ Len(s) - 1 = Len(t) /\ \A i \in 1 .. Len(t) : s[i] = t[i]
      BY <1>1
    <3> HIDE DEF s
    <3>2. SubSeq(s, 1, Len(t)) \in Seq(Seq(Bits)) /\ Len(SubSeq(s, 1, Len(t))) = Len(t)
          /\ \A i \in 1 .. Len(t) : SubSeq(s, 1, Len(t))[i] = s[i]
      BY <1>1, <3>1
    <3> QED BY <3>1, <3>2
  <2> HIDE DEF f
  <2>2. f = t
    BY <2>1, SeqEqual
  <2> QED BY <2>2 DEF f
<1> HIDE DEF s
<1>3. s \in Texts /\ Front(s) = t /\ Last(s) = line
  BY <1>1, <1>2 DEF Texts, Front, Last
<1> QED BY <1>3 DEF s

\* What is written is added to it.
LEMMA WriteIs ==
    ASSUME NEW t \in Texts, NEW bytes \in Seq(Bits)
    PROVE  /\ Write(t, bytes) = Append(Front(t), Last(t) \o bytes)
           /\ Last(t) \o bytes \in Seq(Bits)
<1> DEFINE w == Write(t, bytes)
           l == Last(t) \o bytes
           n == Len(t)
           s == Append(Front(t), l)
<1>1. t \in Seq(Seq(Bits)) /\ n \in Nat /\ n # 0 /\ t[n] = Last(t) /\ Last(t) \in Seq(Bits)
  BY DEF Texts, Last
<1>2. l \in Seq(Bits)
  BY <1>1
<1> HIDE DEF l
<1>3. w = [t EXCEPT ![n] = l]
  BY <1>1 DEF Write, l
<1>4. w \in Seq(Seq(Bits)) /\ Len(w) = n /\ w[n] = l /\ \A i \in 1 .. n - 1 : w[i] = t[i]
  <2> HIDE DEF w
  <2>1. n \in 1 .. Len(t)
    BY <1>1
  <2>2. /\ w \in Seq(Seq(Bits)) /\ Len(w) = Len(t)
        /\ \A j \in 1 .. Len(t) : w[j] = IF j = n THEN l ELSE t[j]
    <3> DEFINE S == Seq(Bits)
    <3>1. t \in Seq(S) /\ l \in S
      BY <1>1, <1>2
    <3> HIDE DEF S, n
    <3>2. /\ [t EXCEPT ![n] = l] \in Seq(S)
          /\ Len([t EXCEPT ![n] = l]) = Len(t)
          /\ \A j \in 1 .. Len(t) : [t EXCEPT ![n] = l][j] = IF j = n THEN l ELSE t[j]
      BY <2>1, <3>1, ExceptSeq
    <3> QED BY <1>3, <3>2, Zenon DEF S
  <2> QED BY <1>1, <2>2
<1>5. s \in Seq(Seq(Bits)) /\ Len(s) = n /\ s[n] = l /\ \A i \in 1 .. n - 1 : s[i] = t[i]
  <2> DEFINE f == Front(t)
  <2>1. f \in Seq(Seq(Bits)) /\ Len(f) = n - 1 /\ \A i \in 1 .. n - 1 : f[i] = t[i]
    <3>1. f = SubSeq(t, 1, n - 1)
      BY DEF Front
    <3> HIDE DEF n, f
    <3>2. n - 1 \in Nat /\ n - 1 =< Len(t)
      BY <1>1 DEF n
    <3> QED BY <1>1, <3>1, <3>2, SMTT(40)
  <2> HIDE DEF f
  <2>2. Append(f, l) \in Seq(Seq(Bits)) /\ Len(Append(f, l)) = n /\ Append(f, l)[n] = l
        /\ \A i \in 1 .. n - 1 : Append(f, l)[i] = f[i]
    BY <1>1, <1>2, <2>1
  <2> QED BY <2>1, <2>2 DEF f
<1> HIDE DEF w, s
<1>6. \A i \in 1 .. n : w[i] = s[i]
  <2>1. \A i \in 1 .. n : i \in 1 .. n - 1 \/ i = n
    BY <1>1
  <2> QED BY <1>4, <1>5, <2>1
<1>7. w = s
  <2> DEFINE S == Seq(Bits)
  <2>1. w \in Seq(S) /\ s \in Seq(S)
    BY <1>4, <1>5
  <2>2. Len(w) = Len(s) /\ \A i \in 1 .. Len(w) : w[i] = s[i]
    BY <1>4, <1>5, <1>6
  <2> HIDE DEF S
  <2> QED BY <2>1, <2>2, SeqEqual
<1> QED BY <1>2, <1>7 DEF w, s, l

\* Its lines are the others and the last one.
LEMMA ReplayText ==
    ASSUME NEW t \in Texts
    PROVE  ReplayLines(t) = Replay(ReplayLines(Front(t)), Parse(Last(t)))
<1>1. Front(t) \in Seq(Seq(Bits)) /\ Last(t) \in Seq(Bits) /\ t = Append(Front(t), Last(t))
  BY TextIs
<1>2. ReplayLines(Append(Front(t), Last(t))) = Replay(ReplayLines(Front(t)), Parse(Last(t)))
  BY <1>1, ReplayAppend
<1> QED BY <1>1, <1>2, Zenon

\* A line is readable unless a write cut a character in it.
Whole(line) == \A j \in 1 .. Len(line) : line[j] # CutPiece

\* A text with one more line is readable if both are.
LEMMA Readable ==
    ASSUME NEW t \in Seq(Seq(Bits)), NEW line \in Seq(Bits)
    PROVE  IsUtf8(Append(t, line)) <=> IsUtf8(t) /\ Whole(line)
<1> DEFINE s == Append(t, line)
           n == Len(t)
<1>1. n \in Nat /\ DOMAIN s = 1 .. n + 1 /\ s[n + 1] = line
      /\ DOMAIN t = 1 .. n /\ \A i \in 1 .. n : s[i] = t[i]
  OBVIOUS
<1>2. DOMAIN line = 1 .. Len(line)
  OBVIOUS
<1> HIDE DEF s, n
<1>3. \A i : i \in 1 .. n + 1 <=> i \in 1 .. n \/ i = n + 1
  BY <1>1
<1>4. IsUtf8(s) <=> IsUtf8(t) /\ Whole(line)
  BY <1>1, <1>2, <1>3 DEF IsUtf8, Whole
<1> QED BY <1>4 DEF s

-----------------------------------------------------------------------------
\* The compacted text.

\* u[n] is the lines of the n redemptions that come first.
Layout(u, b) == u = [n \in 0 .. Len(b.order) |->
                      IF n = 0 THEN <<>>
                      ELSE u[n - 1] \o RecordsOf(b.order[n], b.of[b.order[n]].acc)]

OpenLine(id) == <<OpenRecord(id)>>
CreditLine(id, h) == <<CreditRecord(id, h)>>

\* These are lines, readable ones, and parse to the records.
LEMMA LineFacts ==
    ASSUME NEW id \in Ids, NEW h \in Nat
    PROVE  /\ OpenLine(id) \in Seq(Bits) /\ CreditLine(id, h) \in Seq(Bits)
           /\ Whole(OpenLine(id)) /\ Whole(CreditLine(id, h))
           /\ Parse(OpenLine(id)) = OpenRecord(id)
           /\ Parse(CreditLine(id, h)) = CreditRecord(id, h)
<1> DEFINE o == OpenRecord(id)
           c == CreditRecord(id, h)
<1>1. o \in Records /\ c \in Records
  BY DEF OpenRecord, CreditRecord, Records
<1>2. o.op = "open" /\ c.op = "credit"
  BY DEF OpenRecord, CreditRecord
<1>3. o # CutPiece /\ c # CutPiece
  BY <1>2 DEF CutPiece
<1> HIDE DEF o, c
<1>4. <<o>> \in Seq(Bits) /\ <<c>> \in Seq(Bits)
  BY <1>1 DEF Bits
<1>5. Whole(<<o>>) /\ Whole(<<c>>)
  BY <1>3 DEF Whole
<1>6. Parse(<<o>>) = o /\ Parse(<<c>>) = c
  BY <1>2 DEF Parse
<1> QED BY <1>4, <1>5, <1>6 DEF o, c, OpenLine, CreditLine

\* The lines of one redemption follow those of the others.
LEMMA RecordsFollow ==
    ASSUME NEW t \in Seq(Seq(Bits)), NEW id \in Ids, NEW acc \in Nat
    PROVE  t \o RecordsOf(id, acc) =
             IF acc > 0 THEN Append(Append(t, OpenLine(id)), CreditLine(id, acc))
             ELSE Append(t, OpenLine(id))
<1> DEFINE S == Seq(Bits)
           o == OpenLine(id)
           c == CreditLine(id, acc)
<1>1. t \in Seq(S) /\ o \in S /\ c \in S
  BY LineFacts
<1>2. RecordsOf(id, acc) = <<o>> \o (IF acc > 0 THEN <<c>> ELSE <<>>)
  BY DEF RecordsOf, OpenLine, CreditLine
<1> HIDE DEF S, o, c
<1>3. Append(t, o) = t \o <<o>> /\ Append(t, o) \in Seq(S)
  BY <1>1, AppendIsConcat
<1>4. Append(Append(t, o), c) = Append(t, o) \o <<c>>
  BY <1>1, <1>3, AppendIsConcat
<1>5. <<o>> \in Seq(S) /\ <<c>> \in Seq(S)
  BY <1>1
<1>6. t \o (<<o>> \o <<c>>) = (t \o <<o>>) \o <<c>>
  BY <1>1, <1>5, ConcatAssociative
<1>7. <<o>> \o <<>> = <<o>>
  BY <1>5, ConcatEmptySeq
<1>8. CASE acc > 0
  <2>1. RecordsOf(id, acc) = <<o>> \o <<c>>
    BY <1>2, <1>8
  <2>2. t \o RecordsOf(id, acc) = Append(Append(t, o), c)
    BY <1>3, <1>4, <1>6, <2>1, Zenon
  <2> QED BY <1>8, <2>2 DEF o, c
<1>9. CASE ~(acc > 0)
  <2>1. RecordsOf(id, acc) = <<o>>
    BY <1>2, <1>7, <1>9
  <2>2. t \o RecordsOf(id, acc) = Append(t, o)
    BY <1>3, <2>1, Zenon
  <2> QED BY <1>9, <2>2 DEF o, c
<1> QED BY <1>8, <1>9

\* The first n redemptions of a book, as compaction leaves them.
FirstOf(b, n) ==
    [of |-> [id \in Ids |-> IF \E i \in 1 .. n : b.order[i] = id
                           THEN CompactOne(id, b.of[id]) ELSE Absent],
     order |-> SubSeq(b.order, 1, n)]

\* All of them are the compacted book.
LEMMA AllFirst == ASSUME NEW b \in Books PROVE FirstOf(b, Len(b.order)) = Compact(b)
<1> DEFINE n == Len(b.order)
<1>1. b.order \in Seq(Ids) /\ n \in Nat
  BY DEF Books, Book
<1>2. SubSeq(b.order, 1, n) = b.order
  BY <1>1
<1>3. ASSUME NEW id \in Ids, ~\E i \in 1 .. n : b.order[i] = id
      PROVE  CompactOne(id, b.of[id]) = Absent
  BY <1>3 DEF Books, Orderly, Knows, CompactOne
<1> HIDE DEF n
<1>4. FirstOf(b, n) = Compact(b)
  BY <1>2, <1>3 DEF FirstOf, Compact
<1> QED BY <1>4 DEF n

\* None of them is the empty one.
LEMMA NoneFirst == ASSUME NEW b \in Books PROVE FirstOf(b, 0) = Empty
<1>1. b.order \in Seq(Ids)
  BY DEF Books, Book
<1>2. SubSeq(b.order, 1, 0) = <<>>
  BY <1>1
<1>3. \A i \in 1 .. 0 : FALSE
  OBVIOUS
<1> QED BY <1>2, <1>3 DEF FirstOf, Empty

\* One more, as its records replay.
LEMMA OneMore ==
    ASSUME NEW b \in Books, NEW n \in Nat, n + 1 =< Len(b.order),
           NEW id, id = b.order[n + 1], NEW acc, acc = b.of[id].acc
    PROVE  /\ id \in Ids /\ acc \in Nat
           /\ acc > 0 => Replay(Replay(FirstOf(b, n), OpenRecord(id)), CreditRecord(id, acc))
                           = FirstOf(b, n + 1)
           /\ ~(acc > 0) => Replay(FirstOf(b, n), OpenRecord(id)) = FirstOf(b, n + 1)
<1> DEFINE q == b.order
           f == FirstOf(b, n)
           g == OpenIn(f, id)
           r == b.of[id]
<1>1. q \in Seq(Ids) /\ Len(q) \in Nat /\ b.of \in [Ids -> Redemption] /\ Orderly(b)
  BY DEF Books, Book
<1>2. id \in Ids /\ n + 1 \in 1 .. Len(q)
  BY <1>1
<1>3. acc \in Nat /\ r \in Redemption /\ r.acc = acc
  BY <1>1, <1>2 DEF Redemption
<1>4. Knows(b, id)
  BY <1>1, <1>2 DEF Orderly
<1>5. \A i \in 1 .. n : q[i] # id
  <2>1. \A i \in 1 .. n : i \in 1 .. Len(q) /\ i # n + 1
    BY <1>1
  <2> QED BY <1>1, <1>2, <2>1 DEF Orderly
<1>6. \A x : (\E i \in 1 .. n + 1 : q[i] = x) <=> x = id \/ \E i \in 1 .. n : q[i] = x
  <2>1. \A i : i \in 1 .. n + 1 <=> i \in 1 .. n \/ i = n + 1
    OBVIOUS
  <2> QED BY <2>1
<1>7. SubSeq(q, 1, n + 1) = Append(SubSeq(q, 1, n), id)
  BY <1>1, <1>2
<1> DEFINE F == [x \in Ids |-> IF \E i \in 1 .. n : q[i] = x
                              THEN CompactOne(x, b.of[x]) ELSE Absent]
           G == [x \in Ids |-> IF \E i \in 1 .. n + 1 : q[i] = x
                              THEN CompactOne(x, b.of[x]) ELSE Absent]
           o == SubSeq(q, 1, n)
<1>8. f = [of |-> F, order |-> o] /\ FirstOf(b, n + 1) = [of |-> G, order |-> Append(o, id)]
  BY <1>7 DEF FirstOf
<1>9. F[id] = Absent /\ DOMAIN F = Ids
  BY <1>2, <1>5
<1>10. G = [F EXCEPT ![id] = CompactOne(id, r)]
  <2>1. \A x \in Ids : G[x] = IF x = id THEN CompactOne(id, r) ELSE F[x]
    BY <1>6
  <2>2. G = [x \in Ids |-> G[x]]
    OBVIOUS
  <2> HIDE DEF F, G
  <2> QED BY <1>9, <2>1, <2>2
<1> HIDE DEF f, F, G, o, q
<1>11. ~Knows(f, id)
  BY <1>8, <1>9 DEF Knows, Absent
<1>12. Replay(f, OpenRecord(id)) = g
  BY <1>11 DEF Replay, OpenRecord
<1>13. g = [of |-> [F EXCEPT ![id] = New], order |-> Append(o, id)]
  BY <1>8 DEF OpenIn
<1>14. CASE acc > 0
  <2>1. CompactOne(id, r) = CreditHashes(id, New, acc)
    BY <1>3, <1>4, <1>14 DEF CompactOne, Knows
  <2>2. Knows(g, id) /\ g.of[id] = New
    <3> HIDE DEF g
    <3> QED BY <1>2, <1>9, <1>13 DEF Knows, New
  <2>3. Replay(g, CreditRecord(id, acc)) = CreditIn(g, id, acc)
    <3> HIDE DEF g
    <3> QED BY <2>2 DEF Replay, CreditRecord
  <2>4. CreditIn(g, id, acc) = [of |-> [F EXCEPT ![id] = CreditHashes(id, New, acc)],
                                order |-> Append(o, id)]
    <3> DEFINE c == CreditHashes(id, New, acc)
    <3>1. CreditIn(g, id, acc) = [of |-> [g.of EXCEPT ![id] = c], order |-> g.order]
      BY <2>2 DEF CreditIn
    <3> HIDE DEF g, c
    <3>2. [[F EXCEPT ![id] = New] EXCEPT ![id] = c] = [F EXCEPT ![id] = c]
      BY <1>9
    <3> QED BY <1>13, <3>1, <3>2 DEF c
  <2> HIDE DEF g, r
  <2>5. Replay(Replay(f, OpenRecord(id)), CreditRecord(id, acc)) = FirstOf(b, n + 1)
    BY <1>8, <1>10, <1>12, <2>1, <2>3, <2>4, Zenon
  <2> QED BY <1>2, <1>3, <1>14, <2>5 DEF f
<1>15. CASE ~(acc > 0)
  <2>1. CompactOne(id, r) = New
    BY <1>3, <1>4, <1>15 DEF CompactOne, Knows
  <2> HIDE DEF g, r
  <2>2. Replay(f, OpenRecord(id)) = FirstOf(b, n + 1)
    BY <1>8, <1>10, <1>12, <1>13, <2>1, Zenon
  <2> QED BY <1>2, <1>3, <1>15, <2>2 DEF f
<1> QED BY <1>14, <1>15

\* There is such a layout.
LEMMA LayoutExists == ASSUME NEW b \in Books PROVE \E u : Layout(u, b)
<1> DEFINE m == Len(b.order)
           T == Seq(Seq(Bits))
           Entry(k) == IF k \in 1 .. m THEN RecordsOf(b.order[k], b.of[b.order[k]].acc)
                       ELSE <<>>
           F == [p \in T \X Nat |-> p[1] \o Entry(p[2])]
<1>1. m \in Nat /\ b.order \in Seq(Ids) /\ b.of \in [Ids -> Redemption]
  BY DEF Books, Book
<1>2. ASSUME NEW t \in T, NEW k \in Nat PROVE t \o Entry(k) \in T
  <2>1. CASE k \in 1 .. m
    <3>1. b.order[k] \in Ids /\ b.of[b.order[k]].acc \in Nat
      BY <1>1, <2>1 DEF Redemption
    <3> DEFINE id == b.order[k]
               acc == b.of[b.order[k]].acc
    <3>2. Entry(k) = RecordsOf(id, acc)
      BY <2>1
    <3>3. OpenLine(id) \in Seq(Bits) /\ CreditLine(id, acc) \in Seq(Bits)
      BY <3>1, LineFacts
    <3> HIDE DEF Entry, id, acc
    <3>4. \/ t \o RecordsOf(id, acc) = Append(Append(t, OpenLine(id)), CreditLine(id, acc))
          \/ t \o RecordsOf(id, acc) = Append(t, OpenLine(id))
      BY <3>1, RecordsFollow DEF id, acc
    <3>5. \A x \in T : Append(x, OpenLine(id)) \in T /\ Append(x, CreditLine(id, acc)) \in T
      BY <3>3
    <3> HIDE DEF T
    <3> QED BY <3>2, <3>4, <3>5, Zenon
  <2>2. CASE k \notin 1 .. m
    BY <2>2
  <2> QED BY <2>1, <2>2
<1>3. F \in [T \X Nat -> T]
  <2> HIDE DEF T, Entry
  <2>1. ASSUME NEW p \in T \X Nat PROVE p[1] \o Entry(p[2]) \in T
    <3>1. p[1] \in T /\ p[2] \in Nat
      OBVIOUS
    <3> QED BY <1>2, <3>1, Zenon
  <2> QED BY <2>1
<1>4. \A t \in T, k \in Nat : F[<<t, k>>] = t \o Entry(k)
  OBVIOUS
<1>5. <<>> \in T
  OBVIOUS
<1> HIDE DEF m, T, Entry, F
<1>6. PICK u : Recurs(u, T, <<>>, F, m)
  BY <1>1, <1>3, <1>5, RecursionExists
<1> DEFINE w == [n \in 0 .. m |->
                   IF n = 0 THEN <<>>
                   ELSE u[n - 1] \o RecordsOf(b.order[n], b.of[b.order[n]].acc)]
<1>7. ASSUME NEW n \in 0 .. m PROVE u[n] = w[n]
  <2>1. CASE n = 0
    <3>1. u[0] = <<>>
      BY <1>6 DEF Recurs
    <3>2. w[n] = <<>>
      BY <2>1
    <3> HIDE DEF w
    <3> QED BY <2>1, <3>1, <3>2
  <2>2. CASE n # 0
    <3>1. n \in 1 .. m /\ n - 1 \in 0 .. m /\ n \in Nat
      BY <1>1, <2>2
    <3>2. u[n - 1] \in T /\ u[n] = F[<<u[n - 1], n>>]
      BY <1>6, <3>1 DEF Recurs
    <3>3. Entry(n) = RecordsOf(b.order[n], b.of[b.order[n]].acc)
      BY <3>1 DEF Entry
    <3>4. w[n] = u[n - 1] \o RecordsOf(b.order[n], b.of[b.order[n]].acc)
      BY <2>2
    <3> HIDE DEF w
    <3> QED BY <1>4, <3>1, <3>2, <3>3, <3>4
  <2> QED BY <2>1, <2>2
<1>8. u = w
  <2>1. u = [n \in 0 .. m |-> u[n]] /\ w = [n \in 0 .. m |-> w[n]]
    BY <1>6 DEF Recurs
  <2> HIDE DEF w
  <2> QED BY <1>7, <2>1
<1>9. Layout(u, b)
  <2> HIDE DEF w
  <2> QED BY <1>8 DEF Layout, w, m
<1> QED BY <1>9

\* The compacted text is readable, ends with a newline and replays to the
\* compacted book.
LEMMA CompactIs ==
    ASSUME NEW b \in Books
    PROVE  /\ CompactText(b) \in Texts /\ IsUtf8(CompactText(b))
           /\ ReplayLines(Front(CompactText(b))) = Compact(b)
           /\ Last(CompactText(b)) = <<>>
<1> DEFINE m == Len(b.order)
           T == Seq(Seq(Bits))
           u == CHOOSE w : Layout(w, b)
<1>1. Layout(u, b)
  BY LayoutExists
<1>2. CompactText(b) = Append(u[m], <<>>)
  BY DEF CompactText, Layout
<1>3. m \in Nat
  BY DEF Books, Book
<1> HIDE DEF u
<1> DEFINE Good(n) == u[n] \in T /\ IsUtf8(u[n]) /\ ReplayLines(u[n]) = FirstOf(b, n)
           C == {n \in Nat : n =< m => Good(n)}
<1>4. 0 \in C
  <2>1. u[0] = <<>>
    BY <1>1, <1>3 DEF Layout
  <2>2. <<>> \in T /\ IsUtf8(<<>>)
    BY DEF IsUtf8
  <2>3. ReplayLines(<<>>) = FirstOf(b, 0)
    BY ReplayNothing, NoneFirst
  <2> QED BY <2>1, <2>2, <2>3
<1>5. ASSUME NEW n \in Nat, n \in C PROVE n + 1 \in C
  <2>1. SUFFICES ASSUME n + 1 =< m PROVE Good(n + 1)
    OBVIOUS
  <2>2. Good(n)
    <3>1. n =< m
      BY <1>3, <1>5, <2>1
    <3> HIDE DEF Good
    <3> QED BY <1>5, <3>1
  <2> DEFINE t == u[n]
             id == b.order[n + 1]
             acc == b.of[id].acc
             o == OpenLine(id)
             c == CreditLine(id, acc)
  <2>3. u[n + 1] = t \o RecordsOf(id, acc)
    <3>1. n + 1 \in 0 .. m /\ n + 1 # 0 /\ (n + 1) - 1 = n
      BY <1>3, <2>1
    <3> QED BY <1>1, <3>1 DEF Layout
  <2>4. t \in T /\ IsUtf8(t) /\ ReplayLines(t) = FirstOf(b, n)
    BY <2>2
  <2> HIDE DEF t, id, acc, T
  <2>5. /\ id \in Ids /\ acc \in Nat
        /\ acc > 0 => Replay(Replay(FirstOf(b, n), OpenRecord(id)), CreditRecord(id, acc))
                         = FirstOf(b, n + 1)
        /\ ~(acc > 0) => Replay(FirstOf(b, n), OpenRecord(id)) = FirstOf(b, n + 1)
    BY <2>1, OneMore DEF id, acc
  <2>6. /\ o \in Seq(Bits) /\ c \in Seq(Bits) /\ Whole(o) /\ Whole(c)
        /\ Parse(o) = OpenRecord(id) /\ Parse(c) = CreditRecord(id, acc)
    BY <2>5, LineFacts
  <2>7. t \o RecordsOf(id, acc) = IF acc > 0 THEN Append(Append(t, o), c) ELSE Append(t, o)
    BY <2>4, <2>5, RecordsFollow DEF T
  <2> HIDE DEF o, c
  <2>8. /\ Append(t, o) \in T /\ IsUtf8(Append(t, o))
        /\ ReplayLines(Append(t, o)) = Replay(FirstOf(b, n), OpenRecord(id))
    <3>1. Append(t, o) \in T
      BY <2>4, <2>6 DEF T
    <3> QED BY <2>4, <2>6, <3>1, Readable, ReplayAppend DEF T
  <2>9. /\ Append(Append(t, o), c) \in T /\ IsUtf8(Append(Append(t, o), c))
        /\ ReplayLines(Append(Append(t, o), c)) =
              Replay(Replay(FirstOf(b, n), OpenRecord(id)), CreditRecord(id, acc))
    <3> DEFINE s == Append(t, o)
    <3> HIDE DEF s
    <3>1. s \in T /\ IsUtf8(s) /\ ReplayLines(s) = Replay(FirstOf(b, n), OpenRecord(id))
      BY <2>8 DEF s
    <3>2. Append(s, c) \in T
      BY <2>6, <3>1 DEF T
    <3>3. IsUtf8(Append(s, c)) /\ ReplayLines(Append(s, c)) = Replay(ReplayLines(s), Parse(c))
      BY <2>6, <3>1, Readable, ReplayAppend DEF T
    <3> QED BY <2>6, <3>1, <3>2, <3>3 DEF s
  <2>10. CASE acc > 0
    <3>1. u[n + 1] = Append(Append(t, o), c)
      BY <2>3, <2>7, <2>10
    <3> QED BY <2>5, <2>9, <2>10, <3>1
  <2>11. CASE ~(acc > 0)
    <3>1. u[n + 1] = Append(t, o)
      BY <2>3, <2>7, <2>11
    <3> QED BY <2>5, <2>8, <2>11, <3>1
  <2> QED BY <2>10, <2>11
<1> HIDE DEF C
<1>6. m \in C
  BY <1>3, <1>4, <1>5, NumbersAre
<1>7. u[m] \in T /\ IsUtf8(u[m]) /\ ReplayLines(u[m]) = Compact(b)
  BY <1>3, <1>6, AllFirst DEF C
<1>8. <<>> \in Seq(Bits) /\ Whole(<<>>)
  BY DEF Whole
<1> HIDE DEF m
<1>9. /\ Append(u[m], <<>>) \in Texts /\ Front(Append(u[m], <<>>)) = u[m]
      /\ Last(Append(u[m], <<>>)) = <<>>
  BY <1>7, <1>8, AppendIs
<1>10. IsUtf8(Append(u[m], <<>>))
  BY <1>7, <1>8, Readable
<1> QED BY <1>2, <1>7, <1>9, <1>10

-----------------------------------------------------------------------------
\* The steps.

\* The operators of the two modules that have the same names say the same.
LEMMA SameBooks ==
    /\ \A b, id : Ledger!Knows(b, id) = Knows(b, id) /\ Ledger!IsComplete(b, id) = IsComplete(b, id)
    /\ \A b, id : Ledger!OpenIn(b, id) = OpenIn(b, id)
    /\ \A b, id, h : Ledger!CreditIn(b, id, h) = CreditIn(b, id, h)
    /\ \A b, line : Ledger!Replay(b, line) = Replay(b, line)
    /\ \A b : Ledger!Compact(b) = Compact(b)
    /\ \A id : Ledger!OpenRecord(id) = OpenRecord(id)
    /\ \A id, h : Ledger!CreditRecord(id, h) = CreditRecord(id, h)
    /\ Ledger!Empty = Empty /\ Ledger!NoTail = NoTail /\ Ledger!Torn = Torn
  BY DEF Ledger!Knows, Ledger!IsComplete, Ledger!OpenIn, Ledger!CreditIn, Ledger!Replay,
         Ledger!Compact, Ledger!CompactOne, Ledger!CreditHashes, Ledger!New,
         Ledger!OpenRecord, Ledger!CreditRecord, Ledger!Empty, Ledger!Absent,
         Ledger!NoTail, Ledger!Torn,
         Knows, IsComplete, OpenIn, CreditIn, Replay, Compact, CompactOne, CreditHashes,
         New, OpenRecord, CreditRecord, Empty, Absent, NoTail, Torn

\* What has been written to t and gave s reads as the ledger says of an
\* append with this outcome.
Wrote(t, s, rec, outcome) ==
    /\ outcome = "split_char" => rec.op = "open" /\ rec.id \in NonAsciiIds
    /\ ReplayLines(Front(s)) = IF outcome = "line" /\ Last(t) = <<>>
                               THEN Replay(ReplayLines(Front(t)), rec)
                               ELSE ReplayLines(Front(t))
    /\ outcome = "line" => Parse(Last(s)) = NoTail
    /\ outcome = "nothing" => Parse(Last(s)) = Parse(Last(t))
    /\ outcome = "unterminated" => Parse(Last(s)) = IF Last(t) = <<>> THEN rec ELSE Torn
    /\ outcome \in {"part", "split_char"} => Parse(Last(s)) = Torn
    /\ IsUtf8(s) <=> IsUtf8(t) /\ outcome # "split_char"

\* Such a write is an append of the ledger.
LEMMA WroteAppends ==
    ASSUME text \in Texts, NEW rec, NEW outcome \in Ledger!Outcomes,
           Wrote(text, text', rec, outcome)
    PROVE  Ledger!JournalAppend(rec, outcome)
<1>1. Parse(Last(text)) = NoTail <=> Last(text) = <<>>
  BY TextIs, ParseWritten
<1> DEFINE f == ReplayLines(Front(text))
           g == ReplayLines(Front(text'))
           l == Parse(Last(text))
           k == Parse(Last(text'))
           empty == Last(text) = <<>>
<1>2. /\ outcome = "split_char" => rec.op = "open" /\ rec.id \in NonAsciiIds
      /\ g = IF outcome = "line" /\ empty THEN Replay(f, rec) ELSE f
      /\ outcome = "line" => k = NoTail
      /\ outcome = "nothing" => k = l
      /\ outcome = "unterminated" => k = IF empty THEN rec ELSE Torn
      /\ outcome \in {"part", "split_char"} => k = Torn
      /\ IsUtf8(text') <=> IsUtf8(text) /\ outcome # "split_char"
  BY DEF Wrote
<1>3. outcome \in {"line", "unterminated", "nothing", "part", "split_char"}
  BY DEF Ledger!Outcomes
<1>4. l = NoTail <=> empty
  BY <1>1
<1> HIDE DEF f, g, l, k, empty
<1>5. g = IF outcome = "line" /\ l = Ledger!NoTail THEN Ledger!Replay(f, rec) ELSE f
  BY <1>2, <1>4, SameBooks
<1>6. k = CASE outcome = "line" -> Ledger!NoTail
            [] outcome = "nothing" -> l
            [] outcome = "unterminated" /\ l = Ledger!NoTail -> rec
            [] OTHER -> Ledger!Torn
  BY <1>2, <1>3, <1>4, SameBooks
<1>7. (~IsUtf8(text')) = (~IsUtf8(text) \/ outcome = "split_char")
  BY <1>2
<1> QED BY <1>2, <1>5, <1>6, <1>7, Zenon DEF Ledger!JournalAppend, f, g, l, k

\* A line is whole if what it had was and what is added is.
LEMMA WholeWritten ==
    ASSUME NEW line \in Seq(Bits), NEW x \in Bits
    PROVE  Whole(line \o <<x>>) <=> Whole(line) /\ x # CutPiece
<1> DEFINE l == line \o <<x>>
           n == Len(line)
<1>1. n \in Nat /\ Len(l) = n + 1 /\ l[n + 1] = x /\ \A i \in 1 .. n : l[i] = line[i]
  OBVIOUS
<1> HIDE DEF l
<1>2. \A i : i \in 1 .. n + 1 <=> i \in 1 .. n \/ i = n + 1
  BY <1>1
<1>3. Whole(l) <=> Whole(line) /\ x # CutPiece
  BY <1>1, <1>2 DEF Whole
<1> QED BY <1>3 DEF l

\* Each text a write may leave is one the ledger knows.
LEMMA WriteMaps ==
    ASSUME NEW t \in Texts, NEW x \in Bits
    PROVE  /\ Write(t, <<x>>) \in Texts
           /\ Front(Write(t, <<x>>)) = Front(t)
           /\ Last(Write(t, <<x>>)) = Last(t) \o <<x>>
           /\ IsUtf8(Write(t, <<x>>)) <=> IsUtf8(t) /\ x # CutPiece
           /\ Last(t) \o <<x>> \in Seq(Bits)
<1> DEFINE l == Last(t) \o <<x>>
           f == Front(t)
<1>1. f \in Seq(Seq(Bits)) /\ Last(t) \in Seq(Bits) /\ t = Append(f, Last(t))
  BY TextIs
<1>2. <<x>> \in Seq(Bits)
  OBVIOUS
<1>3. Write(t, <<x>>) = Append(f, l) /\ l \in Seq(Bits)
  BY <1>2, WriteIs
<1>4. Whole(l) <=> Whole(Last(t)) /\ x # CutPiece
  BY <1>1, WholeWritten
<1> HIDE DEF l, f
<1>5. Append(f, l) \in Texts /\ Front(Append(f, l)) = f /\ Last(Append(f, l)) = l
  BY <1>1, <1>3, AppendIs
<1>6. IsUtf8(t) <=> IsUtf8(f) /\ Whole(Last(t))
  <2>1. IsUtf8(Append(f, Last(t))) <=> IsUtf8(f) /\ Whole(Last(t))
    BY <1>1, Readable
  <2> QED BY <1>1, <2>1, Zenon
<1>7. IsUtf8(Append(f, l)) <=> IsUtf8(f) /\ Whole(l)
  BY <1>1, <1>3, Readable
<1> QED BY <1>3, <1>4, <1>5, <1>6, <1>7, Zenon DEF l, f

\* The newline ends the line.
LEMMA NewLineMaps ==
    ASSUME NEW t \in Texts
    PROVE  /\ NewLine(t) \in Texts /\ Front(NewLine(t)) = t /\ Last(NewLine(t)) = <<>>
           /\ IsUtf8(NewLine(t)) <=> IsUtf8(t)
           /\ ReplayLines(t) = Replay(ReplayLines(Front(t)), Parse(Last(t)))
<1>1. t \in Seq(Seq(Bits)) /\ <<>> \in Seq(Bits) /\ Whole(<<>>)
  BY DEF Texts, Whole
<1> QED BY <1>1, AppendIs, Readable, ReplayText DEF NewLine

\* Whatever an append leaves in the file is one of the outcomes the ledger knows.
LEMMA AppendMaps ==
    ASSUME text \in Texts, NEW rec \in Records, NEW failing, JournalAppend(rec, failing)
    PROVE  /\ text' \in Texts
           /\ \E outcome \in IF failing THEN Ledger!Outcomes ELSE {"line"} :
                 Ledger!JournalAppend(rec, outcome)
<1> DEFINE w == Write(text, <<rec>>)
           l == Last(text)
<1>1. rec \in Bits /\ Piece \in Bits /\ CutPiece \in Bits
  BY DEF Bits
<1>2. rec # CutPiece /\ Piece # CutPiece
  BY DEF Records, Piece, CutPiece
<1>3. l \in Seq(Bits) /\ Parse(<<>>) = NoTail
  BY TextIs DEF Parse
<1>4. /\ Parse(l \o <<rec>>) = IF l = <<>> THEN rec ELSE Torn
      /\ Parse(l \o <<Piece>>) = Torn /\ Parse(l \o <<CutPiece>>) = Torn
  BY <1>3, ParseWritten
<1>5. /\ w \in Texts /\ Front(w) = Front(text) /\ Last(w) = l \o <<rec>>
      /\ IsUtf8(w) <=> IsUtf8(text)
  BY <1>1, <1>2, WriteMaps
<1>6. ASSUME NEW outcome \in Ledger!Outcomes, Wrote(text, text', rec, outcome), failing
      PROVE  \E o \in IF failing THEN Ledger!Outcomes ELSE {"line"} :
                Ledger!JournalAppend(rec, o)
  BY <1>6, WroteAppends
<1>7. CASE text' = NewLine(w)
  <2>1. /\ text' \in Texts /\ Front(text') = w /\ Last(text') = <<>>
        /\ IsUtf8(text') <=> IsUtf8(text)
        /\ ReplayLines(w) = Replay(ReplayLines(Front(text)), Parse(l \o <<rec>>))
    <3> HIDE DEF w, l
    <3> QED BY <1>5, <1>7, NewLineMaps
  <2>2. ReplayLines(w) = IF l = <<>> THEN Replay(ReplayLines(Front(text)), rec)
                         ELSE ReplayLines(Front(text))
    <3>1. \A b : Replay(b, Torn) = b
      BY DEF Replay, Torn
    <3> HIDE DEF w, l
    <3> QED BY <1>4, <2>1, <3>1
  <2>3. Wrote(text, text', rec, "line")
    <3> HIDE DEF w
    <3> QED BY <1>3, <2>1, <2>2 DEF Wrote
  <2>4. "line" \in Ledger!Outcomes
    BY DEF Ledger!Outcomes
  <2>5. Ledger!JournalAppend(rec, "line")
    BY <2>3, <2>4, WroteAppends
  <2> QED BY <2>1, <2>4, <2>5
<1>8. CASE failing /\ text' = text
  <2>1. Wrote(text, text', rec, "nothing")
    BY <1>8 DEF Wrote
  <2>2. "nothing" \in Ledger!Outcomes
    BY DEF Ledger!Outcomes
  <2> QED BY <1>6, <1>8, <2>1, <2>2
<1>9. CASE failing /\ text' = w
  <2>1. Wrote(text, text', rec, "unterminated")
    <3> HIDE DEF w
    <3> QED BY <1>4, <1>5, <1>9 DEF Wrote
  <2>2. "unterminated" \in Ledger!Outcomes
    BY DEF Ledger!Outcomes
  <2> HIDE DEF w
  <2> QED BY <1>5, <1>6, <1>9, <2>1, <2>2
<1>10. CASE failing /\ text' = Write(text, <<Piece>>)
  <2>1. /\ text' \in Texts /\ Front(text') = Front(text) /\ Last(text') = l \o <<Piece>>
        /\ IsUtf8(text') <=> IsUtf8(text)
    BY <1>1, <1>2, <1>10, WriteMaps
  <2>2. Wrote(text, text', rec, "part")
    BY <1>4, <2>1 DEF Wrote
  <2>3. "part" \in Ledger!Outcomes
    BY DEF Ledger!Outcomes
  <2> QED BY <1>6, <1>10, <2>1, <2>2, <2>3
<1>11. CASE failing /\ rec.op = "open" /\ rec.id \in NonAsciiIds
            /\ text' = Write(text, <<CutPiece>>)
  <2>1. /\ text' \in Texts /\ Front(text') = Front(text) /\ Last(text') = l \o <<CutPiece>>
        /\ ~IsUtf8(text')
    BY <1>1, <1>11, WriteMaps
  <2>2. Wrote(text, text', rec, "split_char")
    BY <1>4, <1>11, <2>1 DEF Wrote
  <2>3. "split_char" \in Ledger!Outcomes
    BY DEF Ledger!Outcomes
  <2> QED BY <1>6, <1>11, <2>1, <2>2, <2>3
<1>12. \/ text' = NewLine(w)
       \/ failing /\ (text' = text \/ text' = w \/ text' = Write(text, <<Piece>>))
       \/ failing /\ rec.op = "open" /\ rec.id \in NonAsciiIds
          /\ text' = Write(text, <<CutPiece>>)
  <2>1. text' \in Written(rec, failing)
    BY DEF JournalAppend
  <2>2. CASE failing
    BY <2>1, <2>2 DEF Written
  <2>3. CASE ~failing
    BY <2>1, <2>3 DEF Written
  <2> QED BY <2>2, <2>3
<1> HIDE DEF w
<1> QED BY <1>7, <1>8, <1>9, <1>10, <1>11, <1>12, Zenon

\* An append of a running process is the ledger's Record.
LEMMA RecordMaps ==
    ASSUME text \in Texts, NEW rec \in Records, JournalAppend(rec, WriteErrors)
    PROVE  text' \in Texts /\ Ledger!Record(rec)
  BY AppendMaps DEF Ledger!Record

\* One that is cut short by a kill may end in any way.
LEMMA CutMaps ==
    ASSUME text \in Texts, NEW rec \in Records, JournalAppend(rec, TRUE)
    PROVE  /\ text' \in Texts
           /\ \E outcome \in Ledger!Outcomes : Ledger!JournalAppend(rec, outcome)
  BY AppendMaps

\* What the operations write are records.
LEMMA RecordsTyped ==
    \A id \in Ids : /\ OpenRecord(id) \in Records
                    /\ \A h \in ShareHashes : CreditRecord(id, h) \in Records
  BY JournalAssumption DEF OpenRecord, CreditRecord, Records

\* A step that leaves the text leaves what it says.
LEMMA SameText == ASSUME text' = text PROVE UNCHANGED Ledger!journal
  BY DEF Ledger!journal

\* Each operation is the ledger's.
LEMMA OpenMaps ==
    ASSUME text \in Texts, NEW id \in Ids, Open(id)
    PROVE  text' \in Texts /\ Ledger!Open(id)
<1>1. JournalAppend(OpenRecord(id), WriteErrors) /\ OpenRecord(id) \in Records
  BY RecordsTyped DEF Open
<1>2. text' \in Texts /\ Ledger!Record(OpenRecord(id))
  BY <1>1, RecordMaps
<1> QED BY <1>2, SameBooks, Zenon DEF Open, Ledger!Open

\* A credit, journalled or not.
LEMMA CreditShareMaps ==
    ASSUME text \in Texts, NEW id \in Ids, NEW h \in ShareHashes, CreditShare(id, h)
    PROVE  text' \in Texts /\ Ledger!CreditShare(id, h)
<1>1. /\ up /\ Knows(mem, id) /\ worked[id] + h =< MaxWork /\ mem' = CreditIn(mem, id, h)
      /\ worked' = IF IsComplete(mem, id) THEN worked ELSE [worked EXCEPT ![id] = @ + h]
      /\ completions' = IF ~IsComplete(mem, id) /\ IsComplete(mem', id)
                        THEN [completions EXCEPT ![id] = @ + 1] ELSE completions
      /\ up' = up
  BY DEF CreditShare
<1>2. /\ text' \in Texts
      /\ IF ~IsComplete(mem, id) /\ h > 0 THEN Ledger!Record(CreditRecord(id, h))
         ELSE UNCHANGED Ledger!journal
  <2>1. CASE ~IsComplete(mem, id) /\ h > 0
    <3>1. JournalAppend(CreditRecord(id, h), WriteErrors) /\ CreditRecord(id, h) \in Records
      BY <2>1, RecordsTyped DEF CreditShare
    <3>2. text' \in Texts /\ Ledger!Record(CreditRecord(id, h))
      BY <3>1, RecordMaps
    <3> QED BY <2>1, <3>2
  <2>2. CASE ~(~IsComplete(mem, id) /\ h > 0)
    <3>1. text' = text
      BY <2>2 DEF CreditShare
    <3> QED BY <2>2, <3>1, SameText
  <2> QED BY <2>1, <2>2
<1> QED BY <1>1, <1>2, SameBooks, Zenon DEF Ledger!CreditShare

\* A kill in the middle of an open, with any part of its record written.
LEMMA KillDuringOpenMaps ==
    ASSUME text \in Texts, NEW id \in Ids, KillDuringOpen(id)
    PROVE  text' \in Texts /\ Ledger!KillDuringOpen(id)
<1>1. JournalAppend(OpenRecord(id), TRUE) /\ OpenRecord(id) \in Records
  BY RecordsTyped DEF KillDuringOpen
<1>2. /\ text' \in Texts
      /\ \E outcome \in Ledger!Outcomes : Ledger!JournalAppend(OpenRecord(id), outcome)
  BY <1>1, CutMaps
<1> QED
  BY <1>2, SameBooks, Zenon DEF KillDuringOpen, Down, Ledger!KillDuringOpen, Ledger!Down

\* A kill in the middle of a credit.
LEMMA KillDuringCreditMaps ==
    ASSUME text \in Texts, NEW id \in Ids, NEW h \in ShareHashes, KillDuringCredit(id, h)
    PROVE  text' \in Texts /\ Ledger!KillDuringCredit(id, h)
<1>1. JournalAppend(CreditRecord(id, h), TRUE) /\ CreditRecord(id, h) \in Records
  BY RecordsTyped DEF KillDuringCredit
<1>2. /\ text' \in Texts
      /\ \E outcome \in Ledger!Outcomes : Ledger!JournalAppend(CreditRecord(id, h), outcome)
  BY <1>1, CutMaps
<1> QED
  BY <1>2, SameBooks, Zenon
  DEF KillDuringCredit, Down, Ledger!KillDuringCredit, Ledger!Down

\* A kill between operations leaves the file.
LEMMA KillMaps == ASSUME text \in Texts, Kill PROVE text' \in Texts /\ Ledger!Kill
<1>1. text' = text
  BY DEF Kill
<1> QED BY <1>1, SameText, SameBooks, Zenon DEF Kill, Down, Ledger!Kill, Ledger!Down

\* What the text replays to is what the ledger would restore.
LEMMA RestoredIs ==
    ASSUME text \in Texts
    PROVE  Restored \in Books /\ Ledger!Replayed = Restored
<1>1. text \in Seq(Seq(Bits))
  BY DEF Texts
<1>2. ReplayLines(text) = Replay(ReplayLines(Front(text)), Parse(Last(text)))
  BY ReplayText
<1>3. ReplayLines(text) \in Books
  BY <1>1, ReplayBook
<1> QED BY <1>2, <1>3, SameBooks, Zenon DEF Restored, Ledger!Replayed

\* A start restores what the lines replay to and leaves its compacted text.
LEMMA StartMaps == ASSUME text \in Texts, Start PROVE text' \in Texts /\ Ledger!Start
<1> DEFINE t == CompactText(Restored)
<1>1. Restored \in Books /\ Ledger!Replayed = Restored
  BY RestoredIs
<1>2. /\ t \in Texts /\ IsUtf8(t) /\ ReplayLines(Front(t)) = Compact(Restored)
      /\ Last(t) = <<>>
  BY <1>1, CompactIs
<1>3. text' = t /\ IsUtf8(text) /\ Parse(<<>>) = NoTail
  BY DEF Start, Parse
<1> HIDE DEF t
<1>4. /\ ReplayLines(Front(text')) = Compact(Restored)
      /\ Parse(Last(text')) = NoTail
      /\ (~IsUtf8(text')) = (~IsUtf8(text))
  BY <1>2, <1>3
<1>5. text' \in Texts
  BY <1>2, <1>3
<1> QED BY <1>1, <1>4, <1>5, SameBooks, Zenon DEF Start, Ledger!Start

\* A start that fails has ended the last line, or compacted.
LEMMA StartFailsMaps ==
    ASSUME text \in Texts, StartFails PROVE text' \in Texts /\ Ledger!StartFails
<1> DEFINE f == ReplayLines(Front(text'))
<1>1. Restored \in Books /\ Ledger!Replayed = Restored /\ Restored = ReplayLines(text)
  BY RestoredIs DEF Restored
<1>2. Parse(<<>>) = NoTail /\ IsUtf8(text)
  BY DEF Parse, StartFails
<1>3. /\ text' \in Texts /\ f \in {Restored, Compact(Restored)}
      /\ Last(text') = <<>> /\ IsUtf8(text')
  <2>1. CASE text' = CompactText(Restored)
    <3> DEFINE t == CompactText(Restored)
    <3>1. /\ t \in Texts /\ IsUtf8(t) /\ ReplayLines(Front(t)) = Compact(Restored)
          /\ Last(t) = <<>>
      BY <1>1, CompactIs
    <3> HIDE DEF t
    <3> QED BY <2>1, <3>1 DEF t
  <2>2. CASE text' = Terminated(text) /\ Last(text) = <<>>
    <3>1. text' = text
      BY <2>2 DEF Terminated
    <3>2. ReplayLines(text) = Replay(ReplayLines(Front(text)), NoTail)
      BY <1>2, <2>2, ReplayText
    <3>3. \A b : Replay(b, NoTail) = b
      BY DEF Replay, NoTail
    <3> QED BY <1>1, <1>2, <2>2, <3>1, <3>2, <3>3
  <2>3. CASE text' = Terminated(text) /\ Last(text) # <<>>
    <3>1. text' = NewLine(text)
      BY <2>3 DEF Terminated
    <3>2. /\ NewLine(text) \in Texts /\ Front(NewLine(text)) = text
          /\ Last(NewLine(text)) = <<>> /\ IsUtf8(NewLine(text)) <=> IsUtf8(text)
      BY NewLineMaps
    <3> QED BY <1>1, <1>2, <3>1, <3>2
  <2> QED BY <2>1, <2>2, <2>3 DEF StartFails
<1>4. Parse(Last(text')) = NoTail /\ (~IsUtf8(text')) = (~IsUtf8(text))
  BY <1>2, <1>3
<1> QED BY <1>1, <1>3, <1>4, SameBooks, Zenon DEF StartFails, Ledger!StartFails

\* Nothing is written yet.
LEMMA InitMaps == ASSUME Init PROVE text \in Texts /\ Ledger!Init
<1>1. text = <<<<>>>>
  BY DEF Init
<1>2. text \in Texts /\ Front(text) = <<>> /\ Last(text) = <<>> /\ IsUtf8(text)
  BY <1>1 DEF Texts, Front, Last, IsUtf8
<1>3. ReplayLines(Front(text)) = Empty /\ Parse(Last(text)) = NoTail
  BY <1>2, ReplayNothing DEF Parse
<1>4. (~IsUtf8(text)) = FALSE
  BY <1>2
<1> QED BY <1>2, <1>3, <1>4, SameBooks, Zenon DEF Init, Ledger!Init

\* Every step is one of the ledger, or changes nothing it speaks of.
LEMMA StepMaps ==
    ASSUME text \in Texts, [Next]_vars
    PROVE  text' \in Texts /\ [Ledger!Next]_(Ledger!vars)
<1>1. ASSUME NEW id \in Ids, Open(id) \/ KillDuringOpen(id)
      PROVE  text' \in Texts /\ Ledger!Next
  BY <1>1, OpenMaps, KillDuringOpenMaps, Zenon DEF Ledger!Next
<1>2. ASSUME NEW id \in Ids, NEW h \in ShareHashes,
             CreditShare(id, h) \/ KillDuringCredit(id, h)
      PROVE  text' \in Texts /\ Ledger!Next
  BY <1>2, CreditShareMaps, KillDuringCreditMaps, Zenon DEF Ledger!Next
<1>3. CASE Kill \/ Start \/ StartFails
  BY <1>3, KillMaps, StartMaps, StartFailsMaps, Zenon DEF Ledger!Next
<1>4. CASE UNCHANGED vars
  <2>1. text' = text /\ up' = up /\ mem' = mem /\ worked' = worked
        /\ completions' = completions
    BY <1>4 DEF vars
  <2> QED BY <2>1, SameText DEF Ledger!vars
<1> QED BY <1>1, <1>2, <1>3, <1>4, Zenon DEF Next

\* The journal on disk behaves as RedemptionLedger says: replaying the lines
\* of the file is what its summary of the file predicts, after every append,
\* failed append, kill, failed start and compaction (Journal::open, append and
\* rewrite, RedemptionLedger::persistent).
THEOREM ImplementsLedgerHolds == Spec => ImplementsLedger
<1>1. Init => text \in Texts /\ Ledger!Init
  BY InitMaps
<1>2. text \in Texts /\ [Next]_vars => (text \in Texts)' /\ [Ledger!Next]_(Ledger!vars)
  BY StepMaps
<1> QED BY <1>1, <1>2, PTL DEF Spec, ImplementsLedger, Ledger!Safety

-----------------------------------------------------------------------------
\* What follows for the text.

\* The steps of the ledger are those RedemptionLedgerProofs is about.
LEMMA SameLedger ==
    /\ Ledger!Init <=> L!Init
    /\ [Ledger!Next]_(Ledger!vars) <=> [L!Next]_(L!vars)
    /\ L!Replayed = Ledger!Replayed
    /\ \A b : L!Compact(b) = Ledger!Compact(b)
<1>1. Ledger!Init <=> L!Init
  BY DEF Ledger!Init, L!Init, Ledger!Empty, L!Empty, Ledger!Absent, L!Absent,
         Ledger!NoTail, L!NoTail
<1>2. Ledger!Next <=> L!Next
  BY DEF Ledger!Next, L!Next, Ledger!Open, L!Open, Ledger!KillDuringOpen, L!KillDuringOpen,
         Ledger!CreditShare, L!CreditShare, Ledger!KillDuringCredit, L!KillDuringCredit,
         Ledger!Kill, L!Kill, Ledger!Start, L!Start, Ledger!StartFails, L!StartFails,
         Ledger!Record, L!Record, Ledger!JournalAppend, L!JournalAppend,
         Ledger!Outcomes, L!Outcomes, Ledger!Replay, L!Replay, Ledger!Knows, L!Knows,
         Ledger!OpenIn, L!OpenIn, Ledger!CreditIn, L!CreditIn,
         Ledger!CreditHashes, L!CreditHashes, Ledger!New, L!New,
         Ledger!OpenRecord, L!OpenRecord, Ledger!CreditRecord, L!CreditRecord,
         Ledger!NoTail, L!NoTail, Ledger!Torn, L!Torn,
         Ledger!IsComplete, L!IsComplete, Ledger!journal, L!journal,
         Ledger!Replayed, L!Replayed, Ledger!Compact, L!Compact,
         Ledger!CompactOne, L!CompactOne,
         Ledger!Down, L!Down, Ledger!Empty, L!Empty, Ledger!Absent, L!Absent
<1>3. Ledger!vars = L!vars /\ (UNCHANGED Ledger!vars <=> UNCHANGED L!vars)
  BY DEF Ledger!vars, L!vars, Ledger!journal, L!journal
<1>4. L!Replayed = Ledger!Replayed
  BY DEF Ledger!Replayed, L!Replayed, Ledger!Replay, L!Replay, Ledger!Knows, L!Knows,
         Ledger!OpenIn, L!OpenIn, Ledger!CreditIn, L!CreditIn,
         Ledger!CreditHashes, L!CreditHashes, Ledger!New, L!New
<1>5. \A b : L!Compact(b) = Ledger!Compact(b)
  BY DEF Ledger!Compact, L!Compact, Ledger!CompactOne, L!CompactOne,
         Ledger!CreditHashes, L!CreditHashes, Ledger!New, L!New,
         Ledger!Absent, L!Absent
<1> QED BY <1>1, <1>2, <1>3, <1>4, <1>5, Zenon

\* What the lines of the file are worth: compacting them loses nothing, and a
\* restart restores no more than was worked, nor anything a running process
\* does not have.
LinesAreExact ==
    /\ ReplayLines(CompactText(Restored)) = Restored
    /\ \A id \in Ids : Restored.of[id].acc =< worked[id]
    /\ up => \A id \in Ids : /\ Knows(Restored, id) => Knows(mem, id)
                             /\ Restored.of[id].acc =< mem.of[id].acc

\* The invariant of the ledger, of a text with lines, says so.
LEMMA LinesExact == ASSUME text \in Texts, L!IInv PROVE LinesAreExact
<1>1. Restored \in Books /\ L!Replayed = Restored
  BY RestoredIs, SameLedger
<1>2. L!Journalled(Restored) /\ L!Backed(Restored)
  BY <1>1 DEF L!IInv, L!ReplayOK
<1>3. Compact(Restored) = Restored
  <2>1. L!Compact(Restored) = Restored
    BY <1>2, L!CompactionLosesNothing, TargetAssumption, JournalAssumption
  <2> QED BY <2>1, SameLedger, SameBooks, Zenon
<1>4. ReplayLines(CompactText(Restored)) = Restored
  <2> DEFINE t == CompactText(Restored)
  <2>1. t \in Texts /\ ReplayLines(Front(t)) = Restored /\ Last(t) = <<>>
    BY <1>1, <1>3, CompactIs
  <2> HIDE DEF t
  <2>2. ReplayLines(t) = Replay(Restored, Parse(<<>>))
    BY <2>1, ReplayText
  <2>3. \A b : Replay(b, Parse(<<>>)) = b
    BY DEF Replay, Parse, NoTail
  <2> QED BY <2>2, <2>3 DEF t
<1>5. \A b, id : L!Knows(b, id) = Knows(b, id)
  BY DEF L!Knows, Knows
<1> QED BY <1>2, <1>4, <1>5 DEF LinesAreExact, L!Backed

\* Compaction of the file itself is exact, and what its lines restore is never
\* ahead of the work or of memory: what RedemptionLedger promises of its
\* summary holds of the text (Journal::rewrite, RedemptionLedger::persistent).
THEOREM LinesAreExactHolds == Spec => []LinesAreExact
<1>1. Init => text \in Texts /\ L!IInv
  <2>1. Init => text \in Texts /\ L!Init
    BY InitMaps, SameLedger
  <2>2. L!Init => L!IInv
    BY L!InitIInv, TargetAssumption, JournalAssumption
  <2> QED BY <2>1, <2>2
<1>2. text \in Texts /\ L!IInv /\ [Next]_vars => (text \in Texts)' /\ L!IInv'
  <2>1. text \in Texts /\ [Next]_vars => text' \in Texts /\ [L!Next]_(L!vars)
    BY StepMaps, SameLedger
  <2>2. L!IInv /\ [L!Next]_(L!vars) => L!IInv'
    BY L!StepIInv, TargetAssumption, JournalAssumption
  <2> QED BY <2>1, <2>2
<1>3. text \in Texts /\ L!IInv => LinesAreExact
  BY LinesExact
<1> QED BY <1>1, <1>2, <1>3, PTL DEF Spec

=============================================================================
