----------------------- MODULE RedemptionLedgerProofs -----------------------
(***************************************************************************)
(* Proofs about RedemptionLedger, for any set of redemptions, any targets, *)
(* any share values, with and without write errors.                        *)
(*                                                                         *)
(* The inductive invariant compares books.  Two of them describe the       *)
(* journal: the one its terminated lines replay to, and the one all its    *)
(* lines replay to.  A write can move the second back to the first (when   *)
(* it garbles an unterminated record), so both must be backed by memory    *)
(* and by the work submitted at every moment.                              *)
(***************************************************************************)
EXTENDS RedemptionLedger, TLAPS

\* The number of hashes agrees with the state, and a filled redemption was
\* one share short of its target before it was filled.
Fits(id, r) ==
    /\ r.state \in {"Absent", "Pending"} => r.acc = 0
    /\ r.state = "Active" => r.acc < Target[id]
    /\ r.state = "Completed" =>
          /\ r.acc >= Target[id]
          /\ \E h \in ShareHashes : r.acc < Target[id] + h

\* A book the journal can replay to.  Zero-hash credits are not journalled,
\* so an active redemption in it has some hashes.
Journalled(b) ==
    /\ b \in Book
    /\ \A id \in Ids : Fits(id, b.of[id])
    /\ \A id \in Ids : b.of[id].state = "Active" => b.of[id].acc > 0
    /\ OrderMatches(b)

\* It is never ahead of the work submitted nor, while the process runs, of
\* the book in memory.
Backed(b) ==
    /\ \A id \in Ids : b.of[id].acc =< worked[id]
    /\ up => \A id \in Ids : /\ Knows(b, id) => Knows(mem, id)
                             /\ b.of[id].acc =< mem.of[id].acc

TailOK ==
    /\ tail \in Records \cup {NoTail, Torn}
    /\ tail.op = "credit" => tail.hashes \in ShareHashes \ {0}
    /\ unreadable \in BOOLEAN

MemoryOK ==
    /\ mem \in Book
    /\ \A id \in Ids : Fits(id, mem.of[id])
    /\ \A id \in Ids : mem.of[id].acc =< worked[id]
    /\ OrderMatches(mem)
    /\ ~up => mem = Empty

GhostsOK ==
    /\ up \in BOOLEAN
    /\ worked \in [Ids -> Nat]
    /\ completions \in [Ids -> Nat]

FileOK == Journalled(file) /\ Backed(file)

ReplayOK == Journalled(Replayed) /\ Backed(Replayed)

IInv == GhostsOK /\ TailOK /\ MemoryOK /\ FileOK /\ ReplayOK

-----------------------------------------------------------------------------
\* Lemmas about books.

\* Opening an unknown redemption, or crediting a known one with a share,
\* keeps a redemption's state and number of hashes in agreement.
LEMMA FitsNew == \A id \in Ids : Fits(id, New) /\ Fits(id, Absent)
  BY TargetAssumption DEF Fits, New, Absent

\* The same for a known redemption and one share.
LEMMA FitsCredit ==
  ASSUME NEW id \in Ids, NEW r \in Redemption, Fits(id, r), NEW h \in ShareHashes
  PROVE  /\ CreditHashes(id, r, h) \in Redemption
         /\ Fits(id, CreditHashes(id, r, h))
  BY TargetAssumption, SharesAssumption DEF Fits, CreditHashes, Redemption, States

\* The order list of a book still names each known redemption once after an
\* open of an unknown one.
LEMMA OpenInBook ==
  ASSUME NEW b \in Book, OrderMatches(b), NEW id \in Ids, ~Knows(b, id)
  PROVE  /\ OpenIn(b, id) \in Book
         /\ OrderMatches(OpenIn(b, id))
<1> DEFINE c == OpenIn(b, id)
<1>1. c.of = [b.of EXCEPT ![id] = New] /\ c.order = Append(b.order, id)
  BY DEF OpenIn
<1>2. c \in Book
  BY DEF OpenIn, Book, New, Redemption, States
<1>3. \A x \in Ids : Knows(c, x) <=> Knows(b, x) \/ x = id
  BY <1>1 DEF Knows, Book, New, Redemption
<1> DEFINE n == Len(b.order)
           q == c.order
<1>4. /\ n \in Nat
      /\ DOMAIN q = 1 .. n + 1
      /\ q[n + 1] = id
      /\ \A i \in 1 .. n : q[i] = b.order[i]
  BY <1>1 DEF Book
<1>5. DOMAIN b.order = 1 .. n
  BY DEF Book
<1> HIDE DEF c, n, q
<1>6. /\ \A x \in Ids : Knows(b, x) <=> \E i \in 1 .. n : q[i] = x
      /\ \A i, j \in 1 .. n : q[i] = q[j] => i = j
      /\ \A i \in 1 .. n : q[i] # id
  <2>1. \A x \in Ids : Knows(b, x) <=> \E i \in 1 .. n : b.order[i] = x
    BY <1>5 DEF OrderMatches
  <2>2. \A x \in Ids : Knows(b, x) <=> \E i \in 1 .. n : q[i] = x
    BY <2>1, <1>4
  <2>3. \A i, j \in 1 .. n : b.order[i] = b.order[j] => i = j
    BY <1>5 DEF OrderMatches
  <2>4. \A i, j \in 1 .. n : q[i] = q[j] => i = j
    BY <2>3, <1>4
  <2>5. QED
    BY <2>2, <2>4
<1>7. \A x \in Ids : Knows(c, x) <=> \E i \in DOMAIN q : q[i] = x
  <2>1. DOMAIN q = (1 .. n) \cup {n + 1}
    BY <1>4
  <2>2. \A x : (\E i \in DOMAIN q : q[i] = x) <=> (\E i \in 1 .. n : q[i] = x) \/ x = id
    BY <2>1, <1>4
  <2>3. QED
    BY <1>3, <1>6, <2>2
<1>8. \A i, j \in DOMAIN q : q[i] = q[j] => i = j
  BY <1>4, <1>6
<1>9. QED
  BY <1>2, <1>7, <1>8 DEF OrderMatches, c, q

\* Crediting does not touch the order list.
LEMMA CreditInBook ==
  ASSUME NEW b \in Book, OrderMatches(b), NEW id \in Ids, Knows(b, id),
         Fits(id, b.of[id]), NEW h \in ShareHashes
  PROVE  /\ CreditIn(b, id, h) \in Book
         /\ OrderMatches(CreditIn(b, id, h))
<1> DEFINE r == CreditHashes(id, b.of[id], h)
<1>1. r \in Redemption /\ r.state # "Absent"
  BY FitsCredit DEF Book, Knows, CreditHashes
<1>2. CreditIn(b, id, h) \in Book
  BY <1>1 DEF CreditIn, Book
<1>3. \A x \in Ids : Knows(CreditIn(b, id, h), x) <=> Knows(b, x)
  BY <1>1 DEF CreditIn, Knows, Book
<1>4. CreditIn(b, id, h).order = b.order
  BY DEF CreditIn
<1>5. QED
  BY <1>2, <1>3, <1>4 DEF OrderMatches

\* Replaying one more journal line keeps a book one the journal can hold.
LEMMA ReplayJournalled ==
  ASSUME NEW b, Journalled(b), NEW line,
         line \in Records \cup {NoTail, Torn},
         line.op = "credit" => line.hashes \in ShareHashes \ {0}
  PROVE  Journalled(Replay(b, line))
<1>1. CASE line.op = "open" /\ ~Knows(b, line.id)
  <2>1. line.id \in Ids /\ Replay(b, line) = OpenIn(b, line.id)
    BY <1>1 DEF Replay, Records, NoTail, Torn
  <2>2. OpenIn(b, line.id).of = [b.of EXCEPT ![line.id] = New]
    BY DEF OpenIn
  <2>3. QED
    BY <1>1, <2>1, <2>2, OpenInBook, FitsNew DEF Journalled, Book, New
<1>2. CASE line.op = "credit" /\ Knows(b, line.id)
  <2> DEFINE id == line.id
             h == line.hashes
  <2>1. id \in Ids /\ h \in ShareHashes \ {0} /\ h \in Nat
    BY <1>2, SharesAssumption DEF Records, NoTail, Torn
  <2>2. Replay(b, line) = CreditIn(b, id, h)
    BY <1>2 DEF Replay
  <2>3. b \in Book /\ Fits(id, b.of[id]) /\ OrderMatches(b)
    BY <2>1 DEF Journalled
  <2>4. CreditIn(b, id, h) \in Book /\ OrderMatches(CreditIn(b, id, h))
    BY <1>2, <2>1, <2>3, CreditInBook
  <2>5. CreditIn(b, id, h).of = [b.of EXCEPT ![id] = CreditHashes(id, b.of[id], h)]
    BY DEF CreditIn
  <2>6. Fits(id, CreditHashes(id, b.of[id], h))
    BY <2>1, <2>3, FitsCredit DEF Book
  <2>7. CreditHashes(id, b.of[id], h).state = "Active" => CreditHashes(id, b.of[id], h).acc > 0
    BY <2>1, <2>3 DEF CreditHashes, Book, Redemption
  <2>8. QED
    BY <2>2, <2>3, <2>4, <2>5, <2>6, <2>7 DEF Journalled, Book
<1>3. CASE Replay(b, line) = b
  BY <1>3
<1>4. QED
  BY <1>1, <1>2, <1>3 DEF Replay

\* Compaction writes a journal that replays to the same book.
LEMMA CompactionLosesNothing ==
  ASSUME NEW b, Journalled(b)
  PROVE  Compact(b) = b
<1>1. ASSUME NEW id \in Ids
      PROVE  CompactOne(id, b.of[id]) = b.of[id]
  <2> DEFINE r == b.of[id]
  <2>1. r \in Redemption /\ Fits(id, r) /\ (r.state = "Active" => r.acc > 0)
    BY <1>1 DEF Journalled, Book
  <2>2. r = [acc |-> r.acc, state |-> r.state]
    BY <2>1 DEF Redemption
  <2>3. Target[id] \in Nat \ {0}
    BY TargetAssumption
  <2>4. CASE r.state \in {"Absent", "Pending"}
    BY <2>1, <2>2, <2>4 DEF CompactOne, Fits, Absent, New
  <2>5. CASE r.state = "Active"
    BY <2>1, <2>2, <2>3, <2>5 DEF CompactOne, Fits, CreditHashes, New, Redemption
  <2>6. CASE r.state = "Completed"
    BY <2>1, <2>2, <2>3, <2>6 DEF CompactOne, Fits, CreditHashes, New, Redemption
  <2>7. QED
    BY <2>1, <2>4, <2>5, <2>6 DEF Redemption, States
<1>2. b = [of |-> b.of, order |-> b.order] /\ b.of \in [Ids -> Redemption]
  BY DEF Journalled, Book
<1>3. [id \in Ids |-> CompactOne(id, b.of[id])] = b.of
  BY <1>1, <1>2
<1>4. QED
  BY <1>2, <1>3 DEF Compact

-----------------------------------------------------------------------------
\* The journal under one append, whatever became of the write.

\* The book of the terminated lines stays, or replays the record; so does
\* the book of all lines, which can also fall back to the terminated ones.
LEMMA AppendOutcome ==
  ASSUME TailOK, NEW rec, NEW outcome \in Outcomes,
         rec \in Records,
         rec.op = "credit" => rec.hashes \in ShareHashes \ {0},
         JournalAppend(rec, outcome)
  PROVE  /\ TailOK'
         /\ file' \in {file, Replay(file, rec)}
         /\ Replayed' \in {Replayed, file, Replay(file, rec)}
<1>0. /\ \A b : Replay(b, NoTail) = b /\ Replay(b, Torn) = b
      /\ rec \notin {NoTail, Torn}
      /\ Torn # NoTail
  BY DEF Replay, NoTail, Torn, Records
<1>1. unreadable' \in BOOLEAN
  BY DEF JournalAppend, TailOK
<1>2. /\ file' = IF outcome = "line" /\ tail = NoTail THEN Replay(file, rec) ELSE file
      /\ tail' = CASE outcome = "line" -> NoTail
                   [] outcome = "nothing" -> tail
                   [] outcome = "unterminated" /\ tail = NoTail -> rec
                   [] OTHER -> Torn
      /\ Replayed' = Replay(file', tail')
  BY DEF JournalAppend, Replayed
<1>3. CASE outcome = "line"
  BY <1>0, <1>1, <1>2, <1>3 DEF TailOK, NoTail
<1>4. CASE outcome = "nothing"
  BY <1>0, <1>1, <1>2, <1>4 DEF TailOK, Replayed
<1>5. CASE outcome = "unterminated" /\ tail = NoTail
  BY <1>0, <1>1, <1>2, <1>5 DEF TailOK
<1>6. CASE \/ outcome \in {"part", "split_char"}
           \/ outcome = "unterminated" /\ tail # NoTail
  <2>1. tail' = Torn /\ file' = file
    BY <1>2, <1>6
  <2>2. QED
    BY <1>0, <1>1, <1>2, <2>1 DEF TailOK, Torn
<1>7. QED
  BY <1>3, <1>4, <1>5, <1>6 DEF Outcomes

\* A record that memory already stands behind can be written and lost in any
\* way: the journal stays backed.
LEMMA AppendBacked ==
  ASSUME TailOK, FileOK, ReplayOK,
         NEW rec \in Records, NEW outcome \in Outcomes,
         rec.op = "credit" => rec.hashes \in ShareHashes \ {0},
         JournalAppend(rec, outcome),
         \A b : Journalled(b) /\ Backed(b) => Backed(b)',
         \A b : b = Replay(file, rec) => Backed(b)'
  PROVE  TailOK' /\ FileOK' /\ ReplayOK'
<1>1. Journalled(Replay(file, rec))
  BY ReplayJournalled DEF FileOK
<1>2. QED
  BY <1>1, AppendOutcome DEF FileOK, ReplayOK

-----------------------------------------------------------------------------
\* The invariant is inductive.

\* The ledger of a journal that does not exist yet.
LEMMA EmptyBook == Journalled(Empty)
  BY FitsNew DEF Journalled, Empty, Absent, Book, Redemption, States, OrderMatches, Knows

\* The invariant holds of a process that has never run.
LEMMA InitIInv == Init => IInv
<1> SUFFICES ASSUME Init PROVE IInv
  OBVIOUS
<1>1. GhostsOK /\ TailOK
  BY DEF Init, GhostsOK, TailOK, NoTail
<1>2. MemoryOK
  BY EmptyBook DEF Init, MemoryOK, Journalled, Empty, Absent
<1>3. Replayed = Empty /\ file = Empty
  BY DEF Init, Replayed, Replay, NoTail
<1>4. Backed(Empty)
  BY DEF Init, Backed, Empty, Absent
<1>5. QED
  BY <1>1, <1>2, <1>3, <1>4, EmptyBook DEF IInv, FileOK, ReplayOK

\* While the process stays up, or goes down, more work and more credit in
\* memory only strengthen what the journal is backed by.
LEMMA BackedMonotone ==
  ASSUME IInv, NEW b, Journalled(b), Backed(b),
         worked' \in [Ids -> Nat],
         \A id \in Ids : worked[id] =< worked'[id],
         \/ up' = FALSE
         \/ /\ up
            /\ mem' \in Book
            /\ \A id \in Ids : /\ Knows(mem, id) => Knows(mem', id)
                               /\ mem.of[id].acc =< mem'.of[id].acc
  PROVE  Backed(b)'
<1>1. \A id \in Ids : b.of[id].acc \in Nat /\ worked[id] \in Nat /\ worked'[id] \in Nat
  BY DEF Journalled, Book, Redemption, IInv, GhostsOK
<1>2. \A id \in Ids : b.of[id].acc =< worked'[id]
  BY <1>1 DEF Backed
<1>3. ASSUME up' PROVE \A id \in Ids : /\ Knows(b, id) => Knows(mem', id)
                                       /\ b.of[id].acc =< mem'.of[id].acc
  <2>1. \A id \in Ids : mem.of[id].acc \in Nat /\ mem'.of[id].acc \in Nat
    BY <1>3 DEF Book, Redemption, IInv, MemoryOK
  <2>2. QED
    BY <1>1, <1>3, <2>1 DEF Backed
<1>4. QED
  BY <1>2, <1>3 DEF Backed, Knows

\* Going down empties memory and leaves the journal and the work in place.
LEMMA DownMemory ==
  ASSUME Down, worked' \in [Ids -> Nat]
  PROVE  MemoryOK'
  BY EmptyBook DEF Down, MemoryOK, Journalled, Empty, Absent

\* A process that is down no longer bounds what the journal may replay to.
LEMMA DownBacked ==
  ASSUME IInv, Down, worked' \in [Ids -> Nat],
         \A id \in Ids : worked[id] =< worked'[id]
  PROVE  \A b : Journalled(b) /\ Backed(b) => Backed(b)'
  BY BackedMonotone DEF Down

\* RedemptionLedger::open keeps the invariant.
LEMMA OpenStep ==
  ASSUME IInv, NEW id \in Ids, Open(id)
  PROVE  IInv'
<1> DEFINE rec == OpenRecord(id)
<1>1. mem \in Book /\ ~Knows(mem, id) /\ mem.of[id] \in Redemption
  BY DEF Open, IInv, MemoryOK, Book
<1>2. mem' = OpenIn(mem, id) /\ mem'.of = [mem.of EXCEPT ![id] = New]
  BY DEF Open, OpenIn
<1>3. mem' \in Book /\ OrderMatches(mem')
  BY <1>1, <1>2, OpenInBook DEF IInv, MemoryOK
<1>4. mem.of[id].acc = 0
  BY <1>1 DEF IInv, MemoryOK, Fits, Knows
<1>5. GhostsOK'
  BY DEF GhostsOK, IInv, Open
<1>6. MemoryOK'
  <2>1. \A x \in Ids : Fits(x, mem'.of[x])
    BY <1>1, <1>2, FitsNew DEF IInv, MemoryOK, Book
  <2>2. \A x \in Ids : mem'.of[x].acc =< worked'[x]
    BY <1>1, <1>2, <1>4 DEF IInv, MemoryOK, Book, New, Open, GhostsOK
  <2>3. QED
    BY <1>3, <2>1, <2>2 DEF MemoryOK, Open, Fits, OrderMatches, Knows
<1>7. \A x \in Ids : /\ Knows(mem, x) => Knows(mem', x)
                     /\ mem.of[x].acc =< mem'.of[x].acc
  BY <1>1, <1>2, <1>4 DEF Knows, New, Book, Redemption
<1>8. \A b : Journalled(b) /\ Backed(b) => Backed(b)'
  BY <1>3, <1>7, BackedMonotone DEF Open, IInv, GhostsOK
<1>9. \A b : b = Replay(file, rec) => Backed(b)'
  <2>1. SUFFICES ASSUME ~Knows(file, id), NEW b, b = OpenIn(file, id)
                 PROVE  Backed(b)'
    BY <1>8 DEF Replay, OpenRecord, IInv, FileOK
  <2>2. b.of = [file.of EXCEPT ![id] = New] /\ file \in Book
    BY <2>1 DEF OpenIn, IInv, FileOK, Journalled
  <2>3. QED
    BY <1>2, <1>4, <1>7, <2>2 DEF Backed, IInv, FileOK, Knows, New, Book, Redemption, GhostsOK, Open, MemoryOK
<1>10. PICK outcome \in Outcomes : JournalAppend(rec, outcome)
  BY DEF Open, Record, Outcomes
<1>11. rec \in Records /\ rec.op # "credit"
  BY DEF OpenRecord, Records
<1>12. TailOK' /\ FileOK' /\ ReplayOK'
  BY <1>8, <1>9, <1>10, <1>11, AppendBacked DEF IInv
<1>13. QED
  BY <1>5, <1>6, <1>12 DEF IInv

\* So does a kill while the open record is being written.
LEMMA KillDuringOpenStep ==
  ASSUME IInv, NEW id \in Ids, KillDuringOpen(id)
  PROVE  IInv'
<1> DEFINE rec == OpenRecord(id)
<1>1. GhostsOK' /\ MemoryOK'
  BY DownMemory DEF KillDuringOpen, Down, IInv, GhostsOK
<1>2. \A b : Journalled(b) /\ Backed(b) => Backed(b)'
  <2>1. worked' \in [Ids -> Nat] /\ \A x \in Ids : worked[x] =< worked'[x]
    BY DEF KillDuringOpen, IInv, GhostsOK
  <2>2. QED
    BY <2>1, DownBacked DEF KillDuringOpen
<1>3. \A b : b = Replay(file, rec) => Backed(b)'
  <2>1. SUFFICES ASSUME NEW b, b = OpenIn(file, id)
                 PROVE  Backed(b)'
    BY <1>2 DEF Replay, OpenRecord, IInv, FileOK
  <2>2. b.of = [file.of EXCEPT ![id] = New] /\ file \in Book
    BY <2>1 DEF OpenIn, IInv, FileOK, Journalled
  <2>3. QED
    BY <2>2 DEF Backed, IInv, FileOK, New, Book, GhostsOK, KillDuringOpen, Down
<1>4. PICK outcome \in Outcomes : JournalAppend(rec, outcome)
  BY DEF KillDuringOpen
<1>5. rec \in Records /\ rec.op # "credit"
  BY DEF OpenRecord, Records
<1>6. TailOK' /\ FileOK' /\ ReplayOK'
  BY <1>2, <1>3, <1>4, <1>5, AppendBacked DEF IInv
<1>7. QED
  BY <1>1, <1>6 DEF IInv

\* Crediting the share in memory, to a redemption memory knows.
LEMMA CreditMemory ==
  ASSUME IInv, up, NEW id \in Ids, NEW h \in ShareHashes, Knows(mem, id),
         up' = up, mem' = CreditIn(mem, id, h),
         worked' = IF IsComplete(mem, id) THEN worked ELSE [worked EXCEPT ![id] = @ + h]
  PROVE  /\ MemoryOK'
         /\ \A x \in Ids : /\ Knows(mem, x) => Knows(mem', x)
                           /\ mem.of[x].acc =< mem'.of[x].acc
<1> DEFINE r == CreditHashes(id, mem.of[id], h)
<1>1. mem \in Book /\ mem.of[id] \in Redemption /\ Fits(id, mem.of[id]) /\ h \in Nat
  BY SharesAssumption DEF IInv, MemoryOK, Book
<1>2. mem'.of = [mem.of EXCEPT ![id] = r]
  BY DEF CreditIn
<1>3. mem' \in Book /\ OrderMatches(mem')
  BY <1>1, CreditInBook DEF IInv, MemoryOK
<1>4. /\ r \in Redemption /\ Fits(id, r) /\ r.state # "Absent"
      /\ mem.of[id].acc =< r.acc /\ r.acc =< mem.of[id].acc + h
  BY <1>1, FitsCredit DEF CreditHashes, Redemption, Knows
<1>5. \A x \in Ids : Fits(x, mem'.of[x])
  BY <1>1, <1>2, <1>4 DEF IInv, MemoryOK, Book
<1>6. \A x \in Ids : mem'.of[x].acc =< worked'[x]
  <2>1. CASE IsComplete(mem, id)
    <3>1. r = mem.of[id] /\ mem'.of = mem.of
      BY <1>1, <1>2, <2>1 DEF CreditHashes, IsComplete, Book
    <3>2. QED
      BY <2>1, <3>1 DEF IInv, MemoryOK
  <2>2. CASE ~IsComplete(mem, id)
    BY <1>1, <1>2, <1>4, <2>2 DEF IInv, MemoryOK, GhostsOK, Book, Redemption
  <2>3. QED
    BY <2>1, <2>2
<1>7. MemoryOK'
  BY <1>3, <1>5, <1>6 DEF MemoryOK, Fits, OrderMatches, Knows
<1>8. QED
  BY <1>1, <1>2, <1>4, <1>7 DEF Knows, Book, Redemption

\* A credit record stays backed by the work behind it, and, if the process
\* survives the write, by the credit in memory.
LEMMA CreditRecordBacked ==
  ASSUME IInv, up, NEW id \in Ids, NEW h \in ShareHashes \ {0},
         Knows(mem, id), ~IsComplete(mem, id),
         up' = FALSE \/ mem' = CreditIn(mem, id, h),
         worked' = [worked EXCEPT ![id] = @ + h],
         \A b : Journalled(b) /\ Backed(b) => Backed(b)',
         NEW b, b = Replay(file, CreditRecord(id, h))
  PROVE  Backed(b)'
<1>1. SUFFICES ASSUME Knows(file, id), b = CreditIn(file, id, h)
               PROVE  Backed(b)'
  BY DEF Replay, CreditRecord, IInv, FileOK
<1> DEFINE r == CreditHashes(id, file.of[id], h)
<1>2. /\ file \in Book /\ file.of[id] \in Redemption /\ h \in Nat
      /\ b.of = [file.of EXCEPT ![id] = r]
      /\ mem \in Book /\ mem.of[id] \in Redemption
  BY <1>1, SharesAssumption DEF IInv, FileOK, Journalled, MemoryOK, Book, CreditIn
<1>3. r.acc \in Nat /\ r.acc =< file.of[id].acc + h
  BY <1>2 DEF CreditHashes, Redemption
<1>4. \A x \in Ids : b.of[x].acc =< worked'[x]
  BY <1>2, <1>3 DEF IInv, FileOK, Backed, GhostsOK, Book, Redemption
<1>5. CASE up' = FALSE
  BY <1>4, <1>5 DEF Backed
<1>6. CASE mem' = CreditIn(mem, id, h)
  <2>1. mem'.of = [mem.of EXCEPT ![id] = CreditHashes(id, mem.of[id], h)]
    BY <1>6 DEF CreditIn
  <2>2. /\ mem'.of[id].acc = mem.of[id].acc + h
        /\ mem'.of[id].state # "Absent"
    BY <1>2, <2>1 DEF CreditHashes, IsComplete, Book
  <2>3. \A x \in Ids : /\ Knows(b, x) => Knows(mem', x)
                       /\ b.of[x].acc =< mem'.of[x].acc
    BY <1>2, <1>3, <2>1, <2>2 DEF IInv, FileOK, Backed, Knows, Book, Redemption
  <2>4. QED
    BY <1>4, <2>3 DEF Backed, Knows
<1>7. QED
  BY <1>5, <1>6

\* credit_share_outcome keeps the invariant.
LEMMA CreditShareStep ==
  ASSUME IInv, NEW id \in Ids, NEW h \in ShareHashes, CreditShare(id, h)
  PROVE  IInv'
<1> DEFINE rec == CreditRecord(id, h)
<1>1. h \in Nat
  BY SharesAssumption
<1>2. GhostsOK'
  BY <1>1 DEF IInv, GhostsOK, CreditShare
<1>3. /\ MemoryOK'
      /\ \A x \in Ids : /\ Knows(mem, x) => Knows(mem', x)
                        /\ mem.of[x].acc =< mem'.of[x].acc
  BY CreditMemory DEF CreditShare
<1>4. \A b : Journalled(b) /\ Backed(b) => Backed(b)'
  <2>1. worked' \in [Ids -> Nat] /\ \A x \in Ids : worked[x] =< worked'[x]
    BY <1>1 DEF IInv, GhostsOK, CreditShare
  <2>2. up /\ mem' \in Book
    BY <1>3 DEF MemoryOK, CreditShare
  <2>3. QED
    BY <1>3, <2>1, <2>2, BackedMonotone
<1>5. CASE ~IsComplete(mem, id) /\ h > 0
  <2>1. h \in ShareHashes \ {0}
    BY <1>1, <1>5
  <2>2. PICK outcome \in Outcomes : JournalAppend(rec, outcome)
    BY <1>5 DEF CreditShare, Record, Outcomes
  <2>3. \A b : b = Replay(file, rec) => Backed(b)'
    BY <1>4, <1>5, <2>1, CreditRecordBacked DEF CreditShare
  <2>4. rec \in Records /\ (rec.op = "credit" => rec.hashes \in ShareHashes \ {0})
    BY <1>1, <2>1 DEF CreditRecord, Records
  <2>5. TailOK' /\ FileOK' /\ ReplayOK'
    BY <1>4, <2>2, <2>3, <2>4, AppendBacked DEF IInv
  <2>6. QED
    BY <1>2, <1>3, <2>5 DEF IInv
<1>6. CASE ~(~IsComplete(mem, id) /\ h > 0)
  <2>1. UNCHANGED <<file, tail, unreadable>> /\ Replayed' = Replayed
    BY <1>6 DEF CreditShare, journal, Replayed
  <2>2. TailOK' /\ FileOK' /\ ReplayOK'
    BY <1>4, <2>1 DEF IInv, TailOK, FileOK, ReplayOK
  <2>3. QED
    BY <1>2, <1>3, <2>2 DEF IInv
<1>7. QED
  BY <1>5, <1>6

\* So does a kill while the credit record is being written.
LEMMA KillDuringCreditStep ==
  ASSUME IInv, NEW id \in Ids, NEW h \in ShareHashes, KillDuringCredit(id, h)
  PROVE  IInv'
<1> DEFINE rec == CreditRecord(id, h)
<1>1. h \in ShareHashes \ {0} /\ h \in Nat
  BY SharesAssumption DEF KillDuringCredit
<1>2. GhostsOK' /\ MemoryOK'
  <2>1. worked' \in [Ids -> Nat]
    BY <1>1 DEF KillDuringCredit, IInv, GhostsOK
  <2>2. up' \in BOOLEAN /\ completions' \in [Ids -> Nat]
    BY DEF KillDuringCredit, Down, IInv, GhostsOK
  <2>3. QED
    BY <2>1, <2>2, DownMemory DEF KillDuringCredit, GhostsOK
<1>3. \A b : Journalled(b) /\ Backed(b) => Backed(b)'
  <2>1. worked' \in [Ids -> Nat] /\ \A x \in Ids : worked[x] =< worked'[x]
    BY <1>1 DEF KillDuringCredit, IInv, GhostsOK
  <2>2. QED
    BY <2>1, DownBacked DEF KillDuringCredit
<1>4. \A b : b = Replay(file, rec) => Backed(b)'
  BY <1>1, <1>3, CreditRecordBacked DEF KillDuringCredit, Down
<1>5. PICK outcome \in Outcomes : JournalAppend(rec, outcome)
  BY DEF KillDuringCredit
<1>6. rec \in Records /\ (rec.op = "credit" => rec.hashes \in ShareHashes \ {0})
  BY <1>1 DEF CreditRecord, Records
<1>7. TailOK' /\ FileOK' /\ ReplayOK'
  BY <1>3, <1>4, <1>5, <1>6, AppendBacked DEF IInv
<1>8. QED
  BY <1>2, <1>7 DEF IInv

\* A kill between two operations keeps the invariant.
LEMMA KillStep ==
  ASSUME IInv, Kill
  PROVE  IInv'
<1>1. GhostsOK' /\ MemoryOK'
  BY DownMemory DEF Kill, Down, IInv, GhostsOK
<1>2. \A b : Journalled(b) /\ Backed(b) => Backed(b)'
  <2>1. worked' \in [Ids -> Nat] /\ \A x \in Ids : worked[x] =< worked'[x]
    BY DEF Kill, IInv, GhostsOK
  <2>2. QED
    BY <2>1, DownBacked DEF Kill
<1>3. UNCHANGED <<file, tail, unreadable>> /\ Replayed' = Replayed
  BY DEF Kill, journal, Replayed
<1>4. TailOK' /\ FileOK' /\ ReplayOK'
  BY <1>2, <1>3 DEF IInv, TailOK, FileOK, ReplayOK
<1>5. QED
  BY <1>1, <1>4 DEF IInv

\* Both outcomes of reading the journal leave a file whose lines, all
\* terminated, replay to what they replayed to before.
LEMMA FileAfterReading ==
  ASSUME IInv, NEW f, f \in {Replayed, Compact(Replayed)}
  PROVE  f = Replayed /\ Replay(f, NoTail) = Replayed
  BY CompactionLosesNothing DEF IInv, ReplayOK, Replay, NoTail

\* persistent() keeps the invariant.
LEMMA StartStep ==
  ASSUME IInv, Start
  PROVE  IInv'
<1>1. mem' = Replayed /\ file' = Replayed /\ Replayed' = Replayed
  BY FileAfterReading DEF Start, Replayed
<1>2. Journalled(Replayed) /\ Replayed \in Book
  BY DEF IInv, ReplayOK, Journalled
<1>3. GhostsOK' /\ TailOK'
  BY DEF IInv, GhostsOK, TailOK, Start, NoTail
<1>4. MemoryOK'
  BY <1>1, <1>2 DEF IInv, ReplayOK, Journalled, Backed, MemoryOK, Start, Fits, OrderMatches, Knows
<1>5. \A b : b = Replayed => Backed(b)'
  <2>1. \A id \in Ids : Replayed.of[id].acc \in Nat
    BY <1>2 DEF Book, Redemption
  <2>2. QED
    BY <1>1, <2>1 DEF IInv, ReplayOK, Backed, Start, Knows
<1>6. FileOK' /\ ReplayOK'
  BY <1>1, <1>2, <1>5 DEF FileOK, ReplayOK
<1>7. QED
  BY <1>3, <1>4, <1>6 DEF IInv

\* So does a start that fails after it has touched the file.
LEMMA StartFailsStep ==
  ASSUME IInv, StartFails
  PROVE  IInv'
<1>1. file' = Replayed /\ Replayed' = Replayed
  BY FileAfterReading DEF StartFails, Replayed
<1>2. GhostsOK' /\ TailOK' /\ MemoryOK'
  BY DEF IInv, GhostsOK, TailOK, MemoryOK, StartFails, NoTail
<1>3. \A b : Backed(b) => Backed(b)'
  BY DEF Backed, StartFails
<1>4. FileOK' /\ ReplayOK'
  BY <1>1, <1>3 DEF IInv, FileOK, ReplayOK
<1>5. QED
  BY <1>2, <1>4 DEF IInv

\* Every step of the ledger keeps the invariant.
LEMMA StepIInv == IInv /\ [Next]_vars => IInv'
<1> SUFFICES ASSUME IInv, [Next]_vars
             PROVE  IInv'
  OBVIOUS
<1>1. ASSUME NEW id \in Ids, Open(id) PROVE IInv'
  BY <1>1, OpenStep
<1>2. ASSUME NEW id \in Ids, KillDuringOpen(id) PROVE IInv'
  BY <1>2, KillDuringOpenStep
<1>3. ASSUME NEW id \in Ids, NEW h \in ShareHashes, CreditShare(id, h) PROVE IInv'
  BY <1>3, CreditShareStep
<1>4. ASSUME NEW id \in Ids, NEW h \in ShareHashes, KillDuringCredit(id, h) PROVE IInv'
  BY <1>4, KillDuringCreditStep
<1>5. CASE Kill
  BY <1>5, KillStep
<1>6. CASE Start
  BY <1>6, StartStep
<1>7. CASE StartFails
  BY <1>7, StartFailsStep
<1>8. CASE UNCHANGED vars
  BY <1>8 DEF vars, journal, IInv, GhostsOK, TailOK, MemoryOK, FileOK, ReplayOK, Backed, Replayed
<1>9. QED
  BY <1>1, <1>2, <1>3, <1>4, <1>5, <1>6, <1>7, <1>8 DEF Next

\* The invariant holds in every reachable state.
LEMMA Inductive == Spec => []IInv
  BY InitIInv, StepIInv, PTL DEF Spec, Safety

-----------------------------------------------------------------------------
\* The theorems.

\* Every variable of the ledger and its journal keeps its type.
THEOREM TypeCorrect == Spec => []TypeOK
<1>1. IInv => TypeOK
  BY DEF IInv, GhostsOK, TailOK, MemoryOK, FileOK, Journalled, TypeOK
<1>2. QED
  BY <1>1, Inductive, PTL

\* Neither memory nor any restart from the journal credits a redemption with
\* more hashes than were accepted for it, whatever writes failed.
THEOREM NeverOverCreditedHolds == Spec => []NeverOverCredited
<1>1. IInv => NeverOverCredited
  BY DEF IInv, MemoryOK, ReplayOK, Backed, NeverOverCredited
<1>2. QED
  BY <1>1, Inductive, PTL

\* A filled redemption was less than one share away from its target.
THEOREM OvershootBounded == Spec => []OvershootsByLessThanAShare
<1>1. IInv => OvershootsByLessThanAShare
  <2> SUFFICES ASSUME IInv, NEW id \in Ids, mem.of[id].acc >= Target[id]
               PROVE  \E h \in ShareHashes : mem.of[id].acc < Target[id] + h
    BY DEF OvershootsByLessThanAShare
  <2>1. mem.of[id] \in Redemption /\ Fits(id, mem.of[id]) /\ Target[id] \in Nat \ {0}
    BY TargetAssumption DEF IInv, MemoryOK, Book
  <2>2. QED
    BY <2>1 DEF Fits, Redemption, States
<1>2. QED
  BY <1>1, Inductive, PTL

\* What a restart would restore is never ahead of the running process.
THEOREM ReplayNeverAheadHolds == Spec => []ReplayNeverAhead
<1>1. IInv => ReplayNeverAhead
  BY DEF IInv, ReplayOK, Backed, ReplayNeverAhead
<1>2. QED
  BY <1>1, Inductive, PTL

\* Compaction never changes what the journal replays to.
THEOREM CompactionExactHolds == Spec => []CompactionExact
<1>1. IInv => CompactionExact
  BY CompactionLosesNothing DEF IInv, ReplayOK, CompactionExact
<1>2. QED
  BY <1>1, Inductive, PTL

\* The order list names each known redemption exactly once, in memory and in
\* what a restart would restore.
THEOREM OrderListsTheKnownHolds == Spec => []OrderListsTheKnown
<1>1. IInv => OrderListsTheKnown
  BY DEF IInv, MemoryOK, ReplayOK, Journalled, OrderListsTheKnown
<1>2. QED
  BY <1>1, Inductive, PTL

-----------------------------------------------------------------------------
\* The order a restart serves redemptions in.  It rests on the invariant above:
\* a redemption on file is one memory knows, so a redemption opened now comes
\* after all those on file, in memory too.

\* The redemptions b lists are listed by m, in the same order.
OlderFirst(b, m) ==
    \A i, j \in DOMAIN b.order : i < j =>
        \E k, l \in DOMAIN m.order :
            /\ k < l
            /\ m.order[k] = b.order[i]
            /\ m.order[l] = b.order[j]

OrderKept == up => OlderFirst(file, mem) /\ OlderFirst(Replayed, mem)

\* What is listed in m's order stays so when m opens one more.
LEMMA OlderFirstInLonger ==
  ASSUME NEW b, NEW m \in Book, NEW id \in Ids, OlderFirst(b, m)
  PROVE  OlderFirst(b, OpenIn(m, id))
<1>1. /\ OpenIn(m, id).order = Append(m.order, id)
      /\ m.order \in Seq(Ids)
  BY DEF OpenIn, Book
<1>2. \A k \in DOMAIN m.order : /\ k \in DOMAIN Append(m.order, id)
                                /\ Append(m.order, id)[k] = m.order[k]
  BY <1>1
<1>3. QED
  BY <1>1, <1>2 DEF OlderFirst

\* A redemption opened in both is the last in both.
LEMMA OlderFirstOpened ==
  ASSUME NEW b \in Book, NEW m \in Book, NEW id \in Ids, OlderFirst(b, m),
         OrderMatches(b), OrderMatches(m),
         \A x \in Ids : Knows(b, x) => Knows(m, x)
  PROVE  OlderFirst(OpenIn(b, id), OpenIn(m, id))
<1> DEFINE p == Append(b.order, id)
           q == Append(m.order, id)
           n == Len(b.order)
           t == Len(m.order)
<1>1. /\ OpenIn(b, id).order = p /\ OpenIn(m, id).order = q
      /\ b.order \in Seq(Ids) /\ m.order \in Seq(Ids)
  BY DEF OpenIn, Book
<1>2. /\ n \in Nat /\ DOMAIN b.order = 1 .. n /\ DOMAIN p = 1 .. n + 1
      /\ \A i \in 1 .. n : p[i] = b.order[i] /\ b.order[i] \in Ids
      /\ p[n + 1] = id
  BY <1>1
<1>3. /\ t \in Nat /\ DOMAIN m.order = 1 .. t /\ DOMAIN q = 1 .. t + 1
      /\ \A k \in 1 .. t : q[k] = m.order[k]
      /\ q[t + 1] = id
  BY <1>1
<1>4. \A i \in 1 .. n : \E k \in 1 .. t : m.order[k] = b.order[i]
  BY <1>2, <1>3 DEF OrderMatches
<1>5. \A i, j \in 1 .. n : i < j =>
        \E k, l \in 1 .. t : k < l /\ m.order[k] = b.order[i] /\ m.order[l] = b.order[j]
  <2> SUFFICES ASSUME NEW i \in 1 .. n, NEW j \in 1 .. n, i < j
               PROVE  \E k, l \in 1 .. t : k < l /\ m.order[k] = b.order[i] /\ m.order[l] = b.order[j]
    OBVIOUS
  <2>1. i \in DOMAIN b.order /\ j \in DOMAIN b.order /\ DOMAIN m.order = 1 .. t
    BY <1>2, <1>3
  <2> HIDE DEF n, t
  <2>2. \E k, l \in DOMAIN m.order : k < l /\ m.order[k] = b.order[i] /\ m.order[l] = b.order[j]
    BY <2>1 DEF OlderFirst
  <2>3. QED
    BY <2>1, <2>2
<1> HIDE DEF p, q, n, t
<1>6. ASSUME NEW i \in 1 .. n + 1, NEW j \in 1 .. n + 1, i < j
      PROVE  \E k, l \in 1 .. t + 1 : k < l /\ q[k] = p[i] /\ q[l] = p[j]
  <2>1. i \in 1 .. n
    BY <1>2, <1>6
  <2>2. CASE j \in 1 .. n
    <3>1. PICK k \in 1 .. t, l \in 1 .. t :
             k < l /\ m.order[k] = b.order[i] /\ m.order[l] = b.order[j]
      BY <1>5, <1>6, <2>1, <2>2
    <3>2. k \in 1 .. t + 1 /\ l \in 1 .. t + 1
      BY <1>3
    <3>3. QED
      BY <1>2, <1>3, <2>1, <2>2, <3>1, <3>2
  <2>3. CASE j = n + 1
    <3>1. PICK k \in 1 .. t : m.order[k] = b.order[i]
      BY <1>4, <2>1
    <3>2. k < t + 1 /\ k \in 1 .. t + 1 /\ t + 1 \in 1 .. t + 1
      BY <1>3, <3>1
    <3>3. QED
      BY <1>2, <1>3, <2>1, <2>3, <3>1, <3>2
  <2>4. QED
    BY <1>2, <1>6, <2>2, <2>3
<1>7. \A i, j \in DOMAIN p : i < j =>
        \E k, l \in DOMAIN q : k < l /\ q[k] = p[i] /\ q[l] = p[j]
  <2>1. DOMAIN p = 1 .. n + 1 /\ DOMAIN q = 1 .. t + 1
    BY <1>2, <1>3
  <2>2. SUFFICES ASSUME NEW i \in DOMAIN p, NEW j \in DOMAIN p, i < j
                 PROVE  \E k, l \in DOMAIN q : k < l /\ q[k] = p[i] /\ q[l] = p[j]
    OBVIOUS
  <2>3. \E k, l \in 1 .. t + 1 : k < l /\ q[k] = p[i] /\ q[l] = p[j]
    BY <1>6, <2>1, <2>2
  <2>4. QED
    BY <2>1, <2>3
<1>8. QED
  BY <1>1, <1>7 DEF OlderFirst

\* Opening a redemption keeps the order, whatever became of the write.
LEMMA OpenKeepsOrder ==
  ASSUME IInv, OrderKept, NEW id \in Ids, Open(id)
  PROVE  OrderKept'
<1>1. /\ up /\ mem' = OpenIn(mem, id)
      /\ mem \in Book /\ OrderMatches(mem)
      /\ file \in Book /\ OrderMatches(file)
      /\ \A x \in Ids : Knows(file, x) => Knows(mem, x)
  BY DEF Open, IInv, MemoryOK, FileOK, Journalled, Backed
<1>2. OlderFirst(file, mem') /\ OlderFirst(Replayed, mem')
  BY <1>1, OlderFirstInLonger DEF OrderKept
<1>3. OlderFirst(OpenIn(file, id), mem')
  BY <1>1, OlderFirstOpened DEF OrderKept
<1>4. OlderFirst(Replay(file, OpenRecord(id)), mem')
  BY <1>2, <1>3 DEF Replay, OpenRecord
<1>5. PICK outcome \in Outcomes : JournalAppend(OpenRecord(id), outcome)
  BY DEF Open, Record, Outcomes
<1>6. OpenRecord(id) \in Records /\ OpenRecord(id).op # "credit"
  BY DEF OpenRecord, Records
<1>7. /\ file' \in {file, Replay(file, OpenRecord(id))}
      /\ Replayed' \in {Replayed, file, Replay(file, OpenRecord(id))}
  BY <1>5, <1>6, AppendOutcome DEF IInv
<1>8. QED
  BY <1>2, <1>4, <1>7 DEF OrderKept

\* A credit moves no redemption.
LEMMA CreditKeepsOrder ==
  ASSUME IInv, OrderKept, NEW id \in Ids, NEW h \in ShareHashes, CreditShare(id, h)
  PROVE  OrderKept'
<1>1. up /\ mem'.order = mem.order
  BY DEF CreditShare, CreditIn
<1>2. \A b : OlderFirst(b, mem) => OlderFirst(b, mem')
  BY <1>1 DEF OlderFirst
<1>3. Replay(file, CreditRecord(id, h)).order = file.order
  BY DEF Replay, CreditRecord, CreditIn
<1>4. OlderFirst(Replay(file, CreditRecord(id, h)), mem')
  BY <1>1, <1>3 DEF OlderFirst, OrderKept
<1>5. CASE ~IsComplete(mem, id) /\ h > 0
  <2>1. PICK outcome \in Outcomes : JournalAppend(CreditRecord(id, h), outcome)
    BY <1>5 DEF CreditShare, Record, Outcomes
  <2>2. /\ CreditRecord(id, h) \in Records
        /\ CreditRecord(id, h).hashes \in ShareHashes \ {0}
    BY <1>5, SharesAssumption DEF CreditRecord, Records
  <2>3. /\ file' \in {file, Replay(file, CreditRecord(id, h))}
        /\ Replayed' \in {Replayed, file, Replay(file, CreditRecord(id, h))}
    BY <2>1, <2>2, AppendOutcome DEF IInv
  <2>4. QED
    BY <1>1, <1>2, <1>4, <2>3 DEF OrderKept
<1>6. CASE ~(~IsComplete(mem, id) /\ h > 0)
  <2>1. file' = file /\ Replayed' = Replayed
    BY <1>6 DEF CreditShare, journal, Replayed
  <2>2. QED
    BY <1>1, <1>2, <2>1 DEF OrderKept
<1>7. QED
  BY <1>5, <1>6

\* A process that has just started lists what the journal lists.
LEMMA StartKeepsOrder ==
  ASSUME IInv, Start
  PROVE  OrderKept'
<1>1. mem' = Replayed /\ file' = Replayed /\ Replayed' = Replayed
  BY FileAfterReading DEF Start, Replayed
<1>2. OlderFirst(Replayed, Replayed)
  BY DEF OlderFirst
<1>3. QED
  BY <1>1, <1>2 DEF OrderKept

\* Every step of the ledger keeps the order.
LEMMA StepOrder == IInv /\ OrderKept /\ [Next]_vars => OrderKept'
<1> SUFFICES ASSUME IInv, OrderKept, [Next]_vars
             PROVE  OrderKept'
  OBVIOUS
<1>1. ASSUME NEW id \in Ids, Open(id) PROVE OrderKept'
  BY <1>1, OpenKeepsOrder
<1>2. ASSUME NEW id \in Ids, NEW h \in ShareHashes, CreditShare(id, h) PROVE OrderKept'
  BY <1>2, CreditKeepsOrder
<1>3. ASSUME \/ Kill
             \/ StartFails
             \/ \E id \in Ids : KillDuringOpen(id)
             \/ \E id \in Ids, h \in ShareHashes : KillDuringCredit(id, h)
      PROVE  OrderKept'
  <2>1. ~up'
    BY <1>3 DEF Kill, KillDuringOpen, KillDuringCredit, StartFails, Down
  <2>2. QED
    BY <2>1 DEF OrderKept
<1>4. CASE Start
  BY <1>4, StartKeepsOrder
<1>5. CASE UNCHANGED vars
  BY <1>5 DEF vars, journal, OrderKept, Replayed
<1>6. QED
  BY <1>1, <1>2, <1>3, <1>4, <1>5 DEF Next

\* Of two redemptions that the journal holds, memory lists the older one first:
\* a restart changes the order of none.
THEOREM RestartKeepsMeltOrderHolds == Spec => []RestartKeepsMeltOrder
<1>1. Init => OrderKept
  BY DEF Init, OrderKept
<1>2. OrderKept => RestartKeepsMeltOrder
  BY DEF OrderKept, OlderFirst, RestartKeepsMeltOrder
<1>3. QED
  BY <1>1, <1>2, Inductive, StepOrder, PTL DEF Spec, Safety

-----------------------------------------------------------------------------
(***************************************************************************)
(* Without write errors the journalled ledger implements RedemptionPromise *)
(* for every set of redemptions, every target and every share: no kill and *)
(* no restart takes back credit or announces a completion twice.           *)
(*                                                                         *)
(* On top of the inductive invariant: while the process runs the file      *)
(* agrees with memory on what is open and on the credit of each redemption *)
(* (not on its state: a share worth nothing makes a redemption active in   *)
(* memory only), and whatever was announced is filled in what callers see. *)
(***************************************************************************)

Same(b, c) ==
    \A id \in Ids : /\ Knows(b, id) <=> Knows(c, id)
                    /\ b.of[id].acc = c.of[id].acc

Durable == up => tail = NoTail /\ Same(file, mem)

Announced ==
    \A id \in Ids : /\ completions[id] =< 1
                    /\ completions[id] > 0 => Effective.of[id].acc >= Target[id]

PInv == IInv /\ Durable /\ Announced

-----------------------------------------------------------------------------
\* What callers see is a book like any other, before and after each step.
LEMMA EffectiveFits ==
  ASSUME IInv
  PROVE  Effective \in Book /\ \A id \in Ids : Fits(id, Effective.of[id])
  BY DEF IInv, MemoryOK, ReplayOK, Journalled, Effective

\* When the last line was whole, a write that completes adds its record to the
\* file, and any other leaves a journal that replays to the file as it was or
\* with the record.
LEMMA AppendReplays ==
  ASSUME tail = NoTail, NEW rec \in Records, NEW outcome \in Outcomes,
         JournalAppend(rec, outcome)
  PROVE  /\ Replayed' \in {file, Replay(file, rec)}
         /\ outcome = "line" => tail' = NoTail /\ file' = Replay(file, rec)
<1>1. \A b : Replay(b, NoTail) = b /\ Replay(b, Torn) = b
  BY DEF Replay, NoTail, Torn
<1>2. CASE outcome = "line"
  BY <1>1, <1>2 DEF JournalAppend, Replayed
<1>3. CASE outcome # "line"
  <2>1. file' = file /\ tail' \in {NoTail, Torn, rec}
    BY <1>3 DEF JournalAppend
  <2>2. QED
    BY <1>1, <1>3, <2>1 DEF Replayed
<1>4. QED
  BY <1>2, <1>3

\* Without write errors the running process only writes whole lines.
LEMMA RecordWritesALine ==
  ASSUME ~WriteErrors, tail = NoTail, NEW rec \in Records, Record(rec)
  PROVE  tail' = NoTail /\ file' = Replay(file, rec)
<1>1. "line" \in Outcomes /\ JournalAppend(rec, "line")
  BY DEF Record, Outcomes
<1>2. QED
  BY <1>1, AppendReplays

\* Agreement is kept when one redemption is opened in both books.
LEMMA SameOpen ==
  ASSUME NEW b, NEW c, b \in Book, c \in Book, Same(b, c),
         NEW id \in Ids
  PROVE  Same(OpenIn(b, id), OpenIn(c, id))
  BY DEF Same, OpenIn, Book, Knows

\* Agreement is kept when both books credit a redemption that is not complete.
LEMMA SameCredit ==
  ASSUME NEW b, NEW c, b \in Book, c \in Book, Same(b, c),
         NEW id \in Ids, NEW h \in Nat, ~IsComplete(b, id), ~IsComplete(c, id),
         Knows(b, id)
  PROVE  Same(CreditIn(b, id, h), CreditIn(c, id, h))
<1> DEFINE r == CreditHashes(id, b.of[id], h)
           s == CreditHashes(id, c.of[id], h)
<1>1. r.acc = b.of[id].acc + h /\ s.acc = c.of[id].acc + h
  BY DEF CreditHashes, IsComplete
<1>2. r.state # "Absent" /\ s.state # "Absent"
  BY DEF CreditHashes, IsComplete
<1>3. /\ CreditIn(b, id, h).of = [b.of EXCEPT ![id] = r]
      /\ CreditIn(c, id, h).of = [c.of EXCEPT ![id] = s]
  BY DEF CreditIn
<1> HIDE DEF r, s
<1>4. QED
  BY <1>1, <1>2, <1>3 DEF Same, Book, Knows

-----------------------------------------------------------------------------
\* The steps, as callers see them.

\* A step that changes neither what is open, nor credit, nor announcements.
LEMMA UnseenStep ==
  ASSUME PInv, PInv', Same(Effective', Effective), completions' = completions
  PROVE  UNCHANGED Promise!promised
<1>1. \A id \in Ids : Knows(Effective', id) <=> Knows(Effective, id)
  BY DEF Same
<1>2. \A id \in Ids : Effective'.of[id].acc = Effective.of[id].acc
  BY DEF Same
<1>3. QED
  BY <1>1, <1>2 DEF Promise!promised, Knows

\* A redemption callers did not know is opened.
LEMMA OpenStepMaps ==
  ASSUME PInv, NEW id \in Ids, ~Knows(Effective, id),
         Same(Effective', OpenIn(Effective, id)), completions' = completions
  PROVE  Promise!Open(id)
<1>1. Effective \in Book /\ Effective.of[id].acc = 0
  BY EffectiveFits DEF PInv, Fits, Knows, Book, Redemption, States
<1>2. \A x \in Ids : Knows(Effective', x) <=> (Knows(Effective, x) \/ x = id)
  BY <1>1 DEF Same, OpenIn, Knows, Book, New
<1>3. \A x \in Ids : Effective'.of[x].acc = Effective.of[x].acc
  BY <1>1 DEF Same, OpenIn, Book, New
<1>4. QED
  BY <1>2, <1>3 DEF Promise!Open, Knows

\* A share counts towards a redemption that is not filled; if that is
\* announced, the redemption is filled now.
LEMMA CreditStepMaps ==
  ASSUME PInv, NEW id \in Ids, NEW h \in ShareHashes,
         Knows(Effective, id), ~IsComplete(Effective, id),
         Same(Effective', CreditIn(Effective, id, h)),
         \/ completions' = completions
         \/ /\ completions' = [completions EXCEPT ![id] = @ + 1]
            /\ Effective'.of[id].acc >= Target[id]
  PROVE  Promise!Credit(id, h)
<1> DEFINE r == CreditHashes(id, Effective.of[id], h)
<1>1. /\ Effective \in Book /\ Effective.of[id] \in Redemption
      /\ Effective.of[id].acc < Target[id]
  BY EffectiveFits, TargetAssumption
  DEF PInv, Fits, Knows, IsComplete, Book, Redemption, States
<1>2. r.acc = Effective.of[id].acc + h /\ r.state # "Absent"
  BY DEF CreditHashes, IsComplete
<1>3. CreditIn(Effective, id, h).of = [Effective.of EXCEPT ![id] = r]
  BY DEF CreditIn
<1> HIDE DEF r
<1>4. \A x \in Ids : Knows(Effective', x) <=> Knows(Effective, x)
  BY <1>1, <1>2, <1>3 DEF Same, Knows, Book
<1>5. \A x \in Ids : Effective'.of[x].acc =
                       IF x = id THEN Effective.of[id].acc + h ELSE Effective.of[x].acc
  BY <1>1, <1>2, <1>3 DEF Same, Book
<1>6. [x \in Ids |-> Effective'.of[x].acc] =
        [[x \in Ids |-> Effective.of[x].acc] EXCEPT ![id] = @ + h]
  BY <1>5
<1>7. {x \in Ids : Knows(Effective', x)} = {x \in Ids : Knows(Effective, x)}
  BY <1>4
<1>8. CASE completions' = completions
  BY <1>1, <1>6, <1>7, <1>8 DEF Promise!Credit
<1>9. CASE /\ completions' = [completions EXCEPT ![id] = @ + 1]
           /\ Effective'.of[id].acc >= Target[id]
  <2>1. completions \in [Ids -> Nat]
    BY DEF PInv, IInv, GhostsOK
  <2>2. {x \in Ids : completions'[x] > 0} = {x \in Ids : completions[x] > 0} \cup {id}
    BY <1>9, <2>1
  <2>3. QED
    BY <1>1, <1>6, <1>7, <1>9, <2>2 DEF Promise!Credit
<1>10. QED
  BY <1>8, <1>9

-----------------------------------------------------------------------------
\* Each step of the ledger keeps the two invariants and maps to a step of the
\* promise, or to none.

\* What is to be shown of a step.
Kept == Durable' /\ Announced' /\ [Promise!Next]_(Promise!promised)

\* It is enough to know what callers see of the step.
LEMMA SeenSteps ==
  ASSUME PInv, IInv', Durable', completions' \in [Ids -> Nat],
         \/ Same(Effective', Effective) /\ completions' = completions
         \/ \E id \in Ids : /\ ~Knows(Effective, id)
                            /\ Same(Effective', OpenIn(Effective, id))
                            /\ completions' = completions
         \/ \E id \in Ids, h \in ShareHashes :
               /\ Knows(Effective, id) /\ ~IsComplete(Effective, id)
               /\ Same(Effective', CreditIn(Effective, id, h))
               /\ \/ completions' = completions
                  \/ /\ completions' = [completions EXCEPT ![id] = @ + 1]
                     /\ Effective'.of[id].acc >= Target[id]
  PROVE  Kept
<1>1. Effective \in Book /\ \A x \in Ids : Fits(x, Effective.of[x])
  BY EffectiveFits DEF PInv
<1>2. CASE Same(Effective', Effective) /\ completions' = completions
  <2>1. Announced'
    BY <1>2 DEF PInv, Announced, Same
  <2>2. PInv'
    BY <2>1 DEF PInv
  <2>3. QED
    BY <1>2, <2>1, <2>2, UnseenStep DEF Kept
<1>3. ASSUME NEW id \in Ids, ~Knows(Effective, id),
             Same(Effective', OpenIn(Effective, id)), completions' = completions
      PROVE  Kept
  <2>1. \A x \in Ids : Effective'.of[x].acc = Effective.of[x].acc
    BY <1>1, <1>3 DEF Same, OpenIn, Book, New, Fits, Knows
  <2>2. Announced'
    BY <1>3, <2>1 DEF PInv, Announced
  <2>3. QED
    BY <1>3, <2>2, OpenStepMaps DEF Kept, Promise!Next
<1>4. ASSUME NEW id \in Ids, NEW h \in ShareHashes,
             Knows(Effective, id), ~IsComplete(Effective, id),
             Same(Effective', CreditIn(Effective, id, h)),
             \/ completions' = completions
             \/ /\ completions' = [completions EXCEPT ![id] = @ + 1]
                /\ Effective'.of[id].acc >= Target[id]
      PROVE  Kept
  <2>1. /\ \A x \in Ids : Effective.of[x].acc \in Nat /\ Target[x] \in Nat /\ completions[x] \in Nat
        /\ Effective.of[id].acc < Target[id]
    BY <1>1, <1>4, TargetAssumption
    DEF PInv, IInv, GhostsOK, Fits, Knows, IsComplete, Book, Redemption, States
  <2>2. completions[id] = 0
    BY <2>1 DEF PInv, Announced
  <2>3. \A x \in Ids : x # id => Effective'.of[x].acc = Effective.of[x].acc
    BY <1>1, <1>4 DEF Same, CreditIn, Book
  <2>4. Announced'
    <3>1. completions \in [Ids -> Nat]
      BY DEF PInv, IInv, GhostsOK
    <3>2. ASSUME NEW x \in Ids, x # id
          PROVE  completions'[x] = completions[x] /\ Effective'.of[x].acc = Effective.of[x].acc
      BY <1>4, <2>3, <3>1, <3>2
    <3>3. completions'[id] \in {0, 1} /\ (completions'[id] = 1 => Effective'.of[id].acc >= Target[id])
      BY <1>4, <2>2, <3>1
    <3>4. QED
      BY <3>2, <3>3 DEF PInv, Announced
  <2>5. QED
    BY <1>4, <2>4, CreditStepMaps DEF Kept, Promise!Next
<1>5. QED
  BY <1>2, <1>3, <1>4

\* RedemptionLedger::open is seen as an open.
LEMMA OpenKept ==
  ASSUME ~WriteErrors, PInv, IInv', NEW id \in Ids, Open(id)
  PROVE  Kept
<1>1. /\ up /\ up' /\ tail = NoTail /\ Same(file, mem) /\ ~Knows(mem, id)
      /\ Record(OpenRecord(id)) /\ mem' = OpenIn(mem, id) /\ completions' = completions
  BY DEF Open, PInv, Durable
<1>2. Effective = mem /\ Effective' = mem'
  BY <1>1 DEF Effective
<1>3. tail' = NoTail /\ file' = OpenIn(file, id)
  <2>1. OpenRecord(id) \in Records
    BY DEF OpenRecord, Records
  <2>2. tail' = NoTail /\ file' = Replay(file, OpenRecord(id))
    BY <1>1, <2>1, RecordWritesALine
  <2>3. ~Knows(file, id)
    BY <1>1 DEF Same
  <2>4. QED
    BY <2>2, <2>3 DEF Replay, OpenRecord
<1>4. Durable'
  BY <1>1, <1>3, SameOpen DEF PInv, IInv, FileOK, MemoryOK, Journalled, Durable
<1>5. Same(Effective', OpenIn(Effective, id)) /\ completions' \in [Ids -> Nat]
  BY <1>1, <1>2 DEF Same, IInv, GhostsOK
<1>6. QED
  BY <1>1, <1>2, <1>4, <1>5, SeenSteps

\* credit_share_outcome is seen as a credit, unless the redemption was full.
LEMMA CreditShareKept ==
  ASSUME ~WriteErrors, PInv, IInv', NEW id \in Ids, NEW h \in ShareHashes, CreditShare(id, h)
  PROVE  Kept
<1>1. /\ up /\ up' /\ tail = NoTail /\ Same(file, mem) /\ Knows(mem, id)
      /\ mem' = CreditIn(mem, id, h) /\ h \in Nat
  BY SharesAssumption DEF CreditShare, PInv, Durable
<1>2. Effective = mem /\ Effective' = mem'
  BY <1>1 DEF Effective
<1>3. mem \in Book /\ file \in Book /\ completions' \in [Ids -> Nat]
  BY DEF PInv, IInv, MemoryOK, FileOK, Journalled, GhostsOK
<1>4. CASE IsComplete(mem, id)
  <2>1. mem' = mem
    BY <1>1, <1>3, <1>4 DEF CreditIn, CreditHashes, IsComplete, Book
  <2>2. UNCHANGED <<file, tail, completions>>
    BY <1>4 DEF CreditShare, journal
  <2>3. Durable' /\ Same(Effective', Effective)
    BY <1>1, <1>2, <2>1, <2>2 DEF Durable, Same, Knows
  <2>4. QED
    BY <1>3, <2>2, <2>3, SeenSteps
<1>5. CASE ~IsComplete(mem, id)
  <2>1. ~IsComplete(file, id) /\ Knows(file, id)
    <3>1. mem.of[id].acc < Target[id] /\ Target[id] \in Nat
      BY <1>1, <1>3, <1>5, TargetAssumption
      DEF PInv, IInv, MemoryOK, Fits, Knows, IsComplete, Book, Redemption, States
    <3>2. file.of[id].acc = mem.of[id].acc /\ file.of[id].acc \in Nat
      BY <1>1, <1>3 DEF Same, Book, Redemption
    <3>3. QED
      BY <1>1, <3>1, <3>2 DEF PInv, IInv, FileOK, Journalled, Fits, IsComplete, Same
  <2>2. Durable'
    <3>1. CASE h > 0
      <4>1. CreditRecord(id, h) \in Records /\ Record(CreditRecord(id, h))
        BY <1>1, <1>5, <3>1 DEF CreditRecord, Records, CreditShare
      <4>2. tail' = NoTail /\ file' = Replay(file, CreditRecord(id, h))
        BY <1>1, <4>1, RecordWritesALine
      <4>3. file' = CreditIn(file, id, h)
        BY <2>1, <4>2 DEF Replay, CreditRecord
      <4>4. QED
        BY <1>1, <1>3, <1>5, <2>1, <4>2, <4>3, SameCredit DEF Durable
    <3>2. CASE h = 0
      <4>1. UNCHANGED <<file, tail>>
        BY <3>2 DEF CreditShare, journal
      <4>2. Same(mem', mem)
        <5>1. /\ CreditHashes(id, mem.of[id], h).acc = mem.of[id].acc
              /\ CreditHashes(id, mem.of[id], h).state # "Absent"
          BY <1>3, <1>5, <3>2 DEF CreditHashes, IsComplete, Book, Redemption
        <5>2. QED
          BY <1>1, <1>3, <5>1 DEF Same, CreditIn, Knows, Book
      <4>3. QED
        BY <1>1, <4>1, <4>2 DEF Durable, Same, Knows
    <3>3. QED
      BY <1>1, <3>1, <3>2
  <2>3. \/ completions' = completions
        \/ /\ completions' = [completions EXCEPT ![id] = @ + 1]
           /\ Effective'.of[id].acc >= Target[id]
    <3>1. CASE IsComplete(mem', id)
      <4>1. mem'.of[id].acc >= Target[id]
        BY <3>1 DEF IInv, MemoryOK, Fits, IsComplete
      <4>2. QED
        BY <1>2, <1>5, <3>1, <4>1 DEF CreditShare
    <3>2. CASE ~IsComplete(mem', id)
      BY <3>2 DEF CreditShare
    <3>3. QED
      BY <3>1, <3>2
  <2>4. Same(Effective', CreditIn(Effective, id, h))
    BY <1>1, <1>2 DEF Same
  <2>5. QED
    BY <1>1, <1>2, <1>3, <1>5, <2>2, <2>3, <2>4, SeenSteps
<1>6. QED
  BY <1>4, <1>5

\* A kill between operations takes nothing back: the file agrees with what
\* memory said.
LEMMA KillKept ==
  ASSUME PInv, IInv', Kill
  PROVE  Kept
<1>1. up /\ up' = FALSE /\ tail = NoTail /\ Same(file, mem)
  BY DEF Kill, Down, PInv, Durable
<1>2. UNCHANGED <<file, tail, completions>>
  BY DEF Kill, journal
<1>3. Effective = mem /\ Effective' = file
  BY <1>1, <1>2 DEF Effective, Replayed, Replay, NoTail
<1>4. Durable' /\ Same(Effective', Effective)
  BY <1>1, <1>3 DEF Durable
<1>5. completions' \in [Ids -> Nat]
  BY DEF IInv, GhostsOK
<1>6. QED
  BY <1>2, <1>4, <1>5, SeenSteps

\* A kill during an open is seen as that open or as nothing.
LEMMA KillDuringOpenKept ==
  ASSUME PInv, IInv', NEW id \in Ids, KillDuringOpen(id)
  PROVE  Kept
<1> DEFINE rec == OpenRecord(id)
<1>1. /\ up /\ up' = FALSE /\ tail = NoTail /\ Same(file, mem) /\ ~Knows(mem, id)
      /\ completions' = completions
  BY DEF KillDuringOpen, Down, PInv, Durable
<1>2. rec \in Records /\ Replay(file, rec) = OpenIn(file, id)
  BY <1>1 DEF OpenRecord, Records, Replay, Same
<1>3. Replayed' \in {file, OpenIn(file, id)}
  <2>1. PICK outcome \in Outcomes : JournalAppend(rec, outcome)
    BY DEF KillDuringOpen
  <2>2. QED
    BY <1>1, <1>2, <2>1, AppendReplays
<1>4. Effective = mem /\ Effective' = Replayed'
  BY <1>1 DEF Effective
<1>5. Same(OpenIn(file, id), OpenIn(mem, id))
  BY <1>1, SameOpen DEF PInv, IInv, FileOK, Journalled, MemoryOK
<1>6. \/ Same(Effective', Effective)
      \/ Same(Effective', OpenIn(Effective, id))
  BY <1>1, <1>3, <1>4, <1>5
<1>7. Durable' /\ completions' \in [Ids -> Nat]
  BY <1>1 DEF Durable, IInv, GhostsOK
<1>8. QED
  BY <1>1, <1>4, <1>6, <1>7, SeenSteps

\* A kill during a credit is seen as that credit, unannounced, or as nothing.
LEMMA KillDuringCreditKept ==
  ASSUME PInv, IInv', NEW id \in Ids, NEW h \in ShareHashes, KillDuringCredit(id, h)
  PROVE  Kept
<1> DEFINE rec == CreditRecord(id, h)
<1>1. /\ up /\ up' = FALSE /\ tail = NoTail /\ Same(file, mem)
      /\ Knows(mem, id) /\ ~IsComplete(mem, id)
      /\ completions' = completions /\ h \in Nat
  BY SharesAssumption DEF KillDuringCredit, Down, PInv, Durable
<1>2. mem \in Book /\ file \in Book
  BY DEF PInv, IInv, MemoryOK, FileOK, Journalled
<1>3. ~IsComplete(file, id) /\ Knows(file, id)
  <2>1. mem.of[id].acc < Target[id] /\ Target[id] \in Nat
    BY <1>1, <1>2, TargetAssumption
    DEF PInv, IInv, MemoryOK, Fits, Knows, IsComplete, Book, Redemption, States
  <2>2. file.of[id].acc = mem.of[id].acc /\ file.of[id].acc \in Nat
    BY <1>1, <1>2 DEF Same, Book, Redemption
  <2>3. QED
    BY <1>1, <2>1, <2>2 DEF PInv, IInv, FileOK, Journalled, Fits, IsComplete, Same
<1>4. rec \in Records /\ Replay(file, rec) = CreditIn(file, id, h)
  BY <1>1, <1>3 DEF CreditRecord, Records, Replay
<1>5. Replayed' \in {file, CreditIn(file, id, h)}
  <2>1. PICK outcome \in Outcomes : JournalAppend(rec, outcome)
    BY DEF KillDuringCredit
  <2>2. QED
    BY <1>1, <1>4, <2>1, AppendReplays
<1>6. Effective = mem /\ Effective' = Replayed'
  BY <1>1 DEF Effective
<1>7. Same(CreditIn(file, id, h), CreditIn(mem, id, h))
  BY <1>1, <1>2, <1>3, SameCredit
<1>8. \/ Same(Effective', Effective)
      \/ Same(Effective', CreditIn(Effective, id, h))
  BY <1>1, <1>5, <1>6, <1>7
<1>9. Durable' /\ completions' \in [Ids -> Nat]
  BY <1>1 DEF Durable, IInv, GhostsOK
<1>10. QED
  BY <1>1, <1>6, <1>8, <1>9, SeenSteps

\* A start shows callers what the journal replays to, and leaves it on file.
LEMMA StartKept ==
  ASSUME PInv, IInv', Start \/ StartFails
  PROVE  Kept
<1>1. PICK f \in {Replayed, Compact(Replayed)} : file' = f
  BY DEF Start, StartFails
<1>2. f = Replayed /\ Replay(f, NoTail) = Replayed
  BY FileAfterReading DEF PInv
<1>3. file' = Replayed /\ tail' = NoTail /\ Replayed' = Replayed
  BY <1>1, <1>2 DEF Start, StartFails, Replayed
<1>4. ~up /\ completions' = completions /\ (up' => mem' = Replayed)
  BY DEF Start, StartFails
<1>5. Effective = Replayed /\ Effective' = Replayed
  BY <1>3, <1>4 DEF Effective
<1>6. Durable' /\ Same(Effective', Effective)
  BY <1>3, <1>4, <1>5 DEF Durable, Same, Knows
<1>7. completions' \in [Ids -> Nat]
  BY DEF IInv, GhostsOK
<1>8. QED
  BY <1>4, <1>6, <1>7, SeenSteps

\* Every step of the ledger is a step of the promise or none.
LEMMA StepKept ==
  ASSUME ~WriteErrors
  PROVE  PInv /\ [Next]_vars => PInv' /\ [Promise!Next]_(Promise!promised)
<1> SUFFICES ASSUME PInv, [Next]_vars
             PROVE  PInv' /\ [Promise!Next]_(Promise!promised)
  OBVIOUS
<1>1. IInv'
  BY StepIInv DEF PInv
<1>2. Kept
  <2>1. ASSUME NEW id \in Ids, Open(id) PROVE Kept
    BY <1>1, <2>1, OpenKept
  <2>2. ASSUME NEW id \in Ids, KillDuringOpen(id) PROVE Kept
    BY <1>1, <2>2, KillDuringOpenKept
  <2>3. ASSUME NEW id \in Ids, NEW h \in ShareHashes, CreditShare(id, h) PROVE Kept
    BY <1>1, <2>3, CreditShareKept
  <2>4. ASSUME NEW id \in Ids, NEW h \in ShareHashes, KillDuringCredit(id, h) PROVE Kept
    BY <1>1, <2>4, KillDuringCreditKept
  <2>5. CASE Kill
    BY <1>1, <2>5, KillKept
  <2>6. CASE Start \/ StartFails
    BY <1>1, <2>6, StartKept
  <2>7. CASE UNCHANGED vars
    <3>1. UNCHANGED <<up, mem, file, tail, completions>>
      BY <2>7 DEF vars, journal
    <3>2. Effective' = Effective
      BY <3>1 DEF Effective, Replayed
    <3>3. Durable' /\ Same(Effective', Effective) /\ completions' \in [Ids -> Nat]
      BY <1>1, <3>1, <3>2 DEF PInv, Durable, Same, IInv, GhostsOK, Knows
    <3>4. QED
      BY <1>1, <3>1, <3>3, SeenSteps
  <2>8. QED
    BY <2>1, <2>2, <2>3, <2>4, <2>5, <2>6, <2>7 DEF Next
<1>3. QED
  BY <1>1, <1>2 DEF Kept, PInv

\* At first nothing is open, credited or announced.
LEMMA InitKept == Init => PInv /\ Promise!Init
<1> SUFFICES ASSUME Init PROVE PInv /\ Promise!Init
  OBVIOUS
<1>1. IInv
  BY InitIInv
<1>2. Effective = Empty
  BY DEF Init, Effective, Replayed, Replay, NoTail
<1>3. Durable /\ Announced
  BY <1>2 DEF Init, Durable, Announced
<1>4. Promise!Init
  BY <1>2 DEF Init, Promise!Init, Empty, Absent, Knows
<1>5. QED
  BY <1>1, <1>3, <1>4 DEF PInv

-----------------------------------------------------------------------------
\* The theorems.

\* Without write errors the ledger, its journal, its kills and restarts
\* included, implements the promise that credit_share_outcome and the
\* lifecycle comments of redemption.rs make.
THEOREM Refinement ==
  ASSUME ~WriteErrors
  PROVE  Spec => KeepsPromise
<1>1. Init => PInv /\ Promise!Init
  BY InitKept
<1>2. PInv /\ [Next]_vars => PInv' /\ [Promise!Next]_(Promise!promised)
  BY StepKept
<1>3. QED
  BY <1>1, <1>2, PTL DEF Spec, Safety, KeepsPromise, Promise!Spec

\* Exactly one credit of a redemption returns newly_completed, at most: not
\* one per life of the process.
THEOREM CompletesAtMostOnceHolds == Spec => []CompletesAtMostOnce
<1>1. CASE WriteErrors
  <2>1. CompletesAtMostOnce
    BY <1>1 DEF CompletesAtMostOnce
  <2>2. QED
    BY <2>1, PTL
<1>2. CASE ~WriteErrors
  <2>1. Init => PInv
    BY InitKept
  <2>2. PInv /\ [Next]_vars => PInv'
    BY <1>2, StepKept
  <2>3. PInv => CompletesAtMostOnce
    BY DEF PInv, Announced, CompletesAtMostOnce
  <2>4. QED
    BY <2>1, <2>2, <2>3, PTL DEF Spec, Safety
<1>3. QED
  BY <1>1, <1>2, WriteErrorsAssumption

=============================================================================
