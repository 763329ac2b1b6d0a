------------------------ MODULE MeltSettlementProofs ------------------------
(***************************************************************************)
(* Proof that proofs are spent only for hashrate, for any quotes,          *)
(* requests, shares, faults and lost journals.  What holds of the ledger   *)
(* alone is taken from RedemptionLedgerProofs.                             *)
(***************************************************************************)
EXTENDS MeltSettlement, TLAPS

L == INSTANCE RedemptionLedgerProofs WITH NonAsciiIds <- {}

-----------------------------------------------------------------------------
\* The steps of the ledger in MeltSettlement are those the proofs are about.

\* Opening, or dying in the middle of it.
LEMMA SameOpen ==
  ASSUME NEW id \in Ids
  PROVE  /\ Ledger!Open(id) <=> L!Open(id)
         /\ Ledger!KillDuringOpen(id) <=> L!KillDuringOpen(id)
  BY DEF Ledger!Open, L!Open, Ledger!KillDuringOpen, L!KillDuringOpen,
         Ledger!Record, L!Record, Ledger!JournalAppend, L!JournalAppend,
         Ledger!Outcomes, L!Outcomes, Ledger!Replay, L!Replay, Ledger!Knows, L!Knows,
         Ledger!OpenIn, L!OpenIn, Ledger!CreditIn, L!CreditIn,
         Ledger!CreditHashes, L!CreditHashes, Ledger!New, L!New,
         Ledger!OpenRecord, L!OpenRecord, Ledger!NoTail, L!NoTail, Ledger!Torn, L!Torn,
         Ledger!Down, L!Down, Ledger!Empty, L!Empty, Ledger!Absent, L!Absent

\* Crediting, or dying in the middle of it.
LEMMA SameCredit ==
  ASSUME NEW id \in Ids, NEW h \in ShareHashes
  PROVE  /\ Ledger!CreditShare(id, h) <=> L!CreditShare(id, h)
         /\ Ledger!KillDuringCredit(id, h) <=> L!KillDuringCredit(id, h)
  BY DEF Ledger!CreditShare, L!CreditShare, Ledger!KillDuringCredit, L!KillDuringCredit,
         Ledger!Record, L!Record, Ledger!JournalAppend, L!JournalAppend,
         Ledger!Outcomes, L!Outcomes, Ledger!Replay, L!Replay, Ledger!Knows, L!Knows,
         Ledger!OpenIn, L!OpenIn, Ledger!CreditIn, L!CreditIn,
         Ledger!CreditHashes, L!CreditHashes, Ledger!New, L!New,
         Ledger!CreditRecord, L!CreditRecord, Ledger!NoTail, L!NoTail, Ledger!Torn, L!Torn,
         Ledger!IsComplete, L!IsComplete, Ledger!journal, L!journal,
         Ledger!Down, L!Down, Ledger!Empty, L!Empty, Ledger!Absent, L!Absent

\* Starting, failing to, and dying.
LEMMA SameStart ==
  /\ Ledger!Start <=> L!Start
  /\ Ledger!StartFails <=> L!StartFails
  /\ Ledger!Kill <=> L!Kill
  BY DEF Ledger!Start, L!Start, Ledger!StartFails, L!StartFails, Ledger!Kill, L!Kill,
         Ledger!Replayed, L!Replayed, Ledger!Replay, L!Replay, Ledger!Knows, L!Knows,
         Ledger!OpenIn, L!OpenIn, Ledger!CreditIn, L!CreditIn,
         Ledger!CreditHashes, L!CreditHashes, Ledger!New, L!New,
         Ledger!Compact, L!Compact, Ledger!CompactOne, L!CompactOne,
         Ledger!NoTail, L!NoTail, Ledger!Torn, L!Torn, Ledger!journal, L!journal,
         Ledger!Down, L!Down, Ledger!Empty, L!Empty, Ledger!Absent, L!Absent

\* A step of the ledger, or none, keeps its invariant.
LEMMA LedgerKept == L!IInv /\ [L!Next]_(L!vars) => L!IInv'
  BY L!StepIInv, TargetAssumption, SettlementAssumption

\* A step that is none of the ledger's.
LEMMA LedgerStays ==
  ASSUME L!IInv, UNCHANGED ledger
  PROVE  L!IInv' /\ L!Replayed' = L!Replayed
<1>1. UNCHANGED L!vars
  BY DEF ledger, L!vars, L!journal
<1>2. L!Replayed' = L!Replayed
  BY DEF ledger, L!Replayed
<1> QED
  BY <1>1, <1>2, LedgerKept

-----------------------------------------------------------------------------
\* What a step of the ledger does to the redemptions.

\* A redemption is complete exactly if its target is credited, and what is
\* credited was worked.
LEMMA FullIsComplete ==
  ASSUME L!IInv, NEW id \in Ids, NEW b \in {mem, file, L!Replayed}
  PROVE  /\ IsComplete(b, id) <=> b.of[id].acc >= Target[id]
         /\ b.of[id].acc <= worked[id]
         /\ b.of[id].acc \in Nat /\ worked[id] \in Nat
<1>1. b \in L!Book /\ L!Fits(id, b.of[id]) /\ b.of[id].acc <= worked[id]
  BY DEF L!IInv, L!MemoryOK, L!FileOK, L!ReplayOK, L!Journalled, L!Backed
<1>2. worked[id] \in Nat /\ Target[id] \in Nat \ {0}
  BY TargetAssumption DEF L!IInv, L!GhostsOK
<1> QED
  BY <1>1, <1>2 DEF L!Book, L!Redemption, L!States, L!Fits, IsComplete

\* One redemption more is known, and no other is touched.
LEMMA OpenDoes ==
  ASSUME L!IInv, NEW id \in Ids, Ledger!Open(id)
  PROVE  /\ L!IInv'
         /\ up /\ up' /\ UNCHANGED worked
         /\ ~Knows(mem, id) /\ Knows(mem', id)
         /\ \A i \in Ids \ {id} : mem'.of[i] = mem.of[i]
<1>1. L!Open(id)
  BY SameOpen
<1>2. L!IInv'
  BY <1>1, LedgerKept DEF L!Next
<1>3. mem.of \in [Ids -> L!Redemption]
  BY DEF L!IInv, L!MemoryOK, L!Book
<1> QED
  BY <1>1, <1>2, <1>3 DEF L!Open, L!Knows, L!OpenIn, L!New, Knows

\* A credit makes nothing known or unknown, takes no completion back, and
\* counts as work.
LEMMA CreditDoes ==
  ASSUME L!IInv, NEW id \in Ids, NEW h \in ShareHashes, Ledger!CreditShare(id, h)
  PROVE  /\ L!IInv'
         /\ up /\ up'
         /\ \A i \in Ids : /\ Knows(mem', i) <=> Knows(mem, i)
                           /\ IsComplete(mem, i) => IsComplete(mem', i)
                           /\ worked'[i] >= worked[i]
<1>1. L!CreditShare(id, h)
  BY SameCredit
<1>2. L!IInv'
  BY <1>1, LedgerKept DEF L!Next
<1>3. mem.of \in [Ids -> L!Redemption] /\ worked \in [Ids -> Nat] /\ h \in Nat
  BY SettlementAssumption DEF L!IInv, L!GhostsOK, L!MemoryOK, L!Book
<1>4. \A i \in Ids : worked'[i] >= worked[i]
  BY <1>1, <1>3 DEF L!CreditShare
<1>5. mem' = L!CreditIn(mem, id, h) /\ Knows(mem, id) /\ up /\ up'
  BY <1>1 DEF L!CreditShare, L!Knows, Knows
<1>6. \A i \in Ids : /\ Knows(mem', i) <=> Knows(mem, i)
                     /\ IsComplete(mem, i) => IsComplete(mem', i)
  BY <1>3, <1>5 DEF L!CreditIn, L!CreditHashes, L!Redemption, Knows, IsComplete
<1> QED
  BY <1>2, <1>4, <1>5, <1>6

\* What one append leaves, if the file ended with a newline before: of any
\* redemption but the record's a start restores what it would have before.
LEMMA AppendTouchesOne ==
  ASSUME L!IInv, tail = NoTail, NEW rec \in L!Records, NEW outcome \in L!Outcomes,
         L!JournalAppend(rec, outcome)
  PROVE  \A i \in Ids \ {rec.id} : L!Replayed'.of[i] = L!Replayed.of[i]
<1>1. file.of \in [Ids -> L!Redemption]
  BY DEF L!IInv, L!FileOK, L!Journalled, L!Book
<1>2. \A b : L!Replay(b, L!NoTail) = b /\ L!Replay(b, L!Torn) = b
  BY DEF L!Replay, L!NoTail, L!Torn
<1>3. L!NoTail = NoTail
  BY DEF L!NoTail, NoTail
<1>4. \A i \in Ids \ {rec.id} : L!Replay(file, rec).of[i] = file.of[i]
  BY <1>1 DEF L!Replay, L!OpenIn, L!CreditIn, L!Records
<1>5. /\ file' \in {file, L!Replay(file, rec)}
      /\ tail' \in {L!NoTail, L!Torn} \/ (tail' = rec /\ file' = file)
  BY <1>3 DEF L!JournalAppend, L!Outcomes
<1> QED
  BY <1>2, <1>3, <1>4, <1>5 DEF L!Replayed

\* Of a death in the middle of an operation only its redemption may tell.
LEMMA KillDuringDoes ==
  ASSUME L!IInv, NEW id \in Ids,
         \/ Ledger!KillDuringOpen(id)
         \/ \E h \in ShareHashes : Ledger!KillDuringCredit(id, h)
  PROVE  /\ L!IInv'
         /\ up /\ ~up' /\ mem' = Empty
         /\ ~IsComplete(mem, id)
         /\ \A i \in Ids : worked'[i] >= worked[i]
         /\ tail = NoTail => \A i \in Ids \ {id} : L!Replayed'.of[i] = L!Replayed.of[i]
<1>1. worked \in [Ids -> Nat]
  BY DEF L!IInv, L!GhostsOK
<1>2. Empty = L!Empty
  BY DEF Empty, Absent, L!Empty, L!Absent
<1>3. CASE Ledger!KillDuringOpen(id)
  <2>1. L!KillDuringOpen(id)
    BY <1>3, SameOpen
  <2>2. L!IInv'
    BY <2>1, LedgerKept DEF L!Next
  <2>3. L!OpenRecord(id) \in L!Records /\ L!OpenRecord(id).id = id
    BY DEF L!OpenRecord, L!Records
  <2>4. tail = NoTail => \A i \in Ids \ {id} : L!Replayed'.of[i] = L!Replayed.of[i]
    BY <2>1, <2>3, AppendTouchesOne DEF L!KillDuringOpen
  <2>5. ~IsComplete(mem, id)
    BY <2>1 DEF L!KillDuringOpen, L!Knows, IsComplete
  <2> QED
    BY <1>1, <1>2, <2>1, <2>2, <2>4, <2>5 DEF L!KillDuringOpen, L!Down
<1>4. ASSUME NEW h \in ShareHashes, Ledger!KillDuringCredit(id, h)
      PROVE  /\ L!IInv'
             /\ up /\ ~up' /\ mem' = Empty
             /\ ~IsComplete(mem, id)
             /\ \A i \in Ids : worked'[i] >= worked[i]
             /\ tail = NoTail => \A i \in Ids \ {id} : L!Replayed'.of[i] = L!Replayed.of[i]
  <2>1. L!KillDuringCredit(id, h) /\ h \in Nat
    BY <1>4, SameCredit, SettlementAssumption
  <2>2. L!IInv'
    BY <2>1, LedgerKept DEF L!Next
  <2>3. L!CreditRecord(id, h) \in L!Records /\ L!CreditRecord(id, h).id = id
    BY <2>1 DEF L!CreditRecord, L!Records
  <2>4. tail = NoTail => \A i \in Ids \ {id} : L!Replayed'.of[i] = L!Replayed.of[i]
    BY <2>1, <2>3, AppendTouchesOne DEF L!KillDuringCredit
  <2>5. ~IsComplete(mem, id)
    BY <2>1 DEF L!KillDuringCredit, L!IsComplete, IsComplete
  <2>6. \A i \in Ids : worked'[i] >= worked[i]
    BY <1>1, <2>1 DEF L!KillDuringCredit
  <2> QED
    BY <1>2, <2>1, <2>2, <2>4, <2>5, <2>6 DEF L!KillDuringCredit, L!Down
<1> QED
  BY <1>3, <1>4

-----------------------------------------------------------------------------
\* The invariant.

Types ==
    /\ phase \in Phases
    /\ state \in [Quotes -> QuoteStates]
    /\ paying \subseteq Quotes
    /\ faults \in 0 .. MaxFaults
    /\ failed \in BOOLEAN
    /\ up <=> phase # "down"

Held(q) == state[q] \in {"pending", "paid"}

\* cdk melts one quote of a request: two that hold proofs are one.
OnePerRequest ==
    \A p, q \in Quotes : RequestOf[p] = RequestOf[q] /\ Held(p) /\ Held(q) => p = q

\* A call is under way for a quote that holds proofs; if it was found paid
\* meanwhile, then because its redemption is there.
CallsAreHeld ==
    \A q \in paying : /\ phase = "serving" /\ Held(q)
                      /\ state[q] = "paid" => Knows(mem, RequestOf[q])

\* As long as no append has failed, a start would find what memory has.
InStep ==
    up /\ ~failed =>
        /\ tail = NoTail
        /\ \A id \in Ids : /\ file.of[id].acc = mem.of[id].acc
                           /\ Knows(file, id) <=> Knows(mem, id)

\* What is asked of a redemption that was paid for.
Over(r) == r.state \in {"Completed", "Absent"}

\* It is over in memory, or in what a start would find while there is none.
PaidIsOver ==
    ~failed => \A q \in Quotes : state[q] = "paid" =>
        Over((IF up THEN mem ELSE L!Replayed).of[RequestOf[q]])

QuotesOK == OnePerRequest /\ CallsAreHeld /\ PaidOnlyIfFilled /\ PendingHasRedemption

MInv == L!IInv /\ Types /\ QuotesOK /\ InStep /\ PaidIsOver

\* While it is up and no append has failed, a start would find the same over.
LEMMA OverOnFile ==
  ASSUME L!IInv, InStep, up, ~failed, NEW id \in Ids, Over(mem.of[id])
  PROVE  Over(L!Replayed.of[id])
<1>1. L!Replayed = file
  BY DEF InStep, L!Replayed, L!Replay, NoTail
<1>2. file.of[id].acc = mem.of[id].acc /\ (Knows(file, id) <=> Knows(mem, id))
  BY DEF InStep
<1>3. CASE IsComplete(mem, id)
  BY <1>1, <1>2, <1>3, FullIsComplete DEF Over, IsComplete
<1>4. CASE ~Knows(mem, id)
  BY <1>1, <1>2, <1>4 DEF Over, Knows
<1> QED
  BY <1>3, <1>4 DEF Over, Knows, IsComplete

\* Nothing is quoted at the start.
LEMMA InitMInv == Init => MInv
<1> SUFFICES ASSUME Init
             PROVE  MInv
  OBVIOUS
<1>1. L!Init
  BY DEF Init, Ledger!Init, L!Init, Ledger!Empty, L!Empty, Ledger!NoTail, L!NoTail,
         Ledger!Absent, L!Absent
<1>2. L!IInv
  BY <1>1, L!InitIInv, TargetAssumption, SettlementAssumption
<1>3. ~up
  BY <1>1 DEF L!Init
<1>4. \A q \in Quotes : state[q] = "none"
  BY DEF Init
<1>5. Types
  <2>1. failed \in BOOLEAN
    BY DEF Init
  <2> QED
    BY <1>3, <2>1, SettlementAssumption DEF Init, Types, Phases, QuoteStates
<1> QED
  BY <1>2, <1>3, <1>4, <1>5
     DEF Init, MInv, QuotesOK, OnePerRequest, CallsAreHeld, Held,
         PaidOnlyIfFilled, PendingHasRedemption, InStep, PaidIsOver

\* cdk's own steps, and the start of the mint.
LEMMA QuoteSteps ==
  ASSUME MInv, NEW q \in Quotes,
         GetPaymentQuote(q) \/ Melt(q) \/ CheckOutgoingPayment(q) \/ Serve
  PROVE  MInv'
<1> USE DEF MInv, Types
<1>1. UNCHANGED ledger /\ UNCHANGED failed /\ up
  BY DEF GetPaymentQuote, Melt, CheckOutgoingPayment, Serve
<1>2. L!IInv' /\ L!Replayed' = L!Replayed
  BY <1>1, LedgerStays
<1>3. InStep'
  BY <1>1 DEF InStep, ledger, Knows
<1>4. \A p \in Quotes : RequestOf[p] \in Ids
  BY SettlementAssumption
<1>5. CASE GetPaymentQuote(q)
  <2>1. Types' /\ QuotesOK'
    BY <1>1, <1>5 DEF GetPaymentQuote, Phases, QuoteStates, QuotesOK, OnePerRequest, CallsAreHeld,
                      Held, PaidOnlyIfFilled, PendingHasRedemption, ledger, Knows
  <2>2. PaidIsOver'
    BY <1>1, <1>2, <1>5 DEF GetPaymentQuote, PaidIsOver, ledger
  <2> QED
    BY <1>2, <1>3, <2>1, <2>2
<1>6. CASE Melt(q)
  <2>1. Types' /\ QuotesOK'
    BY <1>1, <1>6 DEF Melt, MayMelt, Phases, QuoteStates, QuotesOK, OnePerRequest, CallsAreHeld,
                      Held, PaidOnlyIfFilled, PendingHasRedemption, ledger, Knows
  <2>2. PaidIsOver'
    BY <1>1, <1>2, <1>6 DEF Melt, PaidIsOver, ledger
  <2> QED
    BY <1>2, <1>3, <2>1, <2>2
<1>7. CASE CheckOutgoingPayment(q)
  <2>1. /\ state' = [state EXCEPT ![q] = Status(RequestOf[q])]
        /\ state[q] = "pending" /\ Knows(mem, RequestOf[q])
        /\ Status(RequestOf[q]) \in {"pending", "paid"}
        /\ Status(RequestOf[q]) = "paid" => IsComplete(mem, RequestOf[q])
        /\ UNCHANGED <<phase, paying, faults>>
    BY <1>7 DEF CheckOutgoingPayment, Status
  <2>2. IsComplete(mem, RequestOf[q]) => worked[RequestOf[q]] >= Target[RequestOf[q]]
    BY <1>4, FullIsComplete, TargetAssumption
  <2>3. Types' /\ OnePerRequest' /\ CallsAreHeld' /\ PendingHasRedemption'
    BY <1>1, <2>1 DEF QuoteStates, QuotesOK, OnePerRequest, CallsAreHeld, Held,
                      PendingHasRedemption, ledger, Knows
  <2>4. PaidOnlyIfFilled'
    BY <1>1, <2>1, <2>2 DEF QuotesOK, PaidOnlyIfFilled, ledger
  <2>5. PaidIsOver'
    BY <1>1, <1>2, <2>1 DEF PaidIsOver, Over, IsComplete, ledger
  <2> QED
    BY <1>2, <1>3, <2>3, <2>4, <2>5 DEF QuotesOK
<1>8. CASE Serve
  <2>1. Types' /\ QuotesOK'
    BY <1>1, <1>8 DEF Serve, Orphans, Phases, QuotesOK, OnePerRequest, CallsAreHeld, Held,
                      PaidOnlyIfFilled, PendingHasRedemption, ledger, Knows
  <2>2. PaidIsOver'
    BY <1>1, <1>2, <1>8 DEF Serve, PaidIsOver, ledger
  <2> QED
    BY <1>2, <1>3, <2>1, <2>2
<1> QED
  BY <1>5, <1>6, <1>7, <1>8

\* An append that may have failed: if none has, the file is in step.
LEMMA AppendedInStep ==
  ASSUME Types, Appended, up'
  PROVE  failed' \in BOOLEAN /\ InStep' /\ (~failed' => ~failed)
  BY DEF Types, Appended, InStep, Knows

\* A redemption opened for a quote that holds proofs and has none: no quote of
\* its request was paid.
LEMMA OpenKeeps ==
  ASSUME MInv, NEW q \in Quotes, Ledger!Open(RequestOf[q]), Appended,
         state[q] = "pending", UNCHANGED <<phase, state, faults>>, paying' \in {paying, paying \ {q}},
         phase # "down"
  PROVE  MInv'
<1> USE DEF MInv
<1> DEFINE id == RequestOf[q]
<1>1. id \in Ids /\ \A p \in Quotes : RequestOf[p] \in Ids
  BY SettlementAssumption
<1>2. /\ L!IInv' /\ up /\ up' /\ UNCHANGED worked
      /\ ~Knows(mem, id) /\ Knows(mem', id)
      /\ \A i \in Ids \ {id} : mem'.of[i] = mem.of[i]
  BY <1>1, OpenDoes
<1>3. InStep' /\ failed' \in BOOLEAN /\ (~failed' => ~failed)
  BY <1>2, AppendedInStep
<1>4. Types'
  BY <1>2, <1>3 DEF Types
<1>5. \A i \in Ids : Knows(mem, i) => Knows(mem', i)
  BY <1>2 DEF Knows
<1>6. OnePerRequest'
  BY DEF QuotesOK, OnePerRequest, Held
<1>10. CallsAreHeld'
  BY <1>1, <1>5 DEF Types, QuotesOK, CallsAreHeld, Held, Knows
<1>11. PendingHasRedemption'
  BY <1>1, <1>2, <1>5 DEF Types, QuotesOK, PendingHasRedemption, Knows
<1>7. PaidOnlyIfFilled'
  BY <1>2 DEF QuotesOK, PaidOnlyIfFilled
<1>8. \A p \in Quotes : state[p] = "paid" => RequestOf[p] # id
  BY DEF QuotesOK, OnePerRequest, Held
<1>9. PaidIsOver'
  BY <1>1, <1>2, <1>3, <1>8 DEF PaidIsOver, Over
<1> QED
  BY <1>2, <1>3, <1>4, <1>6, <1>7, <1>9, <1>10, <1>11 DEF QuotesOK

\* HashrateMelter::make_payment.
LEMMA MakePaymentKeeps ==
  ASSUME MInv, NEW q \in Quotes, MakePayment(q)
  PROVE  MInv'
<1> DEFINE id == RequestOf[q]
<1>1. /\ phase = "serving" /\ q \in paying /\ paying' = paying \ {q}
      /\ UNCHANGED <<phase, faults>> /\ Appended
  BY DEF MakePayment
<1>2. CASE ~Knows(mem, id) /\ Ledger!Open(id) /\ UNCHANGED state
  <2>1. state[q] = "pending"
    BY <1>1, <1>2 DEF MInv, QuotesOK, CallsAreHeld, Held
  <2> QED
    BY <1>1, <1>2, <2>1, OpenKeeps
<1>3. CASE Knows(mem, id) /\ state' = [state EXCEPT ![q] = Status(id)] /\ UNCHANGED ledger
  <2> USE DEF MInv
  <2>1. /\ Status(id) \in {"pending", "paid"}
        /\ Status(id) = "paid" => IsComplete(mem, id)
    BY DEF Status
  <2>2. id \in Ids /\ up /\ up' /\ Held(q)
    BY <1>1, <1>3, SettlementAssumption DEF Types, QuotesOK, CallsAreHeld, ledger
  <2>3. L!IInv' /\ L!Replayed' = L!Replayed
    BY <1>3, LedgerStays
  <2>4. InStep' /\ failed' \in BOOLEAN /\ (~failed' => ~failed)
    BY <1>1, <2>2, AppendedInStep
  <2>5. Types' /\ OnePerRequest' /\ CallsAreHeld' /\ PendingHasRedemption'
    BY <1>1, <1>3, <2>1, <2>2, <2>4
       DEF Types, QuoteStates, QuotesOK, OnePerRequest, CallsAreHeld, Held,
           PendingHasRedemption, ledger, Knows
  <2>6. IsComplete(mem, id) => worked[id] >= Target[id]
    BY <2>2, FullIsComplete, TargetAssumption
  <2>7. PaidOnlyIfFilled'
    BY <1>3, <2>1, <2>6 DEF Types, QuotesOK, PaidOnlyIfFilled, ledger
  <2>8. PaidIsOver'
    BY <1>3, <2>1, <2>2, <2>4 DEF Types, PaidIsOver, Over, IsComplete, ledger
  <2> QED
    BY <2>3, <2>4, <2>5, <2>7, <2>8 DEF QuotesOK
<1> QED
  BY <1>2, <1>3 DEF MakePayment

\* reopen_pending_quotes.
LEMMA ReopenKeeps ==
  ASSUME MInv, NEW q \in Quotes, ReopenPending(q)
  PROVE  MInv'
  BY OpenKeeps DEF ReopenPending, Orphans, mint

\* A share credited to a redemption takes nothing from any quote.
LEMMA CreditKeeps ==
  ASSUME MInv, NEW id \in Ids, NEW h \in ShareHashes, CreditShare(id, h)
  PROVE  MInv'
<1> USE DEF MInv
<1>1. Ledger!CreditShare(id, h) /\ UNCHANGED mint /\ Appended
  BY DEF CreditShare
<1>2. /\ L!IInv' /\ up /\ up'
      /\ \A i \in Ids : /\ Knows(mem', i) <=> Knows(mem, i)
                        /\ IsComplete(mem, i) => IsComplete(mem', i)
                        /\ worked'[i] >= worked[i]
  BY <1>1, CreditDoes
<1>3. InStep' /\ failed' \in BOOLEAN /\ (~failed' => ~failed)
  BY <1>1, <1>2, AppendedInStep
<1>4. Types'
  BY <1>1, <1>2, <1>3 DEF Types, mint
<1>5. \A q \in Quotes : /\ RequestOf[q] \in Ids /\ Target[RequestOf[q]] \in Nat
                        /\ worked[RequestOf[q]] \in Nat /\ worked'[RequestOf[q]] \in Nat
  BY <1>2, SettlementAssumption, TargetAssumption DEF L!IInv, L!GhostsOK
<1>6. OnePerRequest' /\ CallsAreHeld' /\ PendingHasRedemption'
  BY <1>1, <1>2, <1>5
     DEF Types, QuotesOK, OnePerRequest, CallsAreHeld, Held, PendingHasRedemption, Knows, mint
<1>7. PaidOnlyIfFilled'
  <2> SUFFICES ASSUME NEW q \in Quotes, state[q] = "paid"
               PROVE  worked'[RequestOf[q]] >= Target[RequestOf[q]]
    BY <1>1 DEF PaidOnlyIfFilled, mint
  <2>1. worked[RequestOf[q]] >= Target[RequestOf[q]]
    BY DEF QuotesOK, PaidOnlyIfFilled
  <2> QED
    BY <1>2, <1>5, <2>1
<1>8. PaidIsOver'
  BY <1>1, <1>2, <1>3, <1>5 DEF PaidIsOver, Over, Knows, IsComplete, mint
<1> QED
  BY <1>2, <1>3, <1>4, <1>6, <1>7, <1>8 DEF QuotesOK

\* run_daemon loads the ledger, or cannot.
LEMMA LoadKeeps ==
  ASSUME MInv, LoadLedger \/ LoadFails
  PROVE  MInv'
<1> USE DEF MInv
<1>1. \A q \in Quotes : RequestOf[q] \in Ids
  BY SettlementAssumption
<1>2. \A f : f \in {L!Replayed, L!Compact(L!Replayed)} =>
         f = L!Replayed /\ L!Replay(f, L!NoTail) = L!Replayed
  BY L!FileAfterReading, TargetAssumption, SettlementAssumption
<1>3. phase = "down" /\ ~up /\ UNCHANGED <<state, paying, faults, failed>>
  BY DEF LoadLedger, LoadFails, Types, mint
<1>4. paying = {}
  BY <1>3 DEF QuotesOK, CallsAreHeld
<1>5. CASE LoadLedger
  <2>1. L!Start /\ phase' = "loading"
    BY <1>5, SameStart DEF LoadLedger
  <2>2. L!IInv'
    BY <2>1, LedgerKept DEF L!Next
  <2>3. up' /\ mem' = L!Replayed /\ file' = mem' /\ tail' = NoTail /\ UNCHANGED worked
    BY <1>2, <2>1 DEF L!Start, L!NoTail, NoTail
  <2>4. Types'
    BY <1>3, <2>1, <2>3 DEF Types, Phases
  <2>5. QuotesOK'
    BY <1>3, <1>4, <2>1, <2>3
       DEF QuotesOK, OnePerRequest, CallsAreHeld, Held, PaidOnlyIfFilled, PendingHasRedemption
  <2>6. InStep' /\ PaidIsOver'
    BY <1>3, <2>3 DEF InStep, PaidIsOver, Over, Knows
  <2> QED
    BY <2>2, <2>4, <2>5, <2>6
<1>6. CASE LoadFails
  <2>1. L!StartFails /\ UNCHANGED phase
    BY <1>6, SameStart DEF LoadFails, mint
  <2>2. L!IInv'
    BY <2>1, LedgerKept DEF L!Next
  <2>3. L!Replayed' = L!Replayed
    BY <1>2, <2>1 DEF L!StartFails, L!Replayed
  <2>4. UNCHANGED <<up, mem, worked>>
    BY <2>1 DEF L!StartFails
  <2>5. Types'
    BY <1>3, <2>1, <2>4 DEF Types
  <2>6. QuotesOK'
    BY <1>3, <2>1, <2>4
       DEF QuotesOK, OnePerRequest, CallsAreHeld, Held, PaidOnlyIfFilled, PendingHasRedemption, Knows
  <2>7. InStep' /\ PaidIsOver'
    BY <1>3, <2>3, <2>4 DEF InStep, PaidIsOver
  <2> QED
    BY <2>2, <2>5, <2>6, <2>7
<1> QED
  BY <1>5, <1>6

\* The process dies.  What is over in memory is over on file, and no record
\* that was being written is of a redemption that was paid for.
LEMMA DeathKeeps ==
  ASSUME MInv, L!IInv', Fault, Stops, up, up' = FALSE, mem' = Empty,
         \A i \in Ids : worked'[i] >= worked[i],
         InStep /\ ~failed => \A q \in Quotes :
             state[q] = "paid" => L!Replayed'.of[RequestOf[q]] = L!Replayed.of[RequestOf[q]]
  PROVE  MInv'
<1> USE DEF MInv
<1>1. phase' = "down" /\ paying' = {} /\ UNCHANGED <<state, failed>> /\ faults' \in 0 .. MaxFaults
  BY SettlementAssumption DEF Stops, Fault, Types
<1>2. Types'
  BY <1>1 DEF Types, Phases
<1>3. \A q \in Quotes : /\ RequestOf[q] \in Ids /\ Target[RequestOf[q]] \in Nat
                        /\ worked[RequestOf[q]] \in Nat /\ worked'[RequestOf[q]] \in Nat
  BY SettlementAssumption, TargetAssumption DEF L!IInv, L!GhostsOK
<1>4. PaidOnlyIfFilled'
  <2> SUFFICES ASSUME NEW q \in Quotes, state[q] = "paid"
               PROVE  worked'[RequestOf[q]] >= Target[RequestOf[q]]
    BY <1>1 DEF PaidOnlyIfFilled
  <2>1. worked[RequestOf[q]] >= Target[RequestOf[q]]
    BY DEF QuotesOK, PaidOnlyIfFilled
  <2> QED
    BY <1>3, <2>1
<1>5. QuotesOK'
  BY <1>1, <1>4 DEF QuotesOK, OnePerRequest, CallsAreHeld, Held, PendingHasRedemption
<1>6. PaidIsOver'
  <2> SUFFICES ASSUME ~failed, NEW q \in Quotes, state[q] = "paid"
               PROVE  Over(L!Replayed'.of[RequestOf[q]])
    BY <1>1 DEF PaidIsOver
  <2>1. Over(mem.of[RequestOf[q]])
    BY DEF PaidIsOver
  <2>2. Over(L!Replayed.of[RequestOf[q]])
    BY <1>3, <2>1, OverOnFile
  <2> QED
    BY <2>2 DEF Over
<1>7. InStep'
  BY DEF InStep
<1> QED
  BY <1>2, <1>5, <1>6, <1>7

\* Between operations, or with a record partly written.
LEMMA KillKeeps ==
  ASSUME MInv,
         \/ Kill
         \/ \E q \in Quotes : KillDuringOpen(q)
         \/ \E id \in Ids, h \in ShareHashes : KillDuringCredit(id, h)
  PROVE  MInv'
<1> USE DEF MInv
<1>1. \A q \in Quotes : RequestOf[q] \in Ids
  BY SettlementAssumption
<1>2. CASE Kill
  <2>1. L!Kill
    BY <1>2, SameStart DEF Kill
  <2>2. L!IInv'
    BY <2>1, LedgerKept DEF L!Next
  <2>3. /\ up /\ up' = FALSE /\ mem' = Empty /\ UNCHANGED worked
        /\ L!Replayed' = L!Replayed
    BY <2>1 DEF L!Kill, L!Down, L!journal, L!Replayed, L!Empty, L!Absent, Empty, Absent
  <2>4. \A i \in Ids : worked'[i] >= worked[i]
    BY <2>3 DEF L!IInv, L!GhostsOK
  <2> QED
    BY <1>2, <2>2, <2>3, <2>4, DeathKeeps DEF Kill
<1>3. ASSUME NEW id \in Ids, Fault, Stops,
             \/ Ledger!KillDuringOpen(id)
             \/ \E h \in ShareHashes : Ledger!KillDuringCredit(id, h),
             \A q \in Quotes : state[q] = "paid" /\ RequestOf[q] = id => Knows(mem, id)
      PROVE  MInv'
  <2>1. /\ L!IInv' /\ up /\ ~up' /\ mem' = Empty
        /\ ~IsComplete(mem, id)
        /\ \A i \in Ids : worked'[i] >= worked[i]
        /\ tail = NoTail => \A i \in Ids \ {id} : L!Replayed'.of[i] = L!Replayed.of[i]
    BY <1>3, KillDuringDoes
  <2>2. ASSUME InStep, ~failed, NEW q \in Quotes, state[q] = "paid"
        PROVE  L!Replayed'.of[RequestOf[q]] = L!Replayed.of[RequestOf[q]]
    <3>1. Over(mem.of[RequestOf[q]])
      BY <2>1, <2>2 DEF PaidIsOver
    <3>2. RequestOf[q] # id
      BY <1>3, <2>1, <2>2, <3>1 DEF Over, Knows, IsComplete
    <3> QED
      BY <1>1, <2>1, <2>2, <3>2 DEF InStep
  <2>3. up' = FALSE
    BY <2>1 DEF L!IInv, L!GhostsOK
  <2> QED
    BY <1>3, <2>1, <2>2, <2>3, DeathKeeps
<1>4. ASSUME NEW q \in Quotes, KillDuringOpen(q)
      PROVE  MInv'
  <2>1. state[q] = "pending" \/ (state[q] = "paid" /\ Knows(mem, RequestOf[q]))
    BY <1>4 DEF KillDuringOpen, Orphans, QuotesOK, CallsAreHeld, Held
  <2>2. \A p \in Quotes : state[p] = "paid" /\ RequestOf[p] = RequestOf[q] => Knows(mem, RequestOf[q])
    BY <2>1 DEF QuotesOK, OnePerRequest, Held
  <2> QED
    BY <1>1, <1>3, <1>4, <2>2 DEF KillDuringOpen
<1>5. ASSUME NEW id \in Ids, NEW h \in ShareHashes, KillDuringCredit(id, h)
      PROVE  MInv'
  <2>1. Knows(mem, id)
    BY <1>5, SameCredit DEF KillDuringCredit, L!KillDuringCredit, L!Knows, Knows
  <2> QED
    BY <1>3, <1>5, <2>1 DEF KillDuringCredit
<1> QED
  BY <1>2, <1>4, <1>5

\* The journal is lost, and every redemption with it.
LEMMA LoseKeeps ==
  ASSUME MInv, LoseJournal
  PROVE  MInv'
<1> USE DEF MInv
<1>1. /\ phase = "down" /\ ~up /\ file' = Empty /\ tail' = NoTail
      /\ UNCHANGED <<up, mem, unreadable, worked, completions, phase, state, paying, failed>>
      /\ faults' \in 0 .. MaxFaults
  BY SettlementAssumption DEF LoseJournal, Fault, Types
<1>2. Empty = L!Empty /\ NoTail = L!NoTail
  BY DEF Empty, Absent, NoTail, L!Empty, L!Absent, L!NoTail
<1>3. L!Journalled(L!Empty)
  BY L!EmptyBook, TargetAssumption, SettlementAssumption
<1>4. L!Replayed' = Empty
  BY <1>1, <1>2 DEF L!Replayed, L!Replay, L!NoTail
<1>5. L!GhostsOK' /\ L!MemoryOK'
  BY <1>1 DEF L!IInv, L!GhostsOK, L!MemoryOK
<1>6. L!TailOK'
  BY <1>1, <1>2 DEF L!IInv, L!TailOK, L!NoTail
<1>7. \A b : b = Empty => L!Backed(b)'
  BY <1>1 DEF L!IInv, L!GhostsOK, L!Backed, Empty, Absent
<1>8. L!IInv'
  BY <1>1, <1>2, <1>3, <1>4, <1>5, <1>6, <1>7 DEF L!IInv, L!FileOK, L!ReplayOK
<1>9. Types' /\ QuotesOK' /\ InStep'
  BY <1>1 DEF Types, QuotesOK, OnePerRequest, CallsAreHeld, Held, PaidOnlyIfFilled,
              PendingHasRedemption, InStep
<1>10. PaidIsOver'
  BY <1>1, <1>4, SettlementAssumption DEF PaidIsOver, Over, Empty, Absent
<1> QED
  BY <1>8, <1>9, <1>10

\* Every step keeps the invariant.
LEMMA StepMInv == MInv /\ [Next]_vars => MInv'
<1> SUFFICES ASSUME MInv, [Next]_vars
             PROVE  MInv'
  OBVIOUS
<1>1. CASE UNCHANGED vars
  <2>1. L!IInv' /\ L!Replayed' = L!Replayed
    BY <1>1, LedgerStays DEF vars, MInv
  <2> QED
    BY <1>1, <2>1 DEF vars, ledger, mint, MInv, Types, QuotesOK, OnePerRequest, CallsAreHeld, Held,
                      PaidOnlyIfFilled, PendingHasRedemption, InStep, PaidIsOver, Knows
<1>2. ASSUME NEW q \in Quotes, GetPaymentQuote(q) \/ Melt(q) \/ CheckOutgoingPayment(q)
      PROVE  MInv'
  BY <1>2, QuoteSteps
<1>3. CASE Serve
  <2>1. CASE Quotes = {}
    <3>1. UNCHANGED ledger /\ UNCHANGED <<state, paying, faults, failed>>
      BY <1>3 DEF Serve
    <3>2. L!IInv' /\ L!Replayed' = L!Replayed
      BY <3>1, LedgerStays DEF MInv
    <3> QED
      BY <1>3, <2>1, <3>1, <3>2
         DEF Serve, ledger, MInv, Types, Phases, QuotesOK, OnePerRequest, CallsAreHeld, Held,
             PaidOnlyIfFilled, PendingHasRedemption, InStep, PaidIsOver, Knows
  <2>2. ASSUME NEW q \in Quotes
        PROVE  MInv'
    BY <1>3, QuoteSteps
  <2> QED
    BY <2>1, <2>2
<1>4. ASSUME NEW q \in Quotes, MakePayment(q)
      PROVE  MInv'
  BY <1>4, MakePaymentKeeps
<1>5. ASSUME NEW q \in Quotes, ReopenPending(q)
      PROVE  MInv'
  BY <1>5, ReopenKeeps
<1>6. ASSUME NEW id \in Ids, NEW h \in ShareHashes, CreditShare(id, h)
      PROVE  MInv'
  BY <1>6, CreditKeeps
<1>7. CASE LoadLedger \/ LoadFails
  BY <1>7, LoadKeeps
<1>8. CASE \/ Kill
           \/ \E q \in Quotes : KillDuringOpen(q)
           \/ \E id \in Ids, h \in ShareHashes : KillDuringCredit(id, h)
  BY <1>8, KillKeeps
<1>9. CASE LoseJournal
  BY <1>9, LoseKeeps
<1> QED
  BY <1>1, <1>2, <1>3, <1>4, <1>5, <1>6, <1>7, <1>8, <1>9 DEF Next

-----------------------------------------------------------------------------
\* The theorems.

\* A quote is paid only after the pools accepted its whole target, and while
\* the mint serves every pending melt has its redemption.
THEOREM MeltsAreBackedHolds == Safety => []MeltsAreBacked
<1>1. MInv => Ledger!TypeOK
  BY DEF MInv, L!IInv, L!GhostsOK, L!TailOK, L!MemoryOK, L!FileOK, L!Journalled, Ledger!TypeOK,
         L!Book, Ledger!Book, L!Redemption, Ledger!Redemption, L!States, Ledger!States,
         L!Records, Ledger!Records, L!NoTail, Ledger!NoTail, L!Torn, Ledger!Torn
<1>2. MInv => MeltsAreBacked
  BY <1>1 DEF MInv, Types, QuotesOK, MeltsAreBacked, TypeOK
<1> QED
  BY <1>2, InitMInv, StepMInv, PTL DEF Safety

\* As long as no append has failed, no kill and no lost journal reopens a
\* redemption that was paid for.
THEOREM PaidIsNeverServedAgainHolds == Safety => []PaidIsNeverServedAgain
<1>1. L!Replayed = Ledger!Replayed
  BY DEF L!Replayed, Ledger!Replayed, L!Replay, Ledger!Replay, L!Knows, Ledger!Knows,
         L!OpenIn, Ledger!OpenIn, L!CreditIn, Ledger!CreditIn, L!CreditHashes,
         Ledger!CreditHashes, L!New, Ledger!New
<1>2. MInv => PaidIsNeverServedAgain
  BY <1>1 DEF MInv, PaidIsOver, Over, PaidIsNeverServedAgain, Ledger!Effective
<1> QED
  BY <1>2, InitMInv, StepMInv, PTL DEF Safety

=============================================================================
