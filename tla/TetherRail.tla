----------------------------- MODULE TetherRail -----------------------------
(***************************************************************************)
(* Selling THH for USDT (hashu-mint/src/tether.rs).  A quote reserves an   *)
(* amount no other open quote has; a transfer of exactly that amount into  *)
(* the one deposit address settles it.  A task polls the chain's confirmed *)
(* blocks through a cursor, in ranges, and sends what settled to cdk.      *)
(*                                                                         *)
(* Quotes, cursor and everything the rail remembers are in memory.         *)
(***************************************************************************)
EXTENDS Integers, Sequences, Functions

CONSTANTS
    Quotes,         \* mint quotes the wallets ask for
    Amounts,        \* micro-USDT amounts at the price, apart by their tag
    Confirmations,  \* EvmRpcSource::confirmations
    MaxRange,       \* EvmRpcSource::max_range, not 0
    MaxBlocks,      \* bound: length of the chain
    MaxRestarts     \* bound: how often the mint is killed

VARIABLES
    chain,     \* block by block: the amount sent to the deposit address
    told,      \* the amount in each quote's payment request
    age,       \* each quote's clock: until the end of its grace, and after
    open,      \* State.open: amount to quote
    paid,      \* State.paid: quote to the block of its transfer
    seen,      \* State.seen: transfers already handled
    next,      \* State.next_block
    answer,    \* what the source answered to the poll under way
    events,    \* payments sent to cdk's stream
    credited,  \* cdk's database: the payments of each quote
    restarts,  \* bound: kills so far
    since      \* history: first block of this process's cursor

state == <<open, paid, seen, next>>
vars == <<chain, told, age, state, answer, events, credited, restarts, since>>

NoTransfer == "no transfer"
NoAmount == "no amount"
NotPolled == 0          \* next_block: None
NoAnswer == [first |-> 1, last |-> 0, next |-> NotPolled]
Ages == {"none", "kept", "over"}

Empty == [x \in {} |-> x]
Without(f, x) == [y \in DOMAIN f \ {x} |-> f[y]]
With(f, x, v) == [y \in DOMAIN f \cup {x} |-> IF y = x THEN v ELSE f[y]]

-----------------------------------------------------------------------------
\* The chain.  Blocks below the confirmation depth do not change; at most one
\* transfer per block, so that its block names it.

Mine(transfer) ==
    /\ Len(chain) < MaxBlocks
    /\ chain' = Append(chain, transfer)
    /\ UNCHANGED <<told, age, state, answer, events, credited, restarts, since>>

\* Mutant: the subtraction does not saturate on a young chain.
SafeUnsaturated == Len(chain) - Confirmations

Safe == IF Len(chain) > Confirmations THEN Len(chain) - Confirmations ELSE 0

\* Mutant: a capped range moves the cursor past blocks it did not read.
AnswerFromSkipping(from) ==
    IF from > Safe THEN [first |-> from, last |-> Safe, next |-> from]
    ELSE LET to == IF Safe =< from + MaxRange - 1 THEN Safe ELSE from + MaxRange - 1
         IN  [first |-> from, last |-> to, next |-> Safe + 1]

\* EvmRpcSource::poll
AnswerFrom(from) ==
    IF from > Safe THEN [first |-> from, last |-> Safe, next |-> from]
    ELSE LET to == IF Safe =< from + MaxRange - 1 THEN Safe ELSE from + MaxRange - 1
         IN  [first |-> from, last |-> to, next |-> to + 1]

\* None means start from now.
FirstBlock == Safe + 1

-----------------------------------------------------------------------------
\* State.

\* open_quote: a tag is drawn until it is free.
OpenQuote(q, amount) ==
    /\ age[q] = "none"
    /\ amount \notin DOMAIN open
    /\ told' = [told EXCEPT ![q] = amount]
    /\ age' = [age EXCEPT ![q] = "kept"]
    /\ open' = With(open, amount, q)
    /\ UNCHANGED <<chain, paid, seen, next, answer, events, credited, restarts, since>>

Payment(q, b) == [quote |-> q, block |-> b]

\* One block of the batch, with its transfer if it has one.
SettleOne(s, b) ==
    IF chain[b] = NoTransfer \/ b \in s.seen THEN s
    ELSE IF chain[b] \notin DOMAIN s.open THEN [s EXCEPT !.seen = @ \cup {b}]
    ELSE LET q == s.open[chain[b]]
         IN  [open |-> Without(s.open, chain[b]),
              paid |-> With(s.paid, q, b),
              seen |-> s.seen \cup {b},
              settled |-> Append(s.settled, Payment(q, b))]

\* Quotes past the grace are dropped.
Retained(book) ==
    [a \in {a \in DOMAIN book : age[book[a]] # "over"} |-> book[a]]

\* The batch, one transfer after the other in the order of the blocks.
Matched(before) ==
    LET upto[b \in 0 .. answer.last] ==
            IF b < answer.first THEN before ELSE SettleOne(upto[b - 1], b)
    IN  upto[answer.last]

Now == [open |-> open, paid |-> paid, seen |-> seen, settled |-> <<>>]

\* Mutant: what is past the grace is dropped before the batch is matched.
SettledDropFirst == Matched([Now EXCEPT !.open = Retained(open)])

\* settle: first the whole batch is matched, then the old quotes go.
Settled == [Matched(Now) EXCEPT !.open = Retained(@)]

-----------------------------------------------------------------------------
\* The task behind wait_payment_event: poll_once, then the events.

\* The source is asked from the cursor.  A failed call changes nothing.
Poll ==
    /\ answer = NoAnswer
    /\ answer' = AnswerFrom(IF next = NotPolled THEN FirstBlock ELSE next)
    /\ UNCHANGED <<chain, told, age, state, events, credited, restarts, since>>

Settle ==
    /\ answer # NoAnswer
    /\ open' = Settled.open
    /\ paid' = Settled.paid
    /\ seen' = Settled.seen
    /\ events' = events \o Settled.settled
    /\ next' = answer.next
    /\ since' = IF next = NotPolled THEN answer.first ELSE since
    /\ answer' = NoAnswer
    /\ UNCHANGED <<chain, told, age, credited, restarts>>

-----------------------------------------------------------------------------
\* cdk: a payment is recorded once, by its id.

Deliver ==
    /\ events # <<>>
    /\ credited' = credited \cup {Head(events)}
    /\ events' = Tail(events)
    /\ UNCHANGED <<chain, told, age, state, answer, restarts, since>>

\* A wallet asks for its quote: check_incoming_payment_status.
Check(q) ==
    /\ q \in DOMAIN paid
    /\ credited' = credited \cup {Payment(q, paid[q])}
    /\ UNCHANGED <<chain, told, age, state, answer, events, restarts, since>>

-----------------------------------------------------------------------------

\* The quote's hour and the day after it have passed.  The hour alone changes
\* nothing here.
Age(q) ==
    /\ age[q] = "kept"
    /\ age' = [age EXCEPT ![q] = "over"]
    /\ UNCHANGED <<chain, told, state, answer, events, credited, restarts, since>>

\* The mint is killed and started again.
Restart ==
    /\ restarts < MaxRestarts
    /\ restarts' = restarts + 1
    /\ open' = Empty
    /\ paid' = Empty
    /\ seen' = {}
    /\ next' = NotPolled
    /\ answer' = NoAnswer
    /\ events' = <<>>
    /\ since' = NotPolled
    /\ UNCHANGED <<chain, told, age, credited>>

Init ==
    /\ chain = <<>>
    /\ told = [q \in Quotes |-> NoAmount]
    /\ age = [q \in Quotes |-> "none"]
    /\ open = Empty
    /\ paid = Empty
    /\ seen = {}
    /\ next = NotPolled
    /\ answer = NoAnswer
    /\ events = <<>>
    /\ credited = {}
    /\ restarts = 0
    /\ since = NotPolled

Next ==
    \/ \E transfer \in Amounts \cup {NoTransfer} : Mine(transfer)
    \/ \E q \in Quotes :
          \/ \E amount \in Amounts : OpenQuote(q, amount)
          \/ Check(q)
          \/ Age(q)
    \/ Poll
    \/ Settle
    \/ Deliver
    \/ Restart

Spec == Init /\ [][Next]_vars

-----------------------------------------------------------------------------
\* Properties.

Blocks == 1 .. Len(chain)
Payments == [quote : Quotes, block : Blocks]
InBook(q) == q \in Range(open)

TypeOK ==
    /\ chain \in Seq(Amounts \cup {NoTransfer})
    /\ told \in [Quotes -> Amounts \cup {NoAmount}]
    /\ age \in [Quotes -> Ages]
    /\ DOMAIN open \subseteq Amounts
    /\ \A a \in DOMAIN open : open[a] \in Quotes /\ told[open[a]] = a
    /\ DOMAIN paid \subseteq Quotes /\ Range(paid) \subseteq Blocks
    /\ seen \subseteq Blocks
    /\ {next, since} \subseteq 0 .. MaxBlocks + 1
    /\ answer = NoAnswer \/ answer.next \in 1 .. MaxBlocks + 1
    /\ events \in Seq(Payments)
    /\ credited \subseteq Payments
    /\ restarts \in 0 .. MaxRestarts

\* No transfer pays two quotes and no quote is paid by two transfers, also
\* when an amount is given out again, the cursor starts anew after a kill or
\* a payment reaches cdk on both its ways; and what pays is the exact amount.
OneTransferPerQuote ==
    \A p \in credited :
        /\ chain[p.block] = told[p.quote]
        /\ \A o \in credited : o.quote = p.quote <=> o.block = p.block

\* Behind the cursor lies no transfer that was not looked at.
NothingSkipped ==
    \A b \in since .. next - 1 :
        since # NotPolled /\ chain[b] # NoTransfer => b \in seen

\* A quote is settled by its own transfer: the two together.
TransfersSettleQuotes == OneTransferPerQuote /\ NothingSkipped

\* A quote leaves the book paid, unless no block just read pays it: a payment
\* reported after the grace settles its quote, if that is in the book until then.
LeavesPaid ==
    \A q \in Quotes :
        InBook(q) /\ ~InBook(q)' /\ restarts' = restarts =>
            \/ q \in DOMAIN paid'
            \/ \A b \in answer.first .. answer.last : chain[b] # told[q]

QuotesLeavePaid == [][LeavesPaid]_vars

=============================================================================
