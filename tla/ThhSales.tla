------------------------------ MODULE ThhSales ------------------------------
(***************************************************************************)
(* Selling THH over Lightning: the issuer that turns sats into THH         *)
(* (hashu-mint/src/payment.rs) on a phoenixd node (hashu-mint/src/         *)
(* phoenixd.rs).  The issuer keeps a book of its sales, the rail a map of  *)
(* its open invoices; both are in memory, and each is pruned on its own    *)
(* schedule.  A payment reaches cdk on three ways: two tasks of the rail,  *)
(* one polling and one listening to phoenixd's push socket, and a check    *)
(* when a wallet asks for its quote.                                       *)
(***************************************************************************)
EXTENDS Naturals, Sequences

CONSTANTS
    Quotes,       \* mint quotes, each with its invoice
    Thh,          \* Thh[q] > 0: what the quote sells
    Price,        \* Price[q] > 0: its invoice, in sats
    Fees,         \* what phoenixd may take off a payment to open a channel
    MaxDrops,     \* bound: how often the push socket drops
    MaxRestarts   \* bound: how often the mint is killed

VARIABLES
    asked,      \* how far create_incoming_payment_request is
    paid,       \* phoenixd: the invoices it has been paid
    age,        \* each invoice's clock against the two graces
    open,       \* Phoenixd.open
    book,       \* ThhIssuer.book
    pass,       \* a poll pass of each task: what it has to ask, has found
    socket,     \* is the push socket connected?
    frames,     \* push frames on their way
    tx,         \* the channel to cdk's stream
    credited,   \* cdk's database: recorded payments
    drops, restarts   \* bounds

node == <<paid, frames>>
rail == <<open, pass, socket, tx>>
bounds == <<drops, restarts>>
vars == <<asked, node, age, rail, book, credited, bounds>>

Tasks == {"poll", "push"}
NoPass == [on |-> FALSE, todo |-> {}, found |-> <<>>]

-----------------------------------------------------------------------------
\* The quote.

\* The rail has its invoice before the issuer books the sale.
CreateInvoice(q) ==
    /\ asked[q] = "no"
    /\ asked' = [asked EXCEPT ![q] = "invoiced"]
    /\ open' = open \cup {q}
    /\ UNCHANGED <<node, age, pass, socket, tx, book, credited, bounds>>

\* A sale is kept for a day past its expiry.
BookKept == {q \in book : age[q] # "old"}

\* Book::insert; the wallet gets its invoice.
BookSale(q) ==
    /\ asked[q] = "invoiced"
    /\ asked' = [asked EXCEPT ![q] = "quoted"]
    /\ book' = BookKept \cup {q}
    /\ UNCHANGED <<node, age, rail, credited, bounds>>

\* What phoenixd pushes: the invoice and what it received for it.
Frame(q, fee) == [quote |-> q, sats |-> IF fee < Price[q] THEN Price[q] - fee ELSE 0]

\* The buyer pays the invoice before it expires; phoenixd may keep a fee and
\* pushes a frame if the mint listens.
Pay(q, fee) ==
    /\ asked[q] = "quoted"
    /\ q \notin paid
    /\ age[q] = "live"
    /\ paid' = paid \cup {q}
    /\ frames' = IF socket THEN Append(frames, Frame(q, fee)) ELSE frames
    /\ UNCHANGED <<asked, age, rail, book, credited, bounds>>

\* Late: five minutes past its expiry.  Old: a day past it; by then a poll
\* pass, which takes minutes, has dropped the invoice.
Age(q) ==
    /\ asked[q] = "quoted"
    /\ \/ age[q] = "live" /\ age' = [age EXCEPT ![q] = "late"]
       \/ age[q] = "late" /\ q \notin open /\ age' = [age EXCEPT ![q] = "old"]
    /\ UNCHANGED <<asked, node, rail, book, credited, bounds>>

-----------------------------------------------------------------------------
\* The rail.

\* The invoiced amount, not what phoenixd received: from the rail's own
\* record or from the bolt11 that phoenixd returns with a payment.
Settled(q) == [quote |-> q, sats |-> Price[q]]

\* Start of poll_open: long expired invoices go, the others are asked for.
BeginPass(t) ==
    /\ ~pass[t].on
    /\ t = "push" => ~socket
    /\ open' = {q \in open : age[q] = "live"}
    /\ pass' = [pass EXCEPT ![t] = [on |-> TRUE, todo |-> open', found |-> <<>>]]
    /\ socket' = (socket \/ t = "push")
    /\ UNCHANGED <<asked, node, age, tx, book, credited, bounds>>

\* Mutant: any answer closes the invoice.
AskedClosesAll(t, q) ==
    /\ open' = open \ {q}
    /\ pass' = [pass EXCEPT ![t] = [on |-> TRUE, todo |-> @.todo \ {q}, found |->
                    IF q \in paid THEN Append(@.found, Settled(q)) ELSE @.found]]

\* An answer from phoenixd: a paid invoice is closed.
Asked(t, q) ==
    /\ open' = IF q \in paid THEN open \ {q} ELSE open
    /\ pass' = [pass EXCEPT ![t] = [on |-> TRUE, todo |-> @.todo \ {q}, found |->
                    IF q \in paid THEN Append(@.found, Settled(q)) ELSE @.found]]

Ask(t, q) ==
    /\ q \in pass[t].todo
    /\ Asked(t, q)
    /\ UNCHANGED <<asked, node, age, socket, tx, book, credited, bounds>>

\* phoenixd does not answer.
AskFails(t, q) ==
    /\ q \in pass[t].todo
    /\ pass' = [pass EXCEPT ![t] = [on |-> TRUE, todo |-> @.todo \ {q}, found |-> @.found]]
    /\ UNCHANGED <<asked, node, age, open, socket, tx, book, credited, bounds>>

EndPass(t) ==
    /\ pass[t].on
    /\ pass[t].todo = {}
    /\ tx' = tx \o pass[t].found
    /\ pass' = [pass EXCEPT ![t] = NoPass]
    /\ UNCHANGED <<asked, node, age, open, socket, book, credited, bounds>>

Pushed(frame) == Settled(frame.quote)

\* settle_push: a frame for an invoice that is not open is ignored.
SettlePush ==
    /\ socket
    /\ ~pass["push"].on
    /\ frames # <<>>
    /\ LET frame == Head(frames)
       IN  /\ open' = open \ {frame.quote}
           /\ tx' = IF frame.quote \in open THEN Append(tx, Pushed(frame)) ELSE tx
    /\ frames' = Tail(frames)
    /\ UNCHANGED <<asked, paid, age, pass, socket, book, credited, bounds>>

\* The link breaks or is silent for a minute: its frames are lost.
Drop ==
    /\ socket
    /\ ~pass["push"].on
    /\ drops < MaxDrops
    /\ drops' = drops + 1
    /\ socket' = FALSE
    /\ frames' = <<>>
    /\ UNCHANGED <<asked, paid, age, open, pass, tx, book, credited, restarts>>

-----------------------------------------------------------------------------
\* The issuer and cdk.

\* All of the quote once paid in full, pro rata before.
ThhFor(sats, q) ==
    IF sats >= Price[q] THEN Thh[q] ELSE (sats * Thh[q]) \div Price[q]

\* What cdk gets of a payment: nothing for an unknown sale, or too little for
\* one THH.  The payment id is the invoice's hash, and cdk records it once.
Record(p) ==
    LET thh == ThhFor(p.sats, p.quote)
    IN  IF \/ p.quote \notin book
           \/ thh = 0
           \/ \E r \in credited : r.quote = p.quote
        THEN credited
        ELSE credited \cup {[quote |-> p.quote, thh |-> thh]}

Deliver ==
    /\ tx # <<>>
    /\ credited' = Record(Head(tx))
    /\ tx' = Tail(tx)
    /\ UNCHANGED <<asked, node, age, open, pass, socket, book, bounds>>

\* A wallet asks for its quote; the invoice stays open.
Check(q) ==
    /\ asked[q] = "quoted"
    /\ q \in book
    /\ q \in paid
    /\ credited' = Record(Settled(q))
    /\ UNCHANGED <<asked, node, age, rail, book, bounds>>

-----------------------------------------------------------------------------

\* The mint is killed and started again; a request under way fails.
Restart ==
    /\ restarts < MaxRestarts
    /\ restarts' = restarts + 1
    /\ asked' = [q \in Quotes |-> IF asked[q] = "invoiced" THEN "failed" ELSE asked[q]]
    /\ open' = {}
    /\ book' = {}
    /\ pass' = [t \in Tasks |-> NoPass]
    /\ socket' = FALSE
    /\ frames' = <<>>
    /\ tx' = <<>>
    /\ UNCHANGED <<paid, age, credited, drops>>

Init ==
    /\ asked = [q \in Quotes |-> "no"]
    /\ paid = {}
    /\ age = [q \in Quotes |-> "live"]
    /\ open = {}
    /\ book = {}
    /\ pass = [t \in Tasks |-> NoPass]
    /\ socket = FALSE
    /\ frames = <<>>
    /\ tx = <<>>
    /\ credited = {}
    /\ drops = 0
    /\ restarts = 0

Next ==
    \/ \E q \in Quotes :
          \/ CreateInvoice(q)
          \/ BookSale(q)
          \/ \E fee \in Fees : Pay(q, fee)
          \/ Age(q)
          \/ Check(q)
          \/ \E t \in Tasks : Ask(t, q) \/ AskFails(t, q)
    \/ \E t \in Tasks : BeginPass(t) \/ EndPass(t)
    \/ SettlePush
    \/ Drop
    \/ Deliver
    \/ Restart

Spec == Init /\ [][Next]_vars

-----------------------------------------------------------------------------
\* Properties.

Payments == [quote : Quotes, sats : Nat]

TypeOK ==
    /\ asked \in [Quotes -> {"no", "invoiced", "quoted", "failed"}]
    /\ paid \subseteq Quotes
    /\ age \in [Quotes -> {"live", "late", "old"}]
    /\ open \subseteq Quotes /\ book \subseteq Quotes
    /\ \A t \in Tasks : /\ pass[t].on \in BOOLEAN
                        /\ pass[t].todo \subseteq Quotes
                        /\ pass[t].found \in Seq(Payments)
    /\ socket \in BOOLEAN
    /\ frames \in Seq(Payments)
    /\ tx \in Seq(Payments)
    /\ credited \subseteq [quote : Quotes, thh : Nat]
    /\ drops \in 0 .. MaxDrops /\ restarts \in 0 .. MaxRestarts

\* A credited quote has been paid and gets exactly its THH, whichever of the
\* three ways comes first and whatever fee phoenixd has taken.
CreditedInFull ==
    \A q \in Quotes :
        LET records == {r \in credited : r.quote = q}
        IN  records # {} => q \in paid /\ records = {[quote |-> q, thh |-> Thh[q]]}

\* Whatever the rail can still report the issuer can still translate: no
\* payment of an open invoice, or on its way to cdk, is of an unknown sale.
RailWithinBook ==
    /\ \A q \in open : asked[q] = "quoted" => q \in book
    /\ \A i \in DOMAIN tx : age[tx[i].quote] # "old" => tx[i].quote \in book

\* A payment made in time is never lost between the tasks, whether frames are
\* lost, calls fail or two tasks find it at once: until five minutes past the
\* expiry it can still be found, has been found, or is recorded.
PaidIsNotLost ==
    \A q \in paid :
        q \in book /\ age[q] = "live" =>
            \/ q \in open
            \/ \E t \in Tasks : \E i \in DOMAIN pass[t].found : pass[t].found[i].quote = q
            \/ \E i \in DOMAIN tx : tx[i].quote = q
            \/ \E r \in credited : r.quote = q

\* A payment becomes a credit, once and in full, by whichever way it is found.
PaymentsAreCredited == CreditedInFull /\ RailWithinBook /\ PaidIsNotLost

=============================================================================
