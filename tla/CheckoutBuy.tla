----------------------------- MODULE CheckoutBuy -----------------------------
(***************************************************************************)
(* Buying THH at the checkout page (buy and buy_status in hashu-cli/src/   *)
(* checkout.rs).  A purchase is an entry in a map in memory, with a wallet *)
(* of its own and, once it was paid and minted, its token.  The page polls *)
(* for its state; polls of one purchase take turns on the entry's lock.    *)
(* Purchases are dropped from the map a day after their start, when        *)
(* somebody else buys.                                                     *)
(***************************************************************************)
EXTENDS Naturals, FiniteSets

CONSTANTS
    Buys,        \* purchases
    Polls,       \* polls that may run at a time
    None,
    MaxFaults    \* bound: kills, lost answers and clients that go away

VARIABLES
    quote,    \* the mint: each purchase's quote
    entry,    \* CheckoutState.checkouts: is the purchase in the map?
    token,    \* the purchases whose entry holds a token
    day,      \* the purchases that are a day old
    poll,     \* each poll: of what, and how far it is
    lock,     \* the poll that holds the purchase's lock
    told,     \* the purchases whose buyer has seen the token
    hit,      \* history: the purchases a fault came into
    faults    \* bound

vars == <<quote, entry, token, day, poll, lock, told, hit, faults>>

Idle == [of |-> None, at |-> "idle"]
At(p, step) == poll[p].at = step
Of(p) == poll[p].of

-----------------------------------------------------------------------------
\* buy.

\* The pause and the capacity are checked, and again by the mint for the
\* quote: any of them may refuse.  A second purchase is refused or made alike.
RequestQuote(b) ==
    /\ quote[b] = "none"
    /\ quote' = [quote EXCEPT ![b] = "unpaid"]
    /\ UNCHANGED <<entry, token, day, poll, lock, told, hit, faults>>

\* Entries a day old go, but for those whose lock is held.
Forgotten(b) == {o \in Buys : o # b /\ entry[o] = "here" /\ o \in day /\ lock[o] = None}

\* The buyer sees the payment request.
Insert(b) ==
    /\ quote[b] = "unpaid"
    /\ entry[b] = "none"
    /\ entry' = [o \in Buys |-> IF o = b THEN "here" ELSE IF o \in Forgotten(b) THEN "gone" ELSE entry[o]]
    /\ UNCHANGED <<quote, token, day, poll, lock, told, hit, faults>>

\* Over any rail, also once the entry is gone.
Pay(b) ==
    /\ quote[b] = "unpaid"
    /\ entry[b] # "none"
    /\ quote' = [quote EXCEPT ![b] = "paid"]
    /\ UNCHANGED <<entry, token, day, poll, lock, told, hit, faults>>

DayPasses(b) ==
    /\ entry[b] = "here"
    /\ day' = day \cup {b}
    /\ UNCHANGED <<quote, entry, token, poll, lock, told, hit, faults>>

-----------------------------------------------------------------------------
\* buy_status.

\* The entry is looked up, then its lock is awaited.
Arrive(p, b) ==
    /\ At(p, "idle")
    /\ entry[b] = "here"
    /\ poll' = [poll EXCEPT ![p] = [of |-> b, at |-> "waiting"]]
    /\ UNCHANGED <<quote, entry, token, day, lock, told, hit, faults>>

\* Mutant: a token that is there is not looked for.
AfterLockBlind(b) == "checking"

\* A token that is there is the answer.
AfterLock(b) == IF b \in token THEN "answering" ELSE "checking"

Lock(p) ==
    /\ At(p, "waiting")
    /\ lock[Of(p)] = None
    /\ lock' = [lock EXCEPT ![Of(p)] = p]
    /\ poll' = [poll EXCEPT ![p].at = AfterLock(Of(p))]
    /\ UNCHANGED <<quote, entry, token, day, told, hit, faults>>

\* What ends a poll: its lock is free again.
Leave(p) ==
    /\ poll' = [poll EXCEPT ![p] = Idle]
    /\ lock' = [lock EXCEPT ![Of(p)] = None]

\* The mint is asked whether the quote is paid; an issued one is.
CheckQuote(p) ==
    /\ At(p, "checking")
    /\ \/ /\ quote[Of(p)] \in {"paid", "issued"}
          /\ poll' = [poll EXCEPT ![p].at = "minting"]
          /\ UNCHANGED lock
       \/ quote[Of(p)] = "unpaid" /\ Leave(p)
    /\ UNCHANGED <<quote, entry, token, day, told, hit, faults>>

\* The mint signs once for a paid quote; the token goes into the entry.
Mint(p) ==
    /\ At(p, "minting")
    /\ quote[Of(p)] = "paid"
    /\ quote' = [quote EXCEPT ![Of(p)] = "issued"]
    /\ token' = token \cup {Of(p)}
    /\ poll' = [poll EXCEPT ![p].at = "answering"]
    /\ UNCHANGED <<entry, day, lock, told, hit, faults>>

\* It refuses an issued quote, and may fail: "paid, but minting failed".
MintRefused(p) ==
    /\ At(p, "minting")
    /\ Leave(p)
    /\ UNCHANGED <<quote, entry, token, day, told, hit, faults>>

Answer(p) ==
    /\ At(p, "answering")
    /\ told' = told \cup {Of(p)}
    /\ Leave(p)
    /\ UNCHANGED <<quote, entry, token, day, hit, faults>>

-----------------------------------------------------------------------------
\* Faults.

\* The signatures were made and do not arrive, or the client goes away and the
\* handler with it while it awaits them.
MintedInVain(p) ==
    /\ At(p, "minting")
    /\ quote[Of(p)] = "paid"
    /\ faults < MaxFaults
    /\ faults' = faults + 1
    /\ quote' = [quote EXCEPT ![Of(p)] = "issued"]
    /\ hit' = hit \cup {Of(p)}
    /\ Leave(p)
    /\ UNCHANGED <<entry, token, day, told>>

\* Handlers are dropped with their client wherever they wait.
Abandon(p) ==
    /\ \/ At(p, "checking") \/ At(p, "answering")
       \/ At(p, "minting") /\ quote[Of(p)] = "paid"
    /\ faults < MaxFaults
    /\ faults' = faults + 1
    /\ Leave(p)
    /\ UNCHANGED <<quote, entry, token, day, told, hit>>

\* The map is in memory; quotes are in the mint's database.
Kill ==
    /\ faults < MaxFaults
    /\ faults' = faults + 1
    /\ entry' = [b \in Buys |-> IF entry[b] = "here" THEN "gone" ELSE entry[b]]
    /\ hit' = hit \cup {b \in Buys : entry[b] = "here"}
    /\ token' = {}
    /\ poll' = [p \in Polls |-> Idle]
    /\ lock' = [b \in Buys |-> None]
    /\ UNCHANGED <<quote, day, told>>

Init ==
    /\ quote = [b \in Buys |-> "none"]
    /\ entry = [b \in Buys |-> "none"]
    /\ token = {} /\ day = {} /\ told = {} /\ hit = {}
    /\ poll = [p \in Polls |-> Idle]
    /\ lock = [b \in Buys |-> None]
    /\ faults = 0

Next ==
    \/ \E b \in Buys : RequestQuote(b) \/ Insert(b) \/ Pay(b) \/ DayPasses(b) \/ \E p \in Polls : Arrive(p, b)
    \/ \E p \in Polls :
          \/ Lock(p) \/ CheckQuote(p) \/ Mint(p) \/ MintRefused(p) \/ Answer(p)
          \/ MintedInVain(p) \/ Abandon(p)
    \/ Kill

Spec == Init /\ [][Next]_vars

-----------------------------------------------------------------------------

TypeOK ==
    /\ quote \in [Buys -> {"none", "unpaid", "paid", "issued"}]
    /\ entry \in [Buys -> {"none", "here", "gone"}]
    /\ token \subseteq Buys /\ day \subseteq Buys /\ told \subseteq Buys /\ hit \subseteq Buys
    /\ \A b \in Buys : lock[b] # None => Of(lock[b]) = b

\* A purchase that was paid stays within its buyer's reach: the token was shown,
\* or a poll will get it, or one is getting it now; unless a fault came into the
\* purchase or it is older than a day.
PaidIsWithinReach ==
    \A b \in Buys : quote[b] \in {"paid", "issued"} =>
        \/ b \in told \cup hit \cup day
        \/ entry[b] = "here" /\ (quote[b] = "paid" \/ b \in token)

\* However many polls of a purchase overlap, none asks the mint for a token
\* that is there, which it would answer with "paid, but minting failed".
TokenIsMintedOnce == \A p \in Polls : At(p, "minting") => Of(p) \notin token

\* A buyer who paid gets the token, and the mint is asked once: the two together.
PaidBuysAreIssued == PaidIsWithinReach /\ TokenIsMintedOnce

=============================================================================
