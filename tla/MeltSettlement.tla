--------------------------- MODULE MeltSettlement ---------------------------
(***************************************************************************)
(* Melting vouchers for hashrate: the mint's quotes, the melt backend      *)
(* (hashu-mint/src/melt.rs), the redemption ledger and the order in which  *)
(* run_daemon (hashu-cli/src/mint.rs) brings them up.                      *)
(*                                                                         *)
(* The quotes live in cdk's database, the redemptions in the ledger and    *)
(* its journal.  No transaction spans the two: a kill can leave a quote    *)
(* pending without a redemption, and the journal file can be lost while    *)
(* the database is not.  cdk is external; of it the module states what     *)
(* melt.rs relies on: a quote is durably pending before make_payment is    *)
(* called, a request that is pending or paid is not melted again, and a    *)
(* pending quote is checked until it is paid.                              *)
(***************************************************************************)
EXTENDS RedemptionBook

CONSTANTS
    Quotes,        \* melt quotes
    RequestOf,     \* RequestOf[q]: redemption_id_for(its request string)
    ShareHashes,   \* what one accepted share may be worth
    WriteErrors,   \* may an append fail without the process dying?
    MaxWork,       \* bound: hashes worked for one redemption
    MaxFaults      \* bound: kills and lost journals

ASSUME SettlementAssumption ==
    /\ RequestOf \in [Quotes -> Ids]
    /\ ShareHashes \subseteq Nat
    /\ WriteErrors \in BOOLEAN
    /\ MaxWork \in Nat /\ MaxFaults \in Nat

VARIABLES
    up, mem, file, tail, unreadable, worked, completions,  \* RedemptionLedger
    phase,    \* how far run_daemon has come
    state,    \* cdk's database: the MeltQuoteState of each quote
    paying,   \* quotes whose make_payment call is under way
    faults,   \* bound: how many faults have happened
    failed    \* history: an append failed and the process went on

ledger == <<up, mem, file, tail, unreadable, worked, completions>>
mint == <<phase, state, paying, faults>>
vars == <<ledger, mint, failed>>

Ledger == INSTANCE RedemptionLedger WITH NonAsciiIds <- {}

\* record() logs a failed write and goes on; file is behind mem for good.
Appended ==
    failed' = \/ failed
              \/ tail' # NoTail
              \/ \E id \in Ids : file.of[id].acc' # mem.of[id].acc'
                              \/ Knows(file, id)' # Knows(mem, id)'

QuoteStates == {"none", "unpaid", "pending", "paid"}
Phases == {"down", "loading", "serving"}

-----------------------------------------------------------------------------
\* cdk.

\* get_payment_quote: any number of quotes may carry one request.
GetPaymentQuote(q) ==
    /\ phase = "serving"
    /\ state[q] = "none"
    /\ state' = [state EXCEPT ![q] = "unpaid"]
    /\ UNCHANGED <<ledger, phase, paying, faults, failed>>

\* The lookup id of q is free: no quote with it is pending or paid.
MayMelt(q) ==
    \A p \in Quotes : RequestOf[p] = RequestOf[q] => state[p] \notin {"pending", "paid"}

Melt(q) ==
    /\ phase = "serving"
    /\ state[q] = "unpaid"
    /\ MayMelt(q)
    /\ state' = [state EXCEPT ![q] = "pending"]
    /\ paying' = paying \cup {q}
    /\ UNCHANGED <<ledger, phase, faults, failed>>

-----------------------------------------------------------------------------
\* HashrateMelter.

\* check_outgoing_payment on a redemption the ledger knows.
Status(id) == IF IsComplete(mem, id) THEN "paid" ELSE "pending"

\* Open the redemption, or report where it stands if it is open already.
MakePayment(q) ==
    LET id == RequestOf[q] IN
    /\ phase = "serving"
    /\ q \in paying
    /\ paying' = paying \ {q}
    /\ \/ /\ ~Knows(mem, id)
          /\ Ledger!Open(id)
          /\ UNCHANGED state
       \/ /\ Knows(mem, id)
          /\ state' = [state EXCEPT ![q] = Status(id)]
          /\ UNCHANGED ledger
    /\ UNCHANGED <<phase, faults>>
    /\ Appended

\* cdk's poller.  An unknown redemption is an error: the quote stays pending.
CheckOutgoingPayment(q) ==
    LET id == RequestOf[q] IN
    /\ phase = "serving"
    /\ state[q] = "pending"
    /\ Knows(mem, id)
    /\ state' = [state EXCEPT ![q] = Status(id)]
    /\ UNCHANGED <<ledger, phase, paying, faults, failed>>

\* The proxy credits an accepted share, once it listens for miners.
CreditShare(id, h) ==
    /\ phase = "serving"
    /\ Ledger!CreditShare(id, h)
    /\ UNCHANGED mint
    /\ Appended

-----------------------------------------------------------------------------
\* run_daemon.

LoadLedger ==
    /\ phase = "down"
    /\ Ledger!Start
    /\ phase' = "loading"
    /\ UNCHANGED <<state, paying, faults, failed>>

LoadFails ==
    /\ phase = "down"
    /\ Ledger!StartFails
    /\ UNCHANGED <<mint, failed>>

\* Mutant: the quotes that are paid are reopened too.
OrphansOfPaid == {q \in Quotes : /\ state[q] \in {"pending", "paid"}
                                 /\ ~Knows(mem, RequestOf[q])}

\* Mutant: nothing is reopened.
OrphansNone == {q \in {} : state[q] = "pending" /\ ~Knows(mem, RequestOf[q])}

Orphans == {q \in Quotes : state[q] = "pending" /\ ~Knows(mem, RequestOf[q])}

\* reopen_pending_quotes, one pending quote after the other.
ReopenPending(q) ==
    /\ phase = "loading"
    /\ q \in Orphans
    /\ Ledger!Open(RequestOf[q])
    /\ UNCHANGED mint
    /\ Appended

\* Mutant: the mint starts before the reopening is done.
ServeEarly ==
    /\ phase = "loading"
    /\ phase' = "serving"
    /\ UNCHANGED <<ledger, state, paying, faults, failed>>

\* mint.start(), the HTTP routes and the listener.
Serve ==
    /\ phase = "loading"
    /\ Orphans = {}
    /\ phase' = "serving"
    /\ UNCHANGED <<ledger, state, paying, faults, failed>>

-----------------------------------------------------------------------------
\* Faults.

Fault == faults < MaxFaults /\ faults' = faults + 1
Stops == phase' = "down" /\ paying' = {} /\ UNCHANGED <<state, failed>>

Kill == Fault /\ Stops /\ Ledger!Kill

KillDuringOpen(q) ==
    /\ \/ phase = "serving" /\ q \in paying
       \/ phase = "loading" /\ q \in Orphans
    /\ Ledger!KillDuringOpen(RequestOf[q])
    /\ Fault /\ Stops

KillDuringCredit(id, h) ==
    /\ phase = "serving"
    /\ Ledger!KillDuringCredit(id, h)
    /\ Fault /\ Stops

\* The journal file is gone when the daemon starts; the database is not.
LoseJournal ==
    /\ phase = "down"
    /\ file # Empty \/ tail # NoTail
    /\ file' = Empty /\ tail' = NoTail
    /\ Fault
    /\ UNCHANGED <<up, mem, unreadable, worked, completions, phase, state, paying, failed>>

-----------------------------------------------------------------------------

Init ==
    /\ Ledger!Init
    /\ phase = "down"
    /\ state = [q \in Quotes |-> "none"]
    /\ paying = {}
    /\ faults = 0
    /\ failed = FALSE

Next ==
    \/ \E q \in Quotes :
          \/ GetPaymentQuote(q) \/ Melt(q) \/ MakePayment(q)
          \/ CheckOutgoingPayment(q) \/ ReopenPending(q) \/ KillDuringOpen(q)
    \/ \E id \in Ids, h \in ShareHashes : CreditShare(id, h) \/ KillDuringCredit(id, h)
    \/ LoadLedger \/ LoadFails \/ Serve
    \/ Kill \/ LoseJournal

\* The proxy routes hashrate to a redemption that is not complete.
Mines(id) ==
    ~IsComplete(mem, id) /\ \E h \in ShareHashes \ {0} : CreditShare(id, h)

\* The container restarts the daemon, run_daemon runs on, cdk awaits its
\* make_payment call and polls, and hashrate reaches every open redemption.
Fairness ==
    /\ WF_vars(LoadLedger) /\ WF_vars(Serve)
    /\ \A q \in Quotes : /\ WF_vars(ReopenPending(q))
                         /\ WF_vars(MakePayment(q))
                         /\ WF_vars(state[q] = "pending" /\ IsComplete(mem, RequestOf[q])
                                    /\ CheckOutgoingPayment(q))
    /\ \A id \in Ids : WF_vars(Mines(id))

Safety == Init /\ [][Next]_vars
Spec == Safety /\ Fairness

-----------------------------------------------------------------------------
\* Properties.

TypeOK ==
    /\ Ledger!TypeOK
    /\ phase \in Phases
    /\ state \in [Quotes -> QuoteStates]
    /\ paying \subseteq Quotes
    /\ faults \in 0 .. MaxFaults
    /\ failed \in BOOLEAN

\* Proofs are spent only for hashrate that was delivered: a quote is paid
\* only after the pools accepted its whole target, also when writes fail, the
\* journal is lost, or a second quote carries the same request.
PaidOnlyIfFilled ==
    \A q \in Quotes : state[q] = "paid" => worked[RequestOf[q]] >= Target[RequestOf[q]]

\* While the mint serves, every melt that holds proofs has its redemption:
\* no check of a settled-for quote meets an unknown redemption.
PendingHasRedemption ==
    phase = "serving" =>
        \A q \in Quotes : state[q] = "pending" /\ q \notin paying => Knows(mem, RequestOf[q])

\* Every melt is backed by hashrate delivered or to be delivered: the two, and
\* the types of what they speak of.
MeltsAreBacked == TypeOK /\ PaidOnlyIfFilled /\ PendingHasRedemption

\* As long as no append has failed a redemption that was paid for is never served again:
\* neither a kill nor a lost journal reopens it.
PaidIsNeverServedAgain ==
    ~failed => \A q \in Quotes : state[q] = "paid" =>
        LET r == Ledger!Effective.of[RequestOf[q]]
        IN  r.state \in {"Completed", "Absent"}

\* Every melt settles: proofs do not hang pending for ever, wherever kills
\* and a lost journal fell.
MeltsSettle == \A q \in Quotes : (state[q] = "pending") ~> (state[q] = "paid")

=============================================================================
