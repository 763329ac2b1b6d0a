----------------------------- MODULE ThhCapacity -----------------------------
(***************************************************************************)
(* How much THH the mint may still sell: the rented hashrate (CapacityBook *)
(* in hashu-mint/src/capacity.rs) against what the mint owes (obligations  *)
(* in hashu-cli/src/operator.rs).  What is owed is counted in five reads   *)
(* of the mint's database and of the ledger, one after the other, while    *)
(* sales and redemptions go on; quotes are checked against the last count. *)
(*                                                                         *)
(* A sale is one parcel of THH on its way: quoted, paid, issued as ecash,  *)
(* melted, delivered as work, and spent.                                   *)
(***************************************************************************)
EXTENDS Naturals, FiniteSets, FiniteSetsExt

CONSTANTS
    Sales,          \* quotes of the mint, each with its THH
    Thh,            \* Thh[s] > 0
    Lists,          \* lists of rentals an operator or MRR may give
    Limits,         \* "auto", "on", "off": what the operator may set
    Counters,       \* who counts: the refresher, and each request that does
    MaxHours,       \* bound: hours that pass
    MaxChanges,     \* bound: changes of the rentals and of the limit
    MaxSwaps,       \* bound: swaps
    MaxFaults       \* bound: counts that fail, and kills

VARIABLES
    stage, rest,          \* how far each sale is, the work it still waits for
    limit, manual, mrr,   \* CapacityBook, as in capacity.json
    disk,                 \* capacity.json
    owed, counted,        \* the last count
    count,                \* each counter: the reads it has made, and what was
                          \* swapped between the first and the second
    moved,                \* history: the sales that moved since each count began
    missed,               \* history: the count of this start failed
    phase,                \* is the mint down, counting before it serves, serving?
    now,                  \* hours
    changes, swaps, faults   \* bounds

sales == <<stage, rest>>
book == <<limit, manual, mrr>>
counting == <<owed, counted, count, moved, missed>>
bounds == <<changes, swaps, faults>>
vars == <<sales, book, disk, counting, phase, now, bounds>>

Stages == {"none", "unpaid", "paid", "issued", "melting", "open", "filled", "spent"}
NoCount == [read |-> 0, total |-> 0, swapped |-> 0]

Sum(S) == MapThenSumSet(LAMBDA s : Thh[s], S)
AtStage(S) == {s \in Sales : stage[s] \in S}
Minus(a, b) == IF a > b THEN a - b ELSE 0

-----------------------------------------------------------------------------
\* What is owed.

\* The undelivered rest of the redemptions in the ledger.
OpenRest == MapThenSumSet(LAMBDA s : rest[s], AtStage({"open"}))

\* Mutant: the inputs of pending melts stay in circulation.
TallyMelting(n, c) ==
    CASE n = 1 -> Sum(AtStage({"issued", "melting", "open", "filled", "spent"}))
      [] n = 2 -> Minus(c.total, Sum(AtStage({"spent"})) + c.swapped)
      [] n = 3 -> c.total
      [] n = 4 -> c.total + Sum(AtStage({"paid"}))
      [] n = 5 -> c.total + OpenRest

\* The n-th read of obligations and what is owed by the reads of count c so far:
\* signed, spent, pending melts (signed, and not spent until filled), paid and not
\* yet minted, and the ledger.  Differences saturate.  A swap adds its THH to what
\* was signed and to what was spent, so only one between these two reads shows.
Tally(n, c) ==
    CASE n = 1 -> Sum(AtStage({"issued", "melting", "open", "filled", "spent"}))
      [] n = 2 -> Minus(c.total, Sum(AtStage({"spent"})) + c.swapped)
      [] n = 3 -> Minus(c.total, Sum(AtStage({"melting", "open", "filled"})))
      [] n = 4 -> c.total + Sum(AtStage({"paid"}))
      [] n = 5 -> c.total + OpenRest

\* What is owed in truth, at one moment.
Owed == Sum(AtStage({"paid", "issued", "melting"})) + OpenRest

Read(k) ==
    /\ phase # "down"
    /\ count[k].read < 5
    /\ LET n == count[k].read + 1 IN
       count' = [count EXCEPT ![k] = [count[k] EXCEPT !.read = n, !.total = Tally(n, count[k])]]
    /\ UNCHANGED <<sales, book, disk, owed, counted, moved, missed, phase, now, bounds>>

\* set_owed.  The first count is made before the mint serves.
Served == IF phase = "counting" THEN "serving" ELSE phase

EndCount(k) ==
    /\ count[k].read = 5
    /\ owed' = count[k].total
    /\ counted' = TRUE
    /\ count' = [count EXCEPT ![k] = NoCount]
    /\ moved' = [moved EXCEPT ![k] = {}]
    /\ phase' = Served
    /\ UNCHANGED <<sales, book, disk, missed, now, bounds>>

\* A read fails: the last count stands, at the start that is none at all.
CountFails(k) ==
    /\ count[k].read > 0
    /\ faults < MaxFaults
    /\ faults' = faults + 1
    /\ count' = [count EXCEPT ![k] = NoCount]
    /\ moved' = [moved EXCEPT ![k] = {}]
    /\ phase' = Served
    /\ missed' = (missed \/ phase = "counting")
    /\ UNCHANGED <<sales, book, disk, owed, counted, now, changes, swaps>>

-----------------------------------------------------------------------------
\* Capacity.

\* Rental::thh_left, of every rental.
Left(r) == r.ths * Minus(r.ends, now)
Capacity == MapThenSumSet(Left, manual) + MapThenSumSet(Left, mrr)

\* CapacityBook::snapshot and check: the limit is on unless it is set off.
Available(thh) == limit = "off" \/ thh <= Minus(Capacity, owed)

\* Every change rewrites the file; a write that fails is only logged.
Change ==
    /\ changes < MaxChanges
    /\ changes' = changes + 1
    /\ disk' \in {disk, [limit |-> limit', manual |-> manual', mrr |-> mrr']}
    /\ UNCHANGED <<sales, counting, phase, now, swaps, faults>>

\* set_capacity: the rentals, then the limit; a recount by a counter follows.
SetManual == phase = "serving" /\ manual' \in Lists /\ UNCHANGED <<limit, mrr>> /\ Change
SetLimit == phase = "serving" /\ limit' \in Limits /\ UNCHANGED <<manual, mrr>> /\ Change

\* One sync with MRR, which runs from the start on; a failed one changes nothing.
SetMrr == phase # "down" /\ mrr' \in Lists /\ UNCHANGED <<limit, manual>> /\ Change

Hour ==
    /\ now < MaxHours
    /\ now' = now + 1
    /\ UNCHANGED <<sales, book, disk, counting, phase, bounds>>

-----------------------------------------------------------------------------
\* Sales.

Move(s, from, to) ==
    /\ stage[s] = from
    /\ stage' = [stage EXCEPT ![s] = to]
    /\ moved' = [k \in Counters |-> IF count[k].read = 0 THEN {} ELSE moved[k] \cup {s}]
    /\ UNCHANGED <<book, disk, owed, counted, count, missed, phase, now, bounds>>

\* ControlledPricer::price, the pause left aside.
GrantQuote(s) == phase = "serving" /\ Available(Thh[s]) /\ Move(s, "none", "unpaid") /\ UNCHANGED rest

\* The mint records payments from its start on.
Pay(s) == phase # "down" /\ Move(s, "unpaid", "paid") /\ UNCHANGED rest
Issue(s) == phase = "serving" /\ Move(s, "paid", "issued") /\ UNCHANGED rest

\* A wallet swaps the ecash of a sale for other ecash of the same worth.
Swap(s) ==
    /\ phase = "serving"
    /\ stage[s] = "issued"
    /\ swaps < MaxSwaps
    /\ swaps' = swaps + 1
    /\ count' = [k \in Counters |-> IF count[k].read = 1
                                     THEN [count[k] EXCEPT !.swapped = @ + Thh[s]]
                                     ELSE count[k]]
    /\ UNCHANGED <<sales, book, disk, owed, counted, moved, missed, phase, now, changes, faults>>

\* The quote is pending before the melter opens its redemption.
Melt(s) == phase = "serving" /\ Move(s, "issued", "melting") /\ UNCHANGED rest
OpenRedemption(s) ==
    /\ phase = "serving"
    /\ Move(s, "melting", "open")
    /\ rest' = [rest EXCEPT ![s] = Thh[s]]

Deliver(s) ==
    /\ phase = "serving"
    /\ rest[s] > 0
    /\ rest' = [rest EXCEPT ![s] = @ - 1]
    /\ Move(s, "open", IF rest[s] = 1 THEN "filled" ELSE "open")

Settle(s) == phase # "down" /\ Move(s, "filled", "spent") /\ UNCHANGED rest

-----------------------------------------------------------------------------
\* Kills and starts.

Kill ==
    /\ phase # "down"
    /\ faults < MaxFaults
    /\ faults' = faults + 1
    /\ phase' = "down"
    /\ owed' = 0 /\ counted' = FALSE /\ missed' = FALSE
    /\ count' = [k \in Counters |-> NoCount]
    /\ moved' = [k \in Counters |-> {}]
    /\ UNCHANGED <<sales, book, disk, now, changes, swaps>>

\* Mutant: the mint serves at once.
StartsServing == "serving"

\* The count comes before the mint serves.
StartsWith == "counting"

\* run_daemon: capacity.json, and the redemption of every pending melt.
Start ==
    /\ phase = "down"
    /\ phase' = StartsWith
    /\ limit' = disk.limit /\ manual' = disk.manual /\ mrr' = disk.mrr
    /\ stage' = [s \in Sales |-> IF stage[s] = "melting" THEN "open" ELSE stage[s]]
    /\ rest' = [s \in Sales |-> IF stage[s] = "melting" THEN Thh[s] ELSE rest[s]]
    /\ UNCHANGED <<disk, counting, now, bounds>>

Init ==
    /\ stage = [s \in Sales |-> "none"]
    /\ rest = [s \in Sales |-> 0]
    /\ limit = "auto" /\ manual = {} /\ mrr = {}
    /\ disk = [limit |-> "auto", manual |-> {}, mrr |-> {}]
    /\ owed = 0 /\ counted = FALSE /\ missed = FALSE
    /\ count = [k \in Counters |-> NoCount]
    /\ moved = [k \in Counters |-> {}]
    /\ phase = "counting"
    /\ now = 0
    /\ changes = 0 /\ swaps = 0 /\ faults = 0

Counting(k) == Read(k) \/ EndCount(k)

Next ==
    \/ \E k \in Counters : Counting(k) \/ CountFails(k)
    \/ \E s \in Sales :
          \/ GrantQuote(s) \/ Pay(s) \/ Issue(s) \/ Swap(s) \/ Melt(s)
          \/ OpenRedemption(s) \/ Deliver(s) \/ Settle(s)
    \/ SetManual \/ SetLimit \/ SetMrr \/ Hour
    \/ Kill \/ Start

\* The refresher is an endless loop; a melt marked pending is paid at once.
Fairness ==
    /\ \A k \in Counters : WF_vars(Counting(k))
    /\ \A s \in Sales : WF_vars(OpenRedemption(s))

Spec == Init /\ [][Next]_vars /\ Fairness

-----------------------------------------------------------------------------

TypeOK ==
    /\ stage \in [Sales -> Stages]
    /\ \A s \in Sales : rest[s] \in 0..Thh[s] /\ (stage[s] = "open" <=> rest[s] > 0)
    /\ limit \in Limits /\ manual \in Lists /\ mrr \in Lists
    /\ disk \in [limit : Limits, manual : Lists, mrr : Lists]
    /\ owed \in Nat /\ counted \in BOOLEAN
    /\ \A k \in Counters : count[k].read \in 0..5

\* The five reads are torn by what happens between them, and no worse: a count
\* misses or invents at most twice the THH that moved while it was made.  It also
\* misses melts whose redemption is not open yet, and what was swapped between the
\* reads of what was signed and of what was spent.
CountOffByWhatMoved ==
    \A k \in Counters : count[k].read = 5 =>
        LET torn == 2 * Sum(moved[k]) IN
        /\ Owed <= count[k].total + torn + count[k].swapped + Sum(AtStage({"melting"}))
        /\ count[k].total <= Owed + torn

\* After a start no quote is given under the limit before what is owed was
\* counted, unless that count failed.
SellsCounted ==
    \A s \in Sales : (stage[s] = "none" /\ stage'[s] = "unpaid") =>
        counted \/ limit = "off" \/ missed
NeverSellsBlind == [][SellsCounted]_vars

\* Once nothing moves any more, what is owed is known.
OwedCatchesUp == <>[](phase = "serving" => owed = Owed)

=============================================================================
