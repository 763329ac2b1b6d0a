----------------------------- MODULE PriceOracle -----------------------------
(***************************************************************************)
(* The price of THH in sats: the sample buffer of hashu-core/src/          *)
(* hashprice.rs, the pollers that fill it from the rigs for rent           *)
(* (oracle/mrr.rs) or from the blocks of the chain (oracle/esplora.rs),    *)
(* build_oracle of hashu-cli/src/mint.rs, and what a quote is billed       *)
(* (pricing.rs, operator.rs).                                              *)
(*                                                                         *)
(* Prices are integers, Scale of them a sat; time is in steps of which     *)
(* `Every` make a refresh.  Averages and interpolated prices are rounded   *)
(* down.                                                                   *)
(***************************************************************************)
EXTENDS Integers, Sequences, SequencesExt, FiniteSetsExt

CONSTANTS
    Prices, Scale,
    Every,           \* price_refresh_secs
    MaxFetch,        \* the longest a fetch takes
    Capacity,        \* of the sample buffer
    PageSize, MaxPages,
    Window,          \* blocks averaged over
    Skew,            \* how far the time of a block is off, either way
    Markup,          \* the operator's markup, in percent
    MaxAmount,       \* the THH of a quote, at most
    None,
    MaxRigs,         \* bound: rigs for rent
    MaxBlocks,       \* bound: blocks
    MaxNow           \* bound: time

VARIABLES
    feed, fallback,    \* --price and --sats-per-thh
    now,
    samples,           \* SampleBuffer
    due, started,      \* the poller: its next tick, the start of its fetch
    chain,             \* the blocks, for the "esplora" feed
    failures           \* history: failed fetches since a good one, None if none was

poller == <<due, started, failures>>
vars == <<feed, fallback, now, samples, chain, poller>>

CeilDiv(a, b) == (a + b - 1) \div b
Average(s) == FoldSeq(LAMBDA p, sum : p + sum, 0, s) \div Len(s)

-----------------------------------------------------------------------------
\* SampleBuffer.

\* Mutant: a sample is the newest because it came last.
PlaceLast(s) == Len(samples) + 1

\* Behind the last sample that is not newer.
Place(s) == 1 + Max({0} \cup {i \in DOMAIN samples : samples[i].t <= s.t})

Push(s) ==
    LET longer == InsertAt(samples, Place(s), s) IN
    samples' = IF Len(longer) > Capacity THEN Tail(longer) ELSE longer

Stale == 3 * Every

\* Between two samples by their distance, after the last one until it is stale.
SampleAt(t) ==
    IF samples = <<>> \/ t < Head(samples).t THEN None
    ELSE IF t > Last(samples).t
    THEN IF t - Last(samples).t <= Stale THEN Last(samples).price ELSE None
    ELSE LET i == Min({j \in DOMAIN samples : samples[j].t >= t})
             s == samples[i]
             prev == samples[i - 1] IN
         IF s.t = t THEN s.price
         ELSE (prev.price * (s.t - t) + s.price * (t - prev.t)) \div (s.t - prev.t)

\* WithFallback, and FixedHashprice.
Price(t) ==
    IF feed # "fixed" /\ SampleAt(t) # None THEN SampleAt(t) ELSE fallback

-----------------------------------------------------------------------------
\* The rigs for rent.

\* What the market lists: by price, some rigs offline, rented or without BTC.
Listings ==
    {l \in BoundedSeq([price : Prices, eligible : BOOLEAN], MaxRigs) :
        \A i \in 1..Len(l) - 1 : l[i].price <= l[i + 1].price}

Eligible(l) == {r.price : r \in {x \in Range(l) : x.eligible}}

\* The n-th page.
Page(l, n) == SubSeq(l, (n - 1) * PageSize + 1, Min({n * PageSize, Len(l)}))

\* The pages an eligible rig is on, of those that would be read.
Hits(l) == {n \in 1..MaxPages : Eligible(Page(l, n)) # {}}

\* fetch_floor walks the pages up to the first with an eligible rig.
Reach(l) == IF Hits(l) = {} THEN <<>> ELSE Page(l, Min(Hits(l)))

\* The cheapest seen, as a sample of this moment.
FetchFloor ==
    /\ feed = "mrr"
    /\ \E l \in Listings :
          /\ Eligible(Reach(l)) # {}
          /\ Push([t |-> now, price |-> Min(Eligible(Reach(l))), best |-> Min(Eligible(l))])

-----------------------------------------------------------------------------
\* The blocks of the chain.

\* real_blocks: without those of minimal difficulty, unless there are no others.
RealBlocks(w) ==
    LET real == SelectSeq(w, LAMBDA b : ~b.easy) IN IF real = <<>> THEN w ELSE real

\* fetch_window and compute_hashprice: the sample has the time of its last block.
\* Blocks that count are of one difficulty.
FetchWindow ==
    /\ feed = "esplora"
    /\ chain # <<>>
    /\ LET w == RealBlocks(SubSeq(chain, Max({1, Len(chain) - Window + 1}), Len(chain)))
           price == Average([i \in DOMAIN w |-> w[i].pays]) IN
       Push([t |-> Last(w).at, price |-> price, best |-> price])

\* Blocks are found, with times that are a little off.
Block ==
    /\ feed = "esplora"
    /\ Len(chain) < MaxBlocks
    /\ \E at \in Max({0, now - Skew})..now + Skew, easy \in BOOLEAN, pays \in Prices :
          chain' = Append(chain, [at |-> at, easy |-> easy, pays |-> pays])
    /\ UNCHANGED <<feed, fallback, now, samples, poller>>

-----------------------------------------------------------------------------
\* spawn_poller.

\* The next tick is a refresh after this one, or at once when that is over.
Tick ==
    /\ feed # "fixed"
    /\ started = None
    /\ due <= now
    /\ started' = now
    /\ due' = now + Every
    /\ UNCHANGED <<feed, fallback, now, samples, chain, failures>>

Fetched ==
    /\ started # None
    /\ FetchFloor \/ FetchWindow
    /\ started' = None
    /\ failures' = 0
    /\ UNCHANGED <<feed, fallback, now, chain, due>>

\* The request failed, or no rig was for rent.
FetchFails ==
    /\ started # None
    /\ started' = None
    /\ failures' = IF failures = None THEN None ELSE failures + 1
    /\ UNCHANGED <<feed, fallback, now, samples, chain, due>>

Clock ==
    /\ now < MaxNow
    /\ feed # "fixed" => IF started = None THEN now < due ELSE now < started + MaxFetch
    /\ now' = now + 1
    /\ UNCHANGED <<feed, fallback, samples, chain, poller>>

\* build_oracle: the MRR oracle is asked once before its poller starts.
Init ==
    /\ feed \in {"fixed", "mrr", "esplora"}
    /\ fallback \in Prices \cup {None}
    /\ feed = "fixed" => fallback # None
    /\ now = 0
    /\ samples = <<>>
    /\ due = 0
    /\ started = IF feed = "mrr" THEN 0 ELSE None
    /\ chain = <<>>
    /\ failures = None

Next == Tick \/ Fetched \/ FetchFails \/ Block \/ Clock

Spec == Init /\ [][Next]_vars

-----------------------------------------------------------------------------
\* Quotes.

\* SatsPerThhFromHashprice::price, then ControlledPricer::quote.
Bill(n, price) ==
    LET base == Max({1, CeilDiv(n * price, Scale)}) IN CeilDiv(base * (100 + Markup), 100)

-----------------------------------------------------------------------------

TypeOK ==
    /\ Len(samples) <= Capacity
    /\ \A i \in DOMAIN samples : samples[i].t \in 0..MaxNow + Skew
    /\ now \in 0..MaxNow /\ due \in Nat
    /\ started \in (0..MaxNow) \cup {None}
    /\ failures = None \/ failures \in Nat

\* Whatever order samples come in and whichever are dropped, a live price lies
\* between the newest sample that is past and the oldest that is not, and one of
\* the two is less than three refreshes old.
LivePriceIsFresh ==
    SampleAt(now) # None =>
        LET known == Range(samples)
            past == {s \in known : s.t <= now}
            ahead == {s \in known : s.t > now}
            near == {s \in past : \A o \in past : o.t <= s.t}
                        \cup {s \in ahead : \A o \in ahead : o.t >= s.t} IN
        /\ past # {}
        /\ \E s \in near : s.price <= SampleAt(now)
        /\ \E s \in near : s.price >= SampleAt(now)
        /\ \E s \in near : s.t + Stale >= now

\* mint.rs:300: a failed fetch does not stop quoting.  It holds of the rigs for
\* rent, when no fetch takes longer than a refresh.
OneFailureKeepsThePrice ==
    (feed = "mrr" /\ MaxFetch <= Every /\ failures \in {0, 1}) => Price(now) # None

\* A price of the market is the cheapest for rent, though few pages are read.
CheapestIsTaken == \A s \in Range(samples) : s.price = s.best

\* To buy in parts never costs less, and nothing is sold below its price.
PartsAreNotCheaper ==
    LET price == Price(now) IN
    price # None => \A n \in 1..MaxAmount :
        /\ Bill(n, price) * Scale * 100 >= n * price * (100 + Markup)
        /\ \A m \in 1..MaxAmount : Bill(n + m, price) <= Bill(n, price) + Bill(m, price)

\* What the mint asks for is what the market asks: the four together.
PriceIsTheMarkets ==
    /\ LivePriceIsFresh
    /\ OneFailureKeepsThePrice
    /\ CheapestIsTaken
    /\ PartsAreNotCheaper

=============================================================================
