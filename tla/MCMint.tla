------------------------------- MODULE MCMint -------------------------------
\* An instance of Parts for TLC, and as parts of the same kind those that stay
\* with TLC: the price, what the proxy shows of the shares, and the meter.
EXTENDS Parts, TLC

CONSTANTS a, b, x, y, z

Two == {a, b}
TwoMore == {x, y}
Three == {x, y, z}
OneThenTwo == (a :> 1) @@ (b :> 2)
TwoThenThree == (a :> 2) @@ (b :> 3)
ThreeThenTwo == (a :> 3) @@ (b :> 2)
MCMarkups == {0, 5}
MCRails == {"bolt11", "usdt"}
MCPrices == {"thh"}
MCLists == {{}, {[ths |-> 2, ends |-> 1]}}
MCLimits == {"auto", "off"}

Oracle == INSTANCE PriceOracle WITH
    Prices <- {3, 8}, Scale <- 5, Every <- 2, MaxFetch <- 2, Capacity <- 2,
    PageSize <- 1, MaxPages <- 2, Window <- 2, Skew <- 1, Markup <- 5,
    MaxAmount <- 3, MaxRigs <- 2, MaxBlocks <- 2, MaxNow <- 7,
    feed <- v1, fallback <- v2, now <- v3, samples <- v4, due <- v5,
    started <- v6, chain <- v7, failures <- v8

Meter == INSTANCE HashrateMeter WITH
    Ids <- Two, Target <- OneThenTwo, Conns <- TwoMore, Window <- 1,
    MAX_SAMPLES <- 2, MAX_REDEMPTION_POINTS <- 3, MaxTicks <- 2, MaxShares <- 3,
    MaxFaults <- 1,
    now <- v1, wound <- v2, work <- v3, crediting <- v4, ledger <- v5,
    sampler <- v6, samples <- v7, tracks <- v8, shares <- v9, faults <- v10, ticks <- v11

Control == INSTANCE ControlApi WITH
    Handlers <- Two, Evidence <- {z}, AllowOpen <- TRUE, MaxNow <- 1,
    MaxOpens <- 2, MaxLeaves <- 7,
    now <- v1, counter <- v2, known <- v3, trees <- v4, handler <- v5,
    opened <- v6, proof <- v7

Header == INSTANCE ShareEvidence WITH
    Words <- {<<0, 0, 0, 0>>, <<0, 0, 0, 1>>, <<0, 1, 1, 0>>},
    Strings <- {<<0>>, <<1>>}, Base <- 4, OneSize <- 6, MaxSize <- 8,
    MaxDifficulty <- 128,
    input <- v1

MCInit ==
    \/ Init
    \/ part = "oracle" /\ Oracle!Init /\ No9
    \/ part = "meter" /\ Meter!Init /\ v12 = Unused /\ No13
    \/ part = "control" /\ Control!Init /\ v8 = Unused /\ No9
    \/ /\ part = "evidence"
       /\ Header!Init
       /\ v2 = Unused /\ v3 = Unused /\ v4 = Unused /\ v5 = Unused /\ v6 = Unused
       /\ v7 = Unused /\ v8 = Unused /\ No9

MCNext ==
    \/ Next
    \/ /\ UNCHANGED part
       /\ \/ part = "oracle" /\ Oracle!Next /\ UNCHANGED from9
          \/ part = "meter" /\ Meter!Next /\ UNCHANGED <<v12, from13>>
          \/ part = "control" /\ Control!Next /\ UNCHANGED <<v8, from9>>
          \/ part = "evidence" /\ Header!Next
                /\ UNCHANGED <<v2, v3, v4, v5, v6, v7, v8, from9>>

MCSpec == MCInit /\ [][MCNext]_vars

-----------------------------------------------------------------------------

\* The types of all parts.
MCTypeOK ==
    /\ TypeOK
    /\ part = "oracle" => Oracle!TypeOK
    /\ part = "meter" => Meter!TypeOK
    /\ part = "control" => Control!TypeOK

\* PriceOracle: what the mint asks for is what the market asks.
PriceIsTheMarkets == part = "oracle" => Oracle!PriceIsTheMarkets


\* ControlApi: what a redeemer is told of ids, heads and proofs holds.
AnswersHold == part = "control" => Control!AnswersHold

\* ShareEvidence: a leaf holds what the pool judged by.
LeafIsWhatWasJudged == part = "evidence" => Header!LeafIsWhatWasJudged

=============================================================================
