-------------------------------- MODULE Parts --------------------------------
(***************************************************************************)
(* Parts of the system that share no state, side by side: the sales over   *)
(* Lightning and for USDT, the operator's settings, purchases and redeems  *)
(* at the checkout, the manifest, the start of the mint, its capacity, the *)
(* router and the test miner.  A behaviour is one of a single part: `part` *)
(* says of which, and v1 to v16 stand for its variables, as its instance   *)
(* says; those it does not need are Unused.  So one run checks them all,   *)
(* and a theorem about Spec is one about each part.                        *)
(***************************************************************************)
EXTENDS Integers, FiniteSets

CONSTANTS
    None, Unused,
    \* ThhSales
    Quotes, Thh, Sats, Fees, MaxDrops, MaxRestarts,
    \* TetherRail
    Amounts, Confirmations, MaxRange, MaxBlocks,
    \* OperatorSettings
    Controls, TestMints, Markups, TooHigh, FlagMarkup, MaxRequests, MaxQuotes, MaxKills,
    \* CheckoutBuy
    Buys, Polls, MaxFaults,
    \* CheckoutRedeem
    TokenProofs, ProofThh, Redeems, MinThh, MaxCuts,
    \* MintManifest
    Keysets, Relays, MaxNow, MaxRuns,
    \* MintStartup
    Seeds, Rails, Prices, Proofs, MaxStarts,
    \* ThhCapacity
    Sales, SaleThh, Lists, Limits, Counters, MaxHours, MaxChanges, MaxSwaps,
    \* PoolRouter
    Redemptions, Target, Conns, Miners, Unroutable, DeadPools,
    \* TestMiner
    Jobs, Diffs, MaxNonce, BatchSize, MaxExtra, Room, MaxMessages, MaxShares

VARIABLES part, v1, v2, v3, v4, v5, v6, v7, v8, v9, v10, v11, v12, v13, v14, v15, v16

\* What is left for parts with eight variables, nine, twelve or fifteen.
from16 == <<v16>>
from13 == <<v13, v14, v15, from16>>
from10 == <<v10, v11, v12, from13>>
from9 == <<v9, from10>>
vars == <<part, v1, v2, v3, v4, v5, v6, v7, v8, from9>>

Issuer == INSTANCE ThhSales WITH
    Price <- Sats,
    asked <- v1, paid <- v2, age <- v3, open <- v4, book <- v5, pass <- v6,
    socket <- v7, frames <- v8, tx <- v9, credited <- v10, drops <- v11,
    restarts <- v12

Tether == INSTANCE TetherRail WITH
    chain <- v1, told <- v2, age <- v3, open <- v4, paid <- v5, seen <- v6,
    next <- v7, answer <- v8, events <- v9, credited <- v10, restarts <- v11,
    since <- v12

Settings == INSTANCE OperatorSettings WITH
    paused <- v1, markup <- v2, saved <- v3, snap <- v4, wrote <- v5,
    req <- v6, up <- v7, asked <- v8, crossed <- v9, requests <- v10,
    quotes <- v11, kills <- v12

Buy == INSTANCE CheckoutBuy WITH
    quote <- v1, entry <- v2, token <- v3, day <- v4, poll <- v5, lock <- v6,
    told <- v7, hit <- v8, faults <- v9

Redeem == INSTANCE CheckoutRedeem WITH
    Proofs <- TokenProofs, Thh <- ProofThh, Requests <- Redeems,
    proof <- v1, holder <- v2, at <- v3, picked <- v4, quoted <- v5,
    wallet <- v6, melting <- v7, opened <- v8, returned <- v9, lost <- v10,
    cut <- v11, cuts <- v12

Manifest == INSTANCE MintManifest WITH
    active <- v1, now <- v2, disk <- v3, run <- v4, held <- v5, told <- v6,
    newest <- v7, cut <- v8, runs <- v9

Startup == INSTANCE MintStartup WITH
    step <- v1, config <- v2, file <- v3, seed <- v4, db <- v5,
    methods <- v6, signed <- v7, starts <- v8

Cap == INSTANCE ThhCapacity WITH
    Thh <- SaleThh,
    stage <- v1, rest <- v2, limit <- v3, manual <- v4, mrr <- v5,
    disk <- v6, owed <- v7, counted <- v8, count <- v9, moved <- v10,
    missed <- v11, phase <- v12, now <- v13, changes <- v14, faults <- v15, swaps <- v16

Router == INSTANCE PoolRouter WITH
    Ids <- Redemptions,
    book <- v1, pc <- v2, seen <- v3, route <- v4, via <- v5, kicked <- v6,
    held <- v7, bound <- v8, view <- v9

Miner == INSTANCE TestMiner WITH
    Batch <- BatchSize,
    pool <- v1, generation <- v2, snap <- v3, current <- v4, extra <- v5,
    base <- v6, at <- v7, pos <- v8, end <- v9, channel <- v10, sent <- v11,
    answered <- v12, open <- v13, tried <- v14, messages <- v15, shares <- v16

\* A quote sells some THH for some sats.
ASSUME SalesAssumption ==
    /\ \A q \in Quotes : Thh[q] \in Nat \ {0} /\ Sats[q] \in Nat \ {0}
    /\ Fees \subseteq Nat

\* A range has blocks, and no amount is taken for a block without a transfer.
ASSUME TransferAssumption ==
    /\ Confirmations \in Nat /\ MaxRange \in Nat \ {0}
    /\ Tether!NoTransfer \notin Amounts

\* No request is one to the controls and to the test mint.
ASSUME SettingsAssumption ==
    /\ Controls \cap TestMints = {}
    /\ None \notin [paused : BOOLEAN, markup : Markups \cup {FlagMarkup}]

\* Nothing is taken for None, and half a seed for none of the seeds.
ASSUME StartupAssumption ==
    /\ None \notin Seeds \cup {Startup!Half}
    /\ Startup!Half \notin Seeds
    /\ None \notin [seed : Seeds, info : SUBSET Rails, pubkey : Seeds]

\* The clock is a number.
ASSUME ManifestAssumption == MaxNow \in Nat /\ None \notin Int

\* A lock that is free is held by no poll.
ASSUME BuyAssumption == None \notin Polls

\* A token has proofs of some THH, finitely many.
ASSUME RedeemAssumption ==
    /\ IsFiniteSet(TokenProofs) /\ IsFiniteSet(Redeems)
    /\ \A p \in TokenProofs : ProofThh[p] \in Nat \ {0}

\* Finitely many sales, each of some THH.
ASSUME CapacityAssumption ==
    IsFiniteSet(Sales) /\ \A s \in Sales : SaleThh[s] \in Nat \ {0}

\* There are nonces, and a batch has some.
ASSUME MinerAssumption ==
    /\ MaxNonce \in Nat \ {0} /\ BatchSize \in Nat \ {0}
    /\ MaxExtra \in Nat /\ Room \in Nat

No16 == v16 = Unused
No13 == v13 = Unused /\ v14 = Unused /\ v15 = Unused /\ No16
No10 == v10 = Unused /\ v11 = Unused /\ v12 = Unused /\ No13
No9 == v9 = Unused /\ No10

Init ==
    \/ part = "lightning" /\ Issuer!Init /\ No13
    \/ part = "usdt" /\ Tether!Init /\ No13
    \/ part = "settings" /\ Settings!Init /\ No13
    \/ part = "buy" /\ Buy!Init /\ No10
    \/ part = "redeem" /\ Redeem!Init /\ No13
    \/ part = "manifest" /\ Manifest!Init /\ No10
    \/ part = "startup" /\ Startup!Init /\ No9
    \/ part = "capacity" /\ Cap!Init
    \/ part = "router" /\ Router!Init /\ No10
    \/ part = "miner" /\ Miner!Init

Next ==
    /\ UNCHANGED part
    /\ \/ part = "lightning" /\ Issuer!Next /\ UNCHANGED from13
       \/ part = "usdt" /\ Tether!Next /\ UNCHANGED from13
       \/ part = "settings" /\ Settings!Next /\ UNCHANGED from13
       \/ part = "buy" /\ Buy!Next /\ UNCHANGED from10
       \/ part = "redeem" /\ Redeem!Next /\ UNCHANGED from13
       \/ part = "manifest" /\ Manifest!Next /\ UNCHANGED from10
       \/ part = "startup" /\ Startup!Next /\ UNCHANGED from9
       \/ part = "capacity" /\ Cap!Next
       \/ part = "router" /\ Router!Next /\ UNCHANGED from10
       \/ part = "miner" /\ Miner!Next

Spec == Init /\ [][Next]_vars

-----------------------------------------------------------------------------

TypeOK ==
    /\ part = "lightning" => Issuer!TypeOK
    /\ part = "usdt" => Tether!TypeOK
    /\ part = "settings" => Settings!TypeOK
    /\ part = "buy" => Buy!TypeOK
    /\ part = "redeem" => Redeem!TypeOK
    /\ part = "manifest" => Manifest!TypeOK
    /\ part = "startup" => Startup!TypeOK
    /\ part = "capacity" => Cap!TypeOK
    /\ part = "router" => Router!TypeOK

\* ThhSales: a payment becomes a credit, once and in full.
PaymentsAreCredited == part = "lightning" => Issuer!PaymentsAreCredited

\* TetherRail: a quote is settled by its own transfer, and none is passed over.
TransfersSettleQuotes == part = "usdt" => Tether!TransfersSettleQuotes

\* TetherRail: a quote leaves the book paid, or no block just read pays it.
QuotesLeavePaid == [][part = "usdt" => Tether!LeavesPaid]_vars

\* OperatorSettings: what the operator has set stays in force and on disk.
SettingsLast == part = "settings" => Settings!SettingsLast

\* CheckoutBuy: a buyer who paid gets the token, and the mint is asked once.
PaidBuysAreIssued == part = "buy" => Buy!PaidBuysAreIssued

\* CheckoutRedeem: a redeem neither makes nor loses THH.
NoThhIsLost == part = "redeem" => Redeem!NoThhIsLost

\* MintManifest: a wallet that asks a relay finds every keyset it holds.
KeysetsStayListed == part = "manifest" => Manifest!KeysetsStayListed

\* MintStartup: start by start the mint is the same mint.
StartsAgree == part = "startup" => Startup!StartsAgree

\* ThhCapacity: a count misses or invents no more than what moved meanwhile.
CountOffByWhatMoved == part = "capacity" => Cap!CountOffByWhatMoved

\* ThhCapacity: after a start no quote is given under the limit uncounted.
NeverSellsBlind == [][part = "capacity" => Cap!SellsCounted]_vars

\* PoolRouter: work credits the redemption whose pool received it.
CreditFollowsThePool == part = "router" => Router!CreditFollowsThePool

\* TestMiner: no work is hashed twice between two changes of the pool's state.
HashedOnce == part = "miner" => Miner!TypeOK /\ Miner!HashedOnce

=============================================================================
