----------------------------- MODULE PartsProofs ------------------------------
(***************************************************************************)
(* What the proofs about single components say of the parts side by side,  *)
(* that is, of the very properties the run of Parts checks.  Each component *)
(* is there twice: as an instance of Parts, and as one of the module that  *)
(* holds its proof.  That the two are the same follows from what they are  *)
(* defined by; the rest is that a behaviour of Parts stays in its part.    *)
(* The router, the test miner and the USDT rail are proved about here.     *)
(***************************************************************************)
EXTENDS Parts, Sequences, Sums, TLAPS

Mint == INSTANCE MintProofs WITH
    step <- v1, config <- v2, file <- v3, seed <- v4, db <- v5,
    methods <- v6, signed <- v7, starts <- v8,
    active <- v1, now <- v2, disk <- v3, run <- v4, held <- v5, told <- v6,
    newest <- v7, cut <- v8, runs <- v9,
    paused <- v1, markup <- v2, saved <- v3, snap <- v4, wrote <- v5,
    req <- v6, up <- v7, asked <- v8, crossed <- v9, requests <- v10,
    quotes <- v11, kills <- v12,
    Price <- Sats, Requests <- Redeems,
    quote <- v1, entry <- v2, token <- v3, day <- v4, poll <- v5, lock <- v6,
    buyTold <- v7, hit <- v8, faults <- v9,
    proof <- v1, holder <- v2, at <- v3, picked <- v4, quoted <- v5,
    wallet <- v6, melting <- v7, opened <- v8, returned <- v9, lost <- v10,
    redeemCut <- v11, cuts <- v12,
    salesAsked <- v1, paid <- v2, age <- v3, open <- v4, book <- v5, pass <- v6,
    socket <- v7, frames <- v8, tx <- v9, credited <- v10, drops <- v11,
    restarts <- v12,
    stage <- v1, rest <- v2, limit <- v3, manual <- v4, mrr <- v5,
    capacityDisk <- v6, owed <- v7, counted <- v8, count <- v9, moved <- v10,
    missed <- v11, phase <- v12, capacityNow <- v13, changes <- v14,
    swaps <- v16, capacityFaults <- v15

-----------------------------------------------------------------------------
\* Sales over Lightning.

\* Both instances of ThhSales describe the same steps and promise the same.
LEMMA IssuerSame ==
    /\ Issuer!Init <=> Mint!Issuer!Init
    /\ Issuer!Next <=> Mint!Issuer!Next
    /\ Issuer!PaymentsAreCredited <=> Mint!Issuer!PaymentsAreCredited
<1>1. Issuer!Init <=> Mint!Issuer!Init
  BY DEF Issuer!Init, Issuer!Tasks, Issuer!NoPass, Mint!Issuer!Init,
     Mint!Issuer!Tasks, Mint!Issuer!NoPass
<1>2. Issuer!Next <=> Mint!Issuer!Next
  BY DEF Issuer!Next, Issuer!CreateInvoice, Issuer!BookSale, Issuer!Pay, Issuer!Age,
     Issuer!Check, Issuer!Tasks, Issuer!Ask, Issuer!AskFails, Issuer!BeginPass,
     Issuer!EndPass, Issuer!SettlePush, Issuer!Drop, Issuer!Deliver, Issuer!Restart,
     Issuer!node, Issuer!bounds, Issuer!BookKept, Issuer!rail, Issuer!Frame,
     Issuer!Record, Issuer!Settled, Issuer!Asked, Issuer!NoPass, Issuer!Pushed,
     Issuer!ThhFor, Mint!Issuer!Next, Mint!Issuer!CreateInvoice,
     Mint!Issuer!BookSale, Mint!Issuer!Pay, Mint!Issuer!Age, Mint!Issuer!Check,
     Mint!Issuer!Tasks, Mint!Issuer!Ask, Mint!Issuer!AskFails,
     Mint!Issuer!BeginPass, Mint!Issuer!EndPass, Mint!Issuer!SettlePush,
     Mint!Issuer!Drop, Mint!Issuer!Deliver, Mint!Issuer!Restart, Mint!Issuer!node,
     Mint!Issuer!bounds, Mint!Issuer!BookKept, Mint!Issuer!rail, Mint!Issuer!Frame,
     Mint!Issuer!Record, Mint!Issuer!Settled, Mint!Issuer!Asked, Mint!Issuer!NoPass,
     Mint!Issuer!Pushed, Mint!Issuer!ThhFor
<1>3. Issuer!PaymentsAreCredited <=> Mint!Issuer!PaymentsAreCredited
  BY DEF Issuer!PaymentsAreCredited, Issuer!CreditedInFull, Issuer!RailWithinBook,
     Issuer!PaidIsNotLost, Issuer!Tasks, Mint!Issuer!PaymentsAreCredited,
     Mint!Issuer!CreditedInFull, Mint!Issuer!RailWithinBook,
     Mint!Issuer!PaidIsNotLost, Mint!Issuer!Tasks
<1> QED
  BY <1>1, <1>2, <1>3

\* A payment becomes a credit, once and in full, by whichever of the three ways it
\* is found, whatever is dropped, fails or is killed.
THEOREM PaymentsAreCreditedHolds == Spec => []PaymentsAreCredited
<1> DEFINE Here == part = "lightning"
<1>1. Init /\ Here => Mint!Issuer!Init
  BY IssuerSame DEF Init
<1>2. Here /\ [Next]_vars => Here' /\ [Mint!Issuer!Next]_(Mint!Issuer!vars)
  BY IssuerSame DEF Next, vars, from16, from13, from10, from9, Mint!Issuer!vars,
     Mint!Issuer!node, Mint!Issuer!rail, Mint!Issuer!bounds
<1>3. ~Here /\ [Next]_vars => ~Here'
  BY DEF Next, vars
<1>4. Mint!Issuer!Spec => []Mint!Issuer!PaymentsAreCredited
  BY Mint!PaymentsAreCreditedHolds, SalesAssumption DEF Mint!SalesAreSales
<1>5. PaymentsAreCredited <=> (Here => Mint!Issuer!PaymentsAreCredited)
  BY IssuerSame DEF PaymentsAreCredited
<1> HIDE DEF Here
<1> QED
  BY <1>1, <1>2, <1>3, <1>4, <1>5, PTL DEF Spec, Mint!Issuer!Spec

-----------------------------------------------------------------------------
\* The operator's settings.

\* Both instances of OperatorSettings describe the same steps and promise the same.
LEMMA SettingsSame ==
    /\ Settings!Init <=> Mint!Settings!Init
    /\ Settings!Next <=> Mint!Settings!Next
    /\ Settings!SettingsLast <=> Mint!Settings!SettingsLast
<1>1. Settings!Init <=> Mint!Settings!Init
  BY DEF Settings!Init, Settings!Requests, Settings!LoadedPause, Settings!LoadedMarkup,
     Settings!Accepted, Mint!Settings!Init, Mint!Settings!Requests,
     Mint!Settings!LoadedPause, Mint!Settings!LoadedMarkup, Mint!Settings!Accepted
<1>2. Settings!Next <=> Mint!Settings!Next
  BY DEF Settings!Next, Settings!Requests, Settings!Arrive, Settings!Store,
     Settings!Refuse, Settings!BeginSave, Settings!EndSave, Settings!TestQuote,
     Settings!PayTestQuote, Settings!Abandon, Settings!PublicQuote, Settings!Kill,
     Settings!Start, Settings!Runs, Settings!Bodies, Settings!Rehearsal,
     Settings!settings, Settings!file, Settings!history, Settings!Sets, Settings!Next1,
     Settings!Accepted, Settings!Restores, Settings!Save, Settings!bounds,
     Settings!MayRead, Settings!Quote, Settings!MayQuote, Settings!Pay,
     Settings!Unsaved, Settings!LoadedPause, Settings!LoadedMarkup, Settings!Set,
     Mint!Settings!Next, Mint!Settings!Requests, Mint!Settings!Arrive,
     Mint!Settings!Store, Mint!Settings!Refuse, Mint!Settings!BeginSave,
     Mint!Settings!EndSave, Mint!Settings!TestQuote, Mint!Settings!PayTestQuote,
     Mint!Settings!Abandon, Mint!Settings!PublicQuote, Mint!Settings!Kill,
     Mint!Settings!Start, Mint!Settings!Runs, Mint!Settings!Bodies,
     Mint!Settings!Rehearsal, Mint!Settings!settings, Mint!Settings!file,
     Mint!Settings!history, Mint!Settings!Sets, Mint!Settings!Next1,
     Mint!Settings!Accepted, Mint!Settings!Restores, Mint!Settings!Save,
     Mint!Settings!bounds, Mint!Settings!MayRead, Mint!Settings!Quote,
     Mint!Settings!MayQuote, Mint!Settings!Pay, Mint!Settings!Unsaved,
     Mint!Settings!LoadedPause, Mint!Settings!LoadedMarkup, Mint!Settings!Set
<1>3. Settings!SettingsLast <=> Mint!Settings!SettingsLast
  BY DEF Settings!SettingsLast, Settings!SettledIsSaved, Settings!PauseComesBack,
     Settings!Requests, Settings!Runs, Mint!Settings!SettingsLast,
     Mint!Settings!SettledIsSaved, Mint!Settings!PauseComesBack,
     Mint!Settings!Requests, Mint!Settings!Runs
<1> QED
  BY <1>1, <1>2, <1>3

\* What the operator has set stays in force and on disk, however requests and test
\* mints overlap and whenever the process is killed.
THEOREM SettingsLastHolds == Spec => []SettingsLast
<1> DEFINE Here == part = "settings"
<1>1. Init /\ Here => Mint!Settings!Init
  BY SettingsSame DEF Init
<1>2. Here /\ [Next]_vars => Here' /\ [Mint!Settings!Next]_(Mint!Settings!vars)
  BY SettingsSame DEF Next, vars, from16, from13, from10, from9, Mint!Settings!vars,
     Mint!Settings!settings, Mint!Settings!file, Mint!Settings!history,
     Mint!Settings!bounds
<1>3. ~Here /\ [Next]_vars => ~Here'
  BY DEF Next, vars
<1>4. Mint!Settings!Spec => []Mint!Settings!SettingsLast
  BY Mint!SettingsLastHolds, SettingsAssumption DEF Mint!RequestsAreOne
<1>5. SettingsLast <=> (Here => Mint!Settings!SettingsLast)
  BY SettingsSame DEF SettingsLast
<1> HIDE DEF Here
<1> QED
  BY <1>1, <1>2, <1>3, <1>4, <1>5, PTL DEF Spec, Mint!Settings!Spec

-----------------------------------------------------------------------------
\* The start of the mint.

\* Both instances of MintStartup describe the same steps and promise the same.
LEMMA StartupSame ==
    /\ Startup!Init <=> Mint!Startup!Init
    /\ Startup!Next <=> Mint!Startup!Next
    /\ Startup!StartsAgree <=> Mint!Startup!StartsAgree
<1>1. Startup!Init <=> Mint!Startup!Init
  BY DEF Startup!Init, Mint!Startup!Init
<1>2. Startup!Next <=> Mint!Startup!Next
  BY DEF Startup!Next, Startup!Begin, Startup!OpenJournals, Startup!LoadSeed,
     Startup!CreateSeed, Startup!OpenDatabase, Startup!AddRails, Startup!Build,
     Startup!RefreshInfo, Startup!Serve, Startup!Stop, Startup!RemoveHalf, Startup!Sign,
     Startup!Go, Startup!MakesSeed, Startup!Half, Startup!Fail, Startup!Priced,
     Startup!Refreshed, Mint!Startup!Next, Mint!Startup!Begin,
     Mint!Startup!OpenJournals, Mint!Startup!LoadSeed, Mint!Startup!CreateSeed,
     Mint!Startup!OpenDatabase, Mint!Startup!AddRails, Mint!Startup!Build,
     Mint!Startup!RefreshInfo, Mint!Startup!Serve, Mint!Startup!Stop,
     Mint!Startup!RemoveHalf, Mint!Startup!Sign, Mint!Startup!Go,
     Mint!Startup!MakesSeed, Mint!Startup!Half, Mint!Startup!Fail,
     Mint!Startup!Priced, Mint!Startup!Refreshed
<1>3. Startup!StartsAgree <=> Mint!Startup!StartsAgree
  BY DEF Startup!StartsAgree, Startup!OneSeedForEver, Startup!InfoIsThisStarts,
     Mint!Startup!StartsAgree, Mint!Startup!OneSeedForEver,
     Mint!Startup!InfoIsThisStarts
<1> QED
  BY <1>1, <1>2, <1>3

\* Start by start the mint is the same mint: one seed under all its keysets and
\* proofs, and the info of the start that serves, whatever fails or is killed.
THEOREM StartsAgreeHolds == Spec => []StartsAgree
<1> DEFINE Here == part = "startup"
<1>1. Init /\ Here => Mint!Startup!Init
  BY StartupSame DEF Init
<1>2. Here /\ [Next]_vars => Here' /\ [Mint!Startup!Next]_(Mint!Startup!vars)
  BY StartupSame DEF Next, vars, from16, from13, from10, from9, Mint!Startup!vars
<1>3. ~Here /\ [Next]_vars => ~Here'
  BY DEF Next, vars
<1>4. Mint!Startup!Spec => []Mint!Startup!StartsAgree
  BY Mint!StartsAgreeHolds, StartupAssumption DEF Mint!SeedsAreWhole, Startup!Half, Mint!Startup!Half
<1>5. StartsAgree <=> (Here => Mint!Startup!StartsAgree)
  BY StartupSame DEF StartsAgree
<1> HIDE DEF Here
<1> QED
  BY <1>1, <1>2, <1>3, <1>4, <1>5, PTL DEF Spec, Mint!Startup!Spec

-----------------------------------------------------------------------------
\* The manifest.

\* Both instances of MintManifest describe the same steps and promise the same.
LEMMA ManifestSame ==
    /\ Manifest!Init <=> Mint!Manifest!Init
    /\ Manifest!Next <=> Mint!Manifest!Next
    /\ Manifest!KeysetsStayListed <=> Mint!Manifest!KeysetsStayListed
<1>1. Manifest!Init <=> Mint!Manifest!Init
  BY DEF Manifest!Range, Manifest!Last, Manifest!Init, Manifest!NoRun, Manifest!NoEvent,
     Mint!Manifest!Range, Mint!Manifest!Last, Mint!Manifest!Init,
     Mint!Manifest!NoRun, Mint!Manifest!NoEvent
<1>2. Manifest!Next <=> Mint!Manifest!Next
  BY DEF Manifest!Range, Manifest!Last, Manifest!Next, Manifest!Start, Manifest!Publish,
     Manifest!Save, Manifest!Die, Manifest!Clock, Manifest!Rotate, Manifest!NoRun,
     Manifest!Recorded, Manifest!CreatedAt, Manifest!EventOf, Manifest!Keeps,
     Manifest!Ids, Mint!Manifest!Range, Mint!Manifest!Last, Mint!Manifest!Next,
     Mint!Manifest!Start, Mint!Manifest!Publish, Mint!Manifest!Save,
     Mint!Manifest!Die, Mint!Manifest!Clock, Mint!Manifest!Rotate,
     Mint!Manifest!NoRun, Mint!Manifest!Recorded, Mint!Manifest!CreatedAt,
     Mint!Manifest!EventOf, Mint!Manifest!Keeps, Mint!Manifest!Ids
<1>3. Manifest!KeysetsStayListed <=> Mint!Manifest!KeysetsStayListed
  BY DEF Manifest!Range, Manifest!Last, Manifest!KeysetsStayListed,
     Manifest!PublishedStaysListed, Manifest!ReachedKeepNewest, Manifest!Ids,
     Mint!Manifest!Range, Mint!Manifest!Last, Mint!Manifest!KeysetsStayListed,
     Mint!Manifest!PublishedStaysListed, Mint!Manifest!ReachedKeepNewest,
     Mint!Manifest!Ids
<1> QED
  BY <1>1, <1>2, <1>3

\* A keyset once published stays listed on every relay that was reached, run
\* after run, whichever relays answer and wherever the clock goes.
THEOREM KeysetsStayListedHolds == Spec => []KeysetsStayListed
<1> DEFINE Here == part = "manifest"
<1>1. Init /\ Here => Mint!Manifest!Init
  BY ManifestSame DEF Init
<1>2. Here /\ [Next]_vars => Here' /\ [Mint!Manifest!Next]_(Mint!Manifest!vars)
  BY ManifestSame DEF Next, vars, from16, from13, from10, from9, Mint!Manifest!vars
<1>3. ~Here /\ [Next]_vars => ~Here'
  BY DEF Next, vars
<1>4. Mint!Manifest!Spec => []Mint!Manifest!KeysetsStayListed
  BY Mint!KeysetsStayListedHolds, ManifestAssumption DEF Mint!TimeIsTime
<1>5. KeysetsStayListed <=> (Here => Mint!Manifest!KeysetsStayListed)
  BY ManifestSame DEF KeysetsStayListed
<1> HIDE DEF Here
<1> QED
  BY <1>1, <1>2, <1>3, <1>4, <1>5, PTL DEF Spec, Mint!Manifest!Spec

-----------------------------------------------------------------------------
\* Purchases.

\* Both instances of CheckoutBuy describe the same steps and promise the same.
LEMMA BuySame ==
    /\ Buy!Init <=> Mint!Buy!Init
    /\ Buy!Next <=> Mint!Buy!Next
    /\ Buy!PaidBuysAreIssued <=> Mint!Buy!PaidBuysAreIssued
<1>1. Buy!Init <=> Mint!Buy!Init
  BY DEF Buy!Init, Buy!Idle, Mint!Buy!Init, Mint!Buy!Idle
<1>2. Buy!Next <=> Mint!Buy!Next
  BY DEF Buy!Next, Buy!RequestQuote, Buy!Insert, Buy!Pay, Buy!DayPasses, Buy!Arrive,
     Buy!Lock, Buy!CheckQuote, Buy!Mint, Buy!MintRefused, Buy!Answer, Buy!MintedInVain,
     Buy!Abandon, Buy!Kill, Buy!Forgotten, Buy!At, Buy!Of, Buy!AfterLock, Buy!Leave,
     Buy!Idle, Mint!Buy!Next, Mint!Buy!RequestQuote, Mint!Buy!Insert, Mint!Buy!Pay,
     Mint!Buy!DayPasses, Mint!Buy!Arrive, Mint!Buy!Lock, Mint!Buy!CheckQuote,
     Mint!Buy!Mint, Mint!Buy!MintRefused, Mint!Buy!Answer, Mint!Buy!MintedInVain,
     Mint!Buy!Abandon, Mint!Buy!Kill, Mint!Buy!Forgotten, Mint!Buy!At, Mint!Buy!Of,
     Mint!Buy!AfterLock, Mint!Buy!Leave, Mint!Buy!Idle
<1>3. Buy!PaidBuysAreIssued <=> Mint!Buy!PaidBuysAreIssued
  BY DEF Buy!PaidBuysAreIssued, Buy!PaidIsWithinReach, Buy!TokenIsMintedOnce, Buy!At,
     Buy!Of, Mint!Buy!PaidBuysAreIssued, Mint!Buy!PaidIsWithinReach,
     Mint!Buy!TokenIsMintedOnce, Mint!Buy!At, Mint!Buy!Of
<1> QED
  BY <1>1, <1>2, <1>3

\* A buyer who paid gets the token, and the mint is asked for it once, however
\* polls overlap and whatever is killed, lost or given up.
THEOREM PaidBuysAreIssuedHolds == Spec => []PaidBuysAreIssued
<1> DEFINE Here == part = "buy"
<1>1. Init /\ Here => Mint!Buy!Init
  BY BuySame DEF Init
<1>2. Here /\ [Next]_vars => Here' /\ [Mint!Buy!Next]_(Mint!Buy!vars)
  BY BuySame DEF Next, vars, from16, from13, from10, from9, Mint!Buy!vars
<1>3. ~Here /\ [Next]_vars => ~Here'
  BY DEF Next, vars
<1>4. Mint!Buy!Spec => []Mint!Buy!PaidBuysAreIssued
  BY Mint!PaidBuysAreIssuedHolds, BuyAssumption DEF Mint!NoneIsNoPoll
<1>5. PaidBuysAreIssued <=> (Here => Mint!Buy!PaidBuysAreIssued)
  BY BuySame DEF PaidBuysAreIssued
<1> HIDE DEF Here
<1> QED
  BY <1>1, <1>2, <1>3, <1>4, <1>5, PTL DEF Spec, Mint!Buy!Spec

-----------------------------------------------------------------------------
\* Redeems.

\* Both instances of CheckoutRedeem describe the same steps and promise the same.
LEMMA RedeemSame ==
    /\ Redeem!Init <=> Mint!Redeem!Init
    /\ Redeem!Next <=> Mint!Redeem!Next
    /\ Redeem!NoThhIsLost <=> Mint!Redeem!NoThhIsLost
<1>1. Redeem!Init <=> Mint!Redeem!Init
  BY DEF Redeem!MapThenSumSet, Redeem!MapThenFoldSet, Redeem!Init,
     Mint!Redeem!MapThenSumSet, Mint!Redeem!MapThenFoldSet, Mint!Redeem!Init
<1>2. Redeem!Next <=> Mint!Redeem!Next
  BY DEF Redeem!MapThenSumSet, Redeem!MapThenFoldSet, Redeem!Next, Redeem!Claim,
     Redeem!EndClaim, Redeem!Arrive, Redeem!Inspect, Redeem!Quote, Redeem!Receive,
     Redeem!Melt, Redeem!MeltRefused, Redeem!Redeem, Redeem!Answer, Redeem!AnswerLost,
     Redeem!Refund, Redeem!Cut, Redeem!Unspent, Redeem!Worth, Redeem!request,
     Redeem!money, Redeem!Go, Redeem!token, Redeem!AfterRefusal, Redeem!Spendable,
     Mint!Redeem!MapThenSumSet, Mint!Redeem!MapThenFoldSet, Mint!Redeem!Next,
     Mint!Redeem!Claim, Mint!Redeem!EndClaim, Mint!Redeem!Arrive,
     Mint!Redeem!Inspect, Mint!Redeem!Quote, Mint!Redeem!Receive, Mint!Redeem!Melt,
     Mint!Redeem!MeltRefused, Mint!Redeem!Redeem, Mint!Redeem!Answer,
     Mint!Redeem!AnswerLost, Mint!Redeem!Refund, Mint!Redeem!Cut,
     Mint!Redeem!Unspent, Mint!Redeem!Worth, Mint!Redeem!request, Mint!Redeem!money,
     Mint!Redeem!Go, Mint!Redeem!token, Mint!Redeem!AfterRefusal,
     Mint!Redeem!Spendable
<1>3. Redeem!NoThhIsLost <=> Mint!Redeem!NoThhIsLost
  BY DEF Redeem!MapThenSumSet, Redeem!MapThenFoldSet, Redeem!NoThhIsLost,
     Redeem!EveryThhInOnePlace, Redeem!NothingStranded, Redeem!Worth, Redeem!All,
     Mint!Redeem!MapThenSumSet, Mint!Redeem!MapThenFoldSet, Mint!Redeem!NoThhIsLost,
     Mint!Redeem!EveryThhInOnePlace, Mint!Redeem!NothingStranded, Mint!Redeem!Worth,
     Mint!Redeem!All
<1> QED
  BY <1>1, <1>2, <1>3

\* A redeem neither makes nor loses THH: all of the token is in one place at a time,
\* whoever else spends it, and whatever is refused, cut off or killed.
THEOREM NoThhIsLostHolds == Spec => []NoThhIsLost
<1> DEFINE Here == part = "redeem"
<1>1. Init /\ Here => Mint!Redeem!Init
  BY RedeemSame DEF Init
<1>2. Here /\ [Next]_vars => Here' /\ [Mint!Redeem!Next]_(Mint!Redeem!vars)
  BY RedeemSame DEF Next, vars, from16, from13, from10, from9, Mint!Redeem!vars,
     Mint!Redeem!token, Mint!Redeem!request, Mint!Redeem!money
<1>3. ~Here /\ [Next]_vars => ~Here'
  BY DEF Next, vars
<1>4. Mint!Redeem!Spec => []Mint!Redeem!NoThhIsLost
  BY Mint!NoThhIsLostHolds, RedeemAssumption DEF IsFiniteSet, Mint!IsFiniteSet, Mint!TokensAreFinite
<1>5. NoThhIsLost <=> (Here => Mint!Redeem!NoThhIsLost)
  BY RedeemSame DEF NoThhIsLost
<1> HIDE DEF Here
<1> QED
  BY <1>1, <1>2, <1>3, <1>4, <1>5, PTL DEF Spec, Mint!Redeem!Spec

-----------------------------------------------------------------------------
\* The capacity.

\* Both instances of ThhCapacity describe the same steps and promise the same.
LEMMA CapacitySame ==
    /\ Cap!Init <=> Mint!Cap!Init
    /\ Cap!Next <=> Mint!Cap!Next
    /\ Cap!SellsCounted <=> Mint!Cap!SellsCounted
    /\ Cap!CountOffByWhatMoved <=> Mint!Cap!CountOffByWhatMoved
<1>1. Cap!Init <=> Mint!Cap!Init
  BY DEF Cap!MapThenSumSet, Cap!MapThenFoldSet, Cap!Init, Cap!NoCount,
     Mint!Cap!MapThenSumSet, Mint!Cap!MapThenFoldSet, Mint!Cap!Init,
     Mint!Cap!NoCount
<1>2. Cap!Next <=> Mint!Cap!Next
  BY DEF Cap!MapThenSumSet, Cap!MapThenFoldSet, Cap!Next, Cap!Counting, Cap!CountFails,
     Cap!GrantQuote, Cap!Pay, Cap!Issue, Cap!Swap, Cap!Melt, Cap!OpenRedemption, Cap!Deliver,
     Cap!Settle, Cap!SetManual, Cap!SetLimit, Cap!SetMrr, Cap!Hour, Cap!Kill, Cap!Start,
     Cap!Read, Cap!EndCount, Cap!NoCount, Cap!Served, Cap!sales, Cap!book,
     Cap!Available, Cap!Move, Cap!Change, Cap!counting, Cap!bounds, Cap!StartsWith,
     Cap!Tally, Cap!Minus, Cap!Capacity, Cap!Sum, Cap!AtStage, Cap!OpenRest, Cap!Left,
     Mint!Cap!MapThenSumSet, Mint!Cap!MapThenFoldSet, Mint!Cap!Next,
     Mint!Cap!Counting, Mint!Cap!CountFails, Mint!Cap!GrantQuote, Mint!Cap!Pay,
     Mint!Cap!Issue, Mint!Cap!Swap, Mint!Cap!Melt, Mint!Cap!OpenRedemption, Mint!Cap!Deliver,
     Mint!Cap!Settle, Mint!Cap!SetManual, Mint!Cap!SetLimit, Mint!Cap!SetMrr,
     Mint!Cap!Hour, Mint!Cap!Kill, Mint!Cap!Start, Mint!Cap!Read,
     Mint!Cap!EndCount, Mint!Cap!NoCount, Mint!Cap!Served, Mint!Cap!sales,
     Mint!Cap!book, Mint!Cap!Available, Mint!Cap!Move, Mint!Cap!Change,
     Mint!Cap!counting, Mint!Cap!bounds, Mint!Cap!StartsWith, Mint!Cap!Tally,
     Mint!Cap!Minus, Mint!Cap!Capacity, Mint!Cap!Sum, Mint!Cap!AtStage,
     Mint!Cap!OpenRest, Mint!Cap!Left
<1>3. Cap!SellsCounted <=> Mint!Cap!SellsCounted
  BY DEF Cap!MapThenSumSet, Cap!MapThenFoldSet, Cap!SellsCounted,
     Mint!Cap!MapThenSumSet, Mint!Cap!MapThenFoldSet, Mint!Cap!SellsCounted
<1>4. Cap!CountOffByWhatMoved <=> Mint!Cap!CountOffByWhatMoved
  BY DEF Cap!MapThenSumSet, Cap!MapThenFoldSet, Cap!CountOffByWhatMoved, Cap!Sum,
     Cap!Owed, Cap!AtStage, Cap!OpenRest, Mint!Cap!MapThenSumSet,
     Mint!Cap!MapThenFoldSet, Mint!Cap!CountOffByWhatMoved, Mint!Cap!Sum,
     Mint!Cap!Owed, Mint!Cap!AtStage, Mint!Cap!OpenRest
<1> QED
  BY <1>1, <1>2, <1>3, <1>4

\* After a start no quote is given under the limit before what is owed was
\* counted, unless that count failed.
THEOREM NeverSellsBlindHolds == Spec => NeverSellsBlind
<1> DEFINE Here == part = "capacity"
           Inv == Here => Mint!ServesCounted
<1>1. Init => Inv
  BY CapacitySame, Mint!InitCounted DEF Init
<1>2. Here /\ [Next]_vars => [Mint!Cap!Next]_(Mint!Cap!vars)
  BY CapacitySame DEF Next, vars, from16, from13, from10, from9, Mint!Cap!vars,
     Mint!Cap!sales, Mint!Cap!book, Mint!Cap!counting, Mint!Cap!bounds
<1>3. [Next]_vars => (Here' <=> Here)
  BY DEF Next, vars
<1>4. Inv /\ [Next]_vars => Inv'
  BY <1>2, <1>3, Mint!StepCounted
<1>5. Inv /\ [Next]_vars => (Here => Cap!SellsCounted)
  BY <1>2, CapacitySame, Mint!StepSellsCounted
<1> QED
  BY <1>1, <1>4, <1>5, PTL DEF Spec, NeverSellsBlind

\* A count misses or invents no more than what moved while it read: the reads are
\* one by one, and sales go on between them.
THEOREM CountOffByWhatMovedHolds == Spec => []CountOffByWhatMoved
<1> DEFINE Here == part = "capacity"
           Inv == Here => Mint!CapInv
<1>1. Mint!SalesAreFinite
  BY CapacityAssumption DEF IsFiniteSet, Mint!IsFiniteSet, Mint!SalesAreFinite
<1>2. Init => Inv
  BY <1>1, CapacitySame, Mint!InitCapInv DEF Init
<1>3. Inv /\ [Next]_vars => Inv'
  <2>1. Here /\ [Next]_vars => [Mint!Cap!Next]_(Mint!Cap!vars)
    BY CapacitySame DEF Next, vars, from16, from13, from10, from9, Mint!Cap!vars,
       Mint!Cap!sales, Mint!Cap!book, Mint!Cap!counting, Mint!Cap!bounds
  <2>2. [Next]_vars => (Here' <=> Here)
    BY DEF Next, vars
  <2> QED
    BY <1>1, <2>1, <2>2, Mint!StepCapInv
<1>4. Inv => CountOffByWhatMoved
  BY <1>1, CapacitySame, Mint!CapInvSays DEF CountOffByWhatMoved
<1> QED
  BY <1>2, <1>3, <1>4, PTL DEF Spec

-----------------------------------------------------------------------------
\* The router.

\* The columns of the connections' table, as PoolRouter names them.
pc == v2
route == v4
via == v5
bound == v8

USE DEF pc, route, via, bound

\* The table has a row for each connection, whatever is in it.
Rows ==
    /\ DOMAIN pc = Conns
    /\ DOMAIN route = Conns /\ DOMAIN via = Conns
    /\ DOMAIN bound = Conns

\* A connection is routed where its relay goes from its assignment on, not only
\* once it relays, and has no share in flight before it relays or after.
Follows(c) ==
    /\ pc[c] \in {"dialing", "relaying"} => route[c] = via[c]
    /\ pc[c] = "relaying" => bound[c] \in {Router!NoShare, via[c]}
    /\ pc[c] # "relaying" => bound[c] = Router!NoShare

RouterInv == Rows /\ \A c \in Conns : Follows(c)

\* No connection is there at the start.
LEMMA InitFollows == Router!Init => RouterInv
  BY DEF Router!Init, RouterInv, Rows, Follows

\* The steps of a connection's task, each on its own row of the table.
LEMMA TaskFollows ==
    ASSUME RouterInv, NEW c \in Conns,
           \/ Router!Connect(c) \/ Router!Assign(c)
           \/ Router!DialSucceeds(c) \/ Router!FallBack(c) \/ Router!DialFails(c)
           \/ Router!Submit(c) \/ Router!Accepted(c)
           \/ Router!CloseKicked(c) \/ Router!Disconnect(c) \/ Router!Release(c)
           \/ Router!HoldExpires(c)
    PROVE  RouterInv'
<1> USE DEF RouterInv, Rows, Follows
<1>1. CASE Router!Connect(c)
  BY <1>1 DEF Router!Connect
<1>2. CASE Router!Assign(c)
  BY <1>2 DEF Router!Assign
<1>3. CASE Router!DialSucceeds(c)
  BY <1>3 DEF Router!DialSucceeds
<1>4. CASE Router!FallBack(c)
  BY <1>4 DEF Router!FallBack
<1>5. CASE Router!DialFails(c)
  BY <1>5 DEF Router!DialFails
<1>6. CASE Router!Submit(c)
  BY <1>6 DEF Router!Submit
<1>7. CASE Router!Accepted(c)
  BY <1>7 DEF Router!Accepted
<1>8. CASE Router!CloseKicked(c) \/ Router!Disconnect(c)
  BY <1>8 DEF Router!CloseKicked, Router!Disconnect, Router!Close
<1>9. CASE Router!Release(c)
  BY <1>9 DEF Router!Release
<1>10. CASE Router!HoldExpires(c)
  BY <1>10 DEF Router!HoldExpires
<1> QED
  BY <1>1, <1>2, <1>3, <1>4, <1>5, <1>6, <1>7, <1>8, <1>9, <1>10

\* The ledger and the reconciler leave routes, relays and shares alone.
LEMMA StepFollows == RouterInv /\ [Router!Next]_(Router!vars) => RouterInv'
<1> SUFFICES ASSUME RouterInv, [Router!Next]_(Router!vars)
             PROVE  RouterInv'
  OBVIOUS
<1>1. CASE UNCHANGED Router!vars
  BY <1>1 DEF Router!vars, Router!conn, RouterInv, Rows, Follows
<1>2. CASE \E id \in Redemptions : Router!Open(id)
  BY <1>2 DEF Router!Open, Router!conn, RouterInv, Rows, Follows
<1>3. CASE Router!ReconcileReads
  BY <1>3 DEF Router!ReconcileReads, Router!conn, RouterInv, Rows, Follows
<1>4. CASE Router!ReconcileKicks
  BY <1>4 DEF Router!ReconcileKicks, RouterInv, Rows, Follows
<1> QED
  BY <1>1, <1>2, <1>3, <1>4, TaskFollows DEF Router!Next

\* Work credits the redemption whose pool received it, in every interleaving of
\* connections, reconciler and ledger.
THEOREM CreditFollowsThePoolHolds == Spec => []CreditFollowsThePool
<1> DEFINE Here == part = "router"
           Inv == Here => RouterInv
<1>1. Init => Inv
  BY InitFollows DEF Init
<1>2. Inv /\ [Next]_vars => Inv'
  <2>1. Here /\ [Next]_vars => [Router!Next]_(Router!vars)
    BY DEF Next, vars, from16, from13, from10, from9, Router!vars, Router!conn
  <2>2. [Next]_vars => (Here' <=> Here)
    BY DEF Next, vars
  <2> QED
    BY <2>1, <2>2, StepFollows
<1>3. Inv => CreditFollowsThePool
  BY DEF RouterInv, Follows, CreditFollowsThePool, Router!CreditFollowsThePool
<1> QED
  BY <1>1, <1>2, <1>3, PTL DEF Spec

-----------------------------------------------------------------------------
\* The test miner.

\* What the thread looks at, its own numbers and what it has tried, as TestMiner
\* names them.
pool == v1
snap == v3
extra == v5
base == v6
at == v7
pos == v8
end == v9
channel == v10
open == v13
tried == v14

USE DEF pool, snap, extra, base, at, pos, end, channel, open, tried

States == [extranonce1 : Nat, difficulty : Diffs \cup {0}, job : Jobs \cup {None}]
Works == [job : Jobs \cup {None}, extra : 0..MaxExtra, nonce : Nat]
Submits == [work : Works, difficulty : Diffs \cup {0}]

\* The state the thread looks at, and its own numbers.
MinerTyped ==
    /\ pool \in States /\ snap \in States
    /\ extra \in 0..MaxExtra
    /\ base \in 0..MaxNonce /\ pos \in Nat /\ end \in 0..MaxNonce /\ pos <= end
    /\ at \in {"looking", "hashing", "sending", "over"}
    /\ channel \in Seq(Submits) /\ Len(channel) <= Room

\* All that was tried of this generation lies below the nonce the thread is at,
\* or between two batches below the nonce the next one starts from.  A batch
\* that is being hashed is not empty of nonces, so no sum starts over.
TriedBelow ==
    /\ \A w \in tried : w.nonce \in Nat
    /\ at = "looking" => \A w \in tried : w.nonce < base
    /\ at = "hashing" => end > 0 /\ \A w \in tried : w.nonce < pos
    /\ at = "sending" => pos < end /\ \A w \in tried : w.nonce <= pos

MinerInv == MinerTyped /\ TriedBelow

\* Nothing is tried at the start.
LEMMA InitTried == Miner!Init => MinerInv
  BY MinerAssumption DEF States, Miner!Init, MinerInv, MinerTyped, TriedBelow

\* What the pool, the reader and the writer do leaves the thread alone.
LEMMA OthersKeep ==
    ASSUME MinerInv,
           \/ Miner!Subscribed \/ \E d \in Diffs : Miner!SetDifficulty(d)
           \/ \E j \in Jobs : Miner!NewJob(j)
           \/ Miner!Answer \/ Miner!Close \/ Miner!WriteShare
    PROVE  MinerInv'
<1> USE MinerAssumption DEF MinerInv, MinerTyped, TriedBelow, Miner!state, Miner!thread,
    Miner!submits, Miner!bounds
<1>1. CASE Miner!Subscribed
  <2>1. [pool EXCEPT !.extranonce1 = @ + 1] \in States
    BY DEF States
  <2> QED
    BY <1>1, <2>1, SMTT(40) DEF Miner!Subscribed, Miner!Change
<1>2. ASSUME NEW d \in Diffs, Miner!SetDifficulty(d)
      PROVE  MinerInv'
  <2>1. [pool EXCEPT !.difficulty = d] \in States
    BY DEF States
  <2> QED
    BY <1>2, <2>1 DEF Miner!SetDifficulty, Miner!Change
<1>3. ASSUME NEW j \in Jobs, Miner!NewJob(j)
      PROVE  MinerInv'
  <2>1. [pool EXCEPT !.job = j] \in States
    BY DEF States
  <2> QED
    BY <1>3, <2>1 DEF Miner!NewJob, Miner!Change
<1>4. CASE Miner!Answer
  BY <1>4 DEF Miner!Answer
<1>5. CASE Miner!Close
  BY <1>5 DEF Miner!Close
<1>6. CASE Miner!WriteShare
  BY <1>6 DEF Miner!WriteShare
<1> QED
  BY <1>1, <1>2, <1>3, <1>4, <1>5, <1>6

\* The thread goes up through the nonces; only a new generation starts over,
\* and what was tried of the old one does not count.
LEMMA HashKeeps ==
    ASSUME MinerInv, Miner!Hash
    PROVE  MinerInv'
<1> USE MinerAssumption DEF MinerInv, MinerTyped, TriedBelow, Miner!state, Miner!submits,
    Miner!bounds
<1>1. CASE Miner!Look
  <2>1. CASE Miner!Looks /\ Miner!Reload
    <3>1. base' = 0 /\ extra' = 0 /\ tried' = {} /\ snap' = pool
      BY <1>1, <2>1 DEF Miner!Look
    <3>2. CASE Miner!Ready(pool)
      BY <1>1, <2>1, <3>1, <3>2 DEF Miner!Look, Miner!Least
    <3>3. CASE ~Miner!Ready(pool)
      BY <1>1, <2>1, <3>1, <3>3 DEF Miner!Look
    <3> QED
      BY <3>2, <3>3
  <2>2. CASE ~(Miner!Looks /\ Miner!Reload)
    <3>1. base' = base /\ extra' = extra /\ tried' = tried /\ snap' = snap
      BY <1>1, <2>2 DEF Miner!Look
    <3>2. CASE Miner!Ready(snap)
      BY <1>1, <2>2, <3>1, <3>2 DEF Miner!Look, Miner!Least
    <3>3. CASE ~Miner!Ready(snap)
      BY <1>1, <2>2, <3>1, <3>3 DEF Miner!Look
    <3> QED
      BY <3>2, <3>3
  <2> QED
    BY <2>1, <2>2
<1>2. CASE Miner!HashMiss
  BY <1>2 DEF Miner!HashMiss, Miner!Work
<1>3. CASE Miner!HashShare
  BY <1>3 DEF Miner!HashShare, Miner!Work
<1>4. CASE Miner!SendShare
  <2>1. CASE open
    <3>1. Miner!Work \in Works
      BY <1>4 DEF Miner!SendShare, Miner!Work, Works, States
    <3>2. [work |-> Miner!Work, difficulty |-> snap.difficulty] \in Submits
      BY <3>1 DEF Submits, States
    <3>3. channel' \in Seq(Submits) /\ Len(channel') <= Room
      BY <1>4, <2>1, <3>2 DEF Miner!SendShare
    <3> QED
      BY <1>4, <2>1, <3>3 DEF Miner!SendShare
  <2>2. CASE ~open
    BY <1>4, <2>2 DEF Miner!SendShare
  <2> QED
    BY <2>1, <2>2
<1>5. CASE Miner!BatchDone
  BY <1>5 DEF Miner!BatchDone, Miner!AfterBatch
<1> QED
  BY <1>1, <1>2, <1>3, <1>4, <1>5 DEF Miner!Hash

\* What the pool and the thread do, one step after the other.
LEMMA StepTried == MinerInv /\ [Miner!Next]_(Miner!vars) => MinerInv'
<1> SUFFICES ASSUME MinerInv, [Miner!Next]_(Miner!vars)
             PROVE  MinerInv'
  OBVIOUS
<1>1. CASE UNCHANGED Miner!vars
  BY <1>1 DEF Miner!vars, Miner!state, Miner!thread, Miner!submits, Miner!bounds,
     MinerInv, MinerTyped, TriedBelow
<1> QED
  BY <1>1, OthersKeep, HashKeeps DEF Miner!Next

\* No work is hashed twice between two changes of the pool's state, whatever the
\* pool sends while the thread hashes.
THEOREM HashedOnceHolds == Spec => []HashedOnce
<1> DEFINE Here == part = "miner"
           Inv == Here => MinerInv
<1>1. Init => Inv
  BY InitTried DEF Init
<1>2. Inv /\ [Next]_vars => Inv'
  <2>1. Here /\ [Next]_vars => [Miner!Next]_(Miner!vars)
    BY DEF Next, vars, from16, from13, from10, from9, Miner!vars, Miner!state,
       Miner!thread, Miner!submits, Miner!bounds
  <2>2. [Next]_vars => (Here' <=> Here)
    BY DEF Next, vars
  <2> QED
    BY <2>1, <2>2, StepTried
<1>3. Inv => HashedOnce
  <2>1. MinerInv => Miner!TypeOK
    BY DEF MinerInv, MinerTyped, States, Miner!TypeOK
  <2>2. MinerInv => Miner!HashedOnce
    <3> SUFFICES ASSUME MinerInv, at = "hashing" PROVE Miner!Work \notin tried
      BY DEF Miner!HashedOnce
    <3>1. \A w \in tried : w.nonce \in Nat /\ w.nonce < pos
      BY DEF MinerInv, TriedBelow
    <3>2. Miner!Work.nonce = pos /\ pos \in Nat
      BY DEF Miner!Work, MinerInv, MinerTyped
    <3> QED
      BY <3>1, <3>2
  <2> QED
    BY <2>1, <2>2 DEF HashedOnce
<1> QED
  BY <1>1, <1>2, <1>3, PTL DEF Spec

-----------------------------------------------------------------------------
\* Sales for USDT.

\* The rail's variables, as TetherRail names them; State.open is the book.
chain == v1
asksFor == v2
age == v3
book == v4
paid == v5
handled == v6
next == v7
answer == v8
events == v9
credited == v10
restarts == v11
since == v12

Payments == [quote : Quotes, block : Nat]

\* The payments that are or will be credited: by cdk, on their way to it, or
\* there for a wallet that asks.
Reported == {events[i] : i \in 1 .. Len(events)}
Settlements == credited \cup Reported \cup {Tether!Payment(q, paid[q]) : q \in DOMAIN paid}

RailTyped ==
    /\ chain \in Seq(Amounts \cup {Tether!NoTransfer})
    /\ asksFor \in [Quotes -> Amounts \cup {Tether!NoAmount}]
    /\ age \in [Quotes -> Tether!Ages]
    /\ DOMAIN paid \subseteq Quotes
    /\ \A q \in DOMAIN paid : paid[q] \in Nat
    /\ events \in Seq(Payments)
    /\ credited \subseteq Payments
    /\ restarts \in Nat

\* What was handled lies behind the cursor, and the cursor among the blocks that
\* do not change.
CursorOK ==
    /\ next \in Nat /\ since \in Nat
    /\ next <= Tether!Safe + 1
    /\ handled \subseteq 1 .. next - 1
    /\ Tether!NothingSkipped

\* An answer under way goes on where the cursor is.
AnswerOK ==
    answer # Tether!NoAnswer =>
        /\ answer.first \in Nat \ {0} /\ answer.last \in Nat
        /\ answer.next = answer.last + 1
        /\ answer.first <= answer.next /\ answer.last <= Tether!Safe
        /\ next # Tether!NotPolled => answer.first = next

\* A quote in the book was asked for, for the amount it is listed under.
BookOK ==
    \A m \in DOMAIN book :
        /\ m \in Amounts /\ book[m] \in Quotes
        /\ asksFor[book[m]] = m /\ age[book[m]] # "none"

\* A payment is of its quote's amount, in a block behind the cursor, and its quote is
\* out of the book.
SettledOK ==
    \A p \in Settlements :
        /\ p.block \in 1 .. Tether!Safe
        /\ chain[p.block] = asksFor[p.quote]
        /\ age[p.quote] # "none"
        /\ \A m \in DOMAIN book : book[m] # p.quote
        /\ next # Tether!NotPolled => p.block < next
        /\ answer # Tether!NoAnswer => p.block < answer.first

\* One payment for each quote and each block.
OnePerQuote ==
    \A p, o \in Settlements : o.quote = p.quote <=> o.block = p.block

RailInv ==
    RailTyped /\ CursorOK /\ AnswerOK /\ BookOK /\ SettledOK /\ OnePerQuote

USE DEF chain, asksFor, age, book, paid, handled, next, answer, events, credited,
        restarts, since

\* What Matched computes on its way to block n, from s on.
Upto(u, n, s) ==
    u = [b \in 0 .. n |-> IF b < answer.first THEN s ELSE Tether!SettleOne(u[b - 1], b)]

\* It is there for every n.
LEMMA UptoExists ==
    ASSUME answer.first \in Nat \ {0}, NEW s, NEW n \in Nat
    PROVE  \E u : Upto(u, n, s)
<1> DEFINE C == {k \in Nat : \E u : Upto(u, k, s)}
<1>1. 0 \in C
  <2> DEFINE u == [b \in 0 .. 0 |-> s]
  <2>1. Upto(u, 0, s)
    <3>1. \A b \in 0 .. 0 : b < answer.first
      OBVIOUS
    <3> QED BY <3>1 DEF Upto
  <2> QED BY <2>1
<1>2. ASSUME NEW k \in Nat, k \in C PROVE k + 1 \in C
  <2>1. PICK u : Upto(u, k, s)
    BY <1>2
  <2> DEFINE w == [b \in 0 .. k + 1 |->
                     IF b =< k THEN u[b]
                     ELSE IF b < answer.first THEN s ELSE Tether!SettleOne(u[b - 1], b)]
             g == [b \in 0 .. k + 1 |->
                     IF b < answer.first THEN s ELSE Tether!SettleOne(w[b - 1], b)]
  <2>2. \A b \in 0 .. k : u[b] = IF b < answer.first THEN s ELSE Tether!SettleOne(u[b - 1], b)
    BY <2>1 DEF Upto
  <2>3. ASSUME NEW b \in 0 .. k + 1, ~(b < answer.first) PROVE w[b - 1] = u[b - 1]
    <3>1. b - 1 \in 0 .. k + 1 /\ b - 1 =< k
      BY <2>3
    <3> QED BY <3>1
  <2>4. ASSUME NEW b \in 0 .. k + 1 PROVE w[b] = g[b]
    <3>1. CASE b < answer.first
      <4>1. g[b] = s
        BY <3>1
      <4>2. CASE b =< k
        <5>1. b \in 0 .. k
          BY <4>2
        <5>2. w[b] = u[b]
          BY <4>2
        <5> QED BY <2>2, <3>1, <4>1, <5>1, <5>2
      <4>3. CASE ~(b =< k)
        BY <3>1, <4>1, <4>3
      <4> QED BY <4>2, <4>3
    <3>2. CASE ~(b < answer.first)
      <4>1. g[b] = Tether!SettleOne(w[b - 1], b)
        BY <3>2
      <4>2. g[b] = Tether!SettleOne(u[b - 1], b)
        <5> HIDE DEF w, g
        <5> QED BY <2>3, <3>2, <4>1
      <4>3. CASE b =< k
        <5>1. b \in 0 .. k
          BY <4>3
        <5>2. w[b] = u[b]
          BY <4>3
        <5> HIDE DEF w, g
        <5> QED BY <2>2, <3>2, <4>2, <5>1, <5>2
      <4>4. CASE ~(b =< k)
        <5>1. w[b] = Tether!SettleOne(u[b - 1], b)
          BY <3>2, <4>4
        <5> HIDE DEF w, g
        <5> QED BY <4>2, <5>1
      <4> QED BY <4>3, <4>4
    <3> QED BY <3>1, <3>2
  <2>5. w = g
    <3> DEFINE D == 0 .. k + 1
    <3>1. w = [b \in D |-> w[b]] /\ g = [b \in D |-> g[b]]
      OBVIOUS
    <3> HIDE DEF w, g
    <3> QED BY <2>4, <3>1
  <2>6. Upto(w, k + 1, s)
    <3> HIDE DEF w
    <3> QED BY <2>5 DEF Upto
  <2> HIDE DEF w
  <2> QED BY <2>6
<1> HIDE DEF C
<1>3. n \in C
  BY <1>1, <1>2, NumbersAre
<1> QED BY <1>3 DEF C

\* So Matched is the last of the steps.
LEMMA MatchedIs ==
    ASSUME answer.first \in Nat \ {0}, answer.last \in Nat, NEW s
    PROVE  \E u : Upto(u, answer.last, s) /\ Tether!Matched(s) = u[answer.last]
<1> DEFINE u == CHOOSE w : Upto(w, answer.last, s)
<1>1. Upto(u, answer.last, s)
  BY UptoExists
<1>2. Tether!Matched(s) = u[answer.last]
  BY DEF Tether!Matched, Upto
<1> HIDE DEF u
<1> QED BY <1>1, <1>2

\* What was read on the way to block b.
Reads(b) == answer.first .. b

\* What matching makes of State on its way to block b.  Transfers are remembered,
Shaped(s) ==
    s = [open |-> s.open, paid |-> s.paid, seen |-> s.seen, settled |-> s.settled]

Remembers(s, b) ==
    s.seen = handled \cup {c \in Reads(b) : chain[c] # Tether!NoTransfer}

\* what one of these blocks pays is taken from the book,
Takes(s, b) ==
    /\ DOMAIN s.open = {m \in DOMAIN book : \A c \in Reads(b) : chain[c] # m}
    /\ \A m \in DOMAIN s.open : s.open[m] = book[m]

\* what was paid stays so, and what is taken from the book is paid by its block,
Pays(s, b) ==
    /\ \A q \in DOMAIN paid : q \in DOMAIN s.paid /\ s.paid[q] = paid[q]
    /\ \A m \in DOMAIN book : m \notin DOMAIN s.open => book[m] \in DOMAIN s.paid
    /\ \A q \in DOMAIN s.paid \ DOMAIN paid :
          /\ s.paid[q] \in Reads(b)
          /\ chain[s.paid[q]] \in DOMAIN book /\ book[chain[s.paid[q]]] = q

\* and these payments are reported, and no others.
Reports(s) ==
    /\ s.settled \in Seq(Payments)
    /\ \A i \in 1 .. Len(s.settled) :
          /\ s.settled[i].quote \in DOMAIN s.paid \ DOMAIN paid
          /\ s.settled[i].block = s.paid[s.settled[i].quote]

After(s, b) ==
    Shaped(s) /\ Remembers(s, b) /\ Takes(s, b) /\ Pays(s, b) /\ Reports(s)

\* Before the first block all is as it was.
LEMMA NowAfter ==
    ASSUME NEW b \in Nat, answer.first \in Nat \ {0}, b < answer.first
    PROVE  After(Tether!Now, b)
<1> DEFINE s == Tether!Now
<1>1. Reads(b) = {}
  BY DEF Reads
<1>2. s = [open |-> book, paid |-> paid, seen |-> handled, settled |-> <<>>]
  BY DEF Tether!Now
<1>3. Shaped(s)
  BY <1>2 DEF Shaped
<1>4. Remembers(s, b)
  BY <1>1, <1>2 DEF Remembers
<1>5. Takes(s, b)
  BY <1>1, <1>2 DEF Takes
<1>6. Pays(s, b)
  <2>1. s.paid = paid /\ s.open = book
    BY <1>2
  <2> HIDE DEF s
  <2> QED BY <2>1 DEF Pays
<1>7. Reports(s)
  <2>1. s.settled = <<>>
    BY <1>2
  <2> HIDE DEF s
  <2> QED BY <2>1 DEF Reports
<1> QED
  BY <1>3, <1>4, <1>5, <1>6, <1>7 DEF After

\* What holds of the book and the payments when an answer is matched.
LEMMA BookFacts ==
    ASSUME RailInv, answer # Tether!NoAnswer
    PROVE  /\ answer.first \in Nat \ {0} /\ answer.last \in Nat
           /\ DOMAIN book \subseteq Amounts
           /\ \A m \in DOMAIN book : book[m] \in Quotes /\ asksFor[book[m]] = m
           /\ \A m \in DOMAIN book : book[m] \notin DOMAIN paid
           /\ \A c \in handled : c < answer.first
<1>1. answer.first \in Nat \ {0} /\ answer.last \in Nat
  BY DEF RailInv, AnswerOK
<1>2. /\ DOMAIN book \subseteq Amounts
      /\ \A m \in DOMAIN book : book[m] \in Quotes /\ asksFor[book[m]] = m
  BY DEF RailInv, BookOK
<1>3. ASSUME NEW m \in DOMAIN book PROVE book[m] \notin DOMAIN paid
  <2>1. SUFFICES ASSUME book[m] \in DOMAIN paid PROVE FALSE
    OBVIOUS
  <2> DEFINE p == Tether!Payment(book[m], paid[book[m]])
  <2>2. p \in Settlements /\ p.quote = book[m]
    BY <2>1 DEF Settlements, Tether!Payment
  <2> QED BY <2>2 DEF RailInv, SettledOK
<1>4. ASSUME NEW c \in handled PROVE c < answer.first
  <2>1. c \in 1 .. next - 1 /\ next \in Nat
    BY DEF RailInv, CursorOK
  <2>2. next # Tether!NotPolled
    BY <2>1 DEF Tether!NotPolled
  <2>3. answer.first = next
    BY <2>2 DEF RailInv, AnswerOK
  <2> QED BY <2>1, <2>3
<1> QED
  BY <1>1, <1>2, <1>3, <1>4

\* One block more.
LEMMA SettleOneAfter ==
    ASSUME RailInv, answer # Tether!NoAnswer, NEW b \in Nat, answer.first =< b,
           NEW s, After(s, b - 1), Tether!NoTransfer \notin Amounts
    PROVE  After(Tether!SettleOne(s, b), b)
<1> DEFINE t == Tether!SettleOne(s, b)
<1>0. /\ answer.first \in Nat \ {0}
      /\ DOMAIN book \subseteq Amounts
      /\ \A m \in DOMAIN book : book[m] \in Quotes /\ asksFor[book[m]] = m
      /\ \A m \in DOMAIN book : book[m] \notin DOMAIN paid
      /\ \A c \in handled : c < answer.first
  BY BookFacts
<1>1. Reads(b) = Reads(b - 1) \cup {b} /\ b \notin Reads(b - 1) /\ b \notin handled
  BY <1>0 DEF Reads
<1>2. b \notin s.seen
  BY <1>1 DEF After, Remembers
<1>3. CASE chain[b] \notin DOMAIN s.open
  <2>1. chain[b] \notin DOMAIN book \/ \E c \in Reads(b - 1) : chain[c] = chain[b]
    BY <1>3 DEF After, Takes
  <2>2. {m \in DOMAIN book : \A c \in Reads(b) : chain[c] # m}
          = {m \in DOMAIN book : \A c \in Reads(b - 1) : chain[c] # m}
    BY <1>1, <2>1
  <2>3. /\ t.open = s.open /\ t.paid = s.paid /\ t.settled = s.settled /\ Shaped(t)
        /\ t.seen = IF chain[b] = Tether!NoTransfer THEN s.seen ELSE s.seen \cup {b}
    <3>1. CASE chain[b] = Tether!NoTransfer
      BY <3>1 DEF Tether!SettleOne, After
    <3>2. CASE chain[b] # Tether!NoTransfer
      <4>1. t = [s EXCEPT !.seen = @ \cup {b}]
        BY <1>2, <1>3, <3>2 DEF Tether!SettleOne
      <4>2. t = [open |-> s.open, paid |-> s.paid, seen |-> s.seen \cup {b},
                 settled |-> s.settled]
        BY <4>1 DEF After, Shaped
      <4> QED BY <3>2, <4>2 DEF Shaped
    <3> QED BY <3>1, <3>2
  <2> HIDE DEF t
  <2>4. Remembers(t, b)
    BY <1>1, <2>3 DEF After, Remembers
  <2>5. Takes(t, b)
    BY <2>2, <2>3 DEF After, Takes
  <2>6. Pays(t, b)
    BY <1>1, <2>3 DEF After, Pays
  <2>7. Reports(t)
    BY <2>3 DEF After, Reports
  <2> QED BY <2>3, <2>4, <2>5, <2>6, <2>7 DEF After, t
<1>4. CASE chain[b] \in DOMAIN s.open
  <2> DEFINE q == book[chain[b]]
             p == Tether!Payment(q, b)
  <2>0. chain[b] # Tether!NoTransfer
    BY <1>0, <1>4 DEF After, Takes
  <2>1. chain[b] \in DOMAIN book /\ s.open[chain[b]] = q
    BY <1>4 DEF After, Takes
  <2>2. t = [open |-> Tether!Without(s.open, chain[b]), paid |-> Tether!With(s.paid, q, b),
             seen |-> s.seen \cup {b}, settled |-> Append(s.settled, p)]
    BY <1>2, <1>4, <2>0, <2>1 DEF Tether!SettleOne
  <2>3. q \in Quotes /\ q \notin DOMAIN paid /\ asksFor[q] = chain[b]
    BY <1>0, <2>1
  <2>4. q \notin DOMAIN s.paid
    <3>1. SUFFICES ASSUME q \in DOMAIN s.paid PROVE FALSE
      OBVIOUS
    <3>2. /\ s.paid[q] \in Reads(b - 1)
          /\ chain[s.paid[q]] \in DOMAIN book /\ book[chain[s.paid[q]]] = q
      BY <2>3, <3>1 DEF After, Pays
    <3>3. chain[s.paid[q]] = chain[b]
      BY <1>0, <2>3, <3>2
    <3>4. \A c \in Reads(b - 1) : chain[c] # chain[b]
      BY <1>4 DEF After, Takes
    <3> QED BY <3>2, <3>3, <3>4
  <2>5. /\ DOMAIN t.open = DOMAIN s.open \ {chain[b]}
        /\ \A m \in DOMAIN t.open : t.open[m] = s.open[m]
    BY <2>2 DEF Tether!Without
  <2>6. /\ DOMAIN t.paid = DOMAIN s.paid \cup {q}
        /\ t.paid[q] = b /\ \A r \in DOMAIN s.paid : t.paid[r] = s.paid[r]
    BY <2>2, <2>4 DEF Tether!With
  <2>7. p \in Payments /\ p.quote = q /\ p.block = b
    BY <2>3 DEF Tether!Payment, Payments
  <2>8. Shaped(t)
    BY <2>2 DEF Shaped
  <2>9. t.seen = s.seen \cup {b} /\ t.settled = Append(s.settled, p)
    BY <2>2
  <2> HIDE DEF t, p, q
  <2>10. Remembers(t, b)
    BY <1>1, <2>0, <2>9 DEF After, Remembers
  <2>11. Takes(t, b)
    BY <1>1, <2>5 DEF After, Takes
  <2>12. Pays(t, b)
    <3>1. ASSUME NEW r \in DOMAIN paid PROVE r \in DOMAIN t.paid /\ t.paid[r] = paid[r]
      BY <2>6 DEF After, Pays
    <3>2. ASSUME NEW m \in DOMAIN book, m \notin DOMAIN t.open PROVE book[m] \in DOMAIN t.paid
      BY <2>5, <2>6, <3>2 DEF After, Pays, q
    <3>3. ASSUME NEW r \in DOMAIN t.paid \ DOMAIN paid
          PROVE  /\ t.paid[r] \in Reads(b)
                 /\ chain[t.paid[r]] \in DOMAIN book /\ book[chain[t.paid[r]]] = r
      <4>1. CASE r = q
        BY <1>1, <2>1, <2>6, <4>1 DEF q
      <4>2. CASE r # q
        BY <1>1, <2>6, <4>2 DEF After, Pays
      <4> QED BY <4>1, <4>2
    <3> QED BY <3>1, <3>2, <3>3 DEF Pays
  <2>13. Reports(t)
    <3>1. s.settled \in Seq(Payments)
      BY DEF After, Reports
    <3>2. /\ t.settled \in Seq(Payments) /\ Len(t.settled) = Len(s.settled) + 1
          /\ t.settled[Len(s.settled) + 1] = p
          /\ \A i \in 1 .. Len(s.settled) : t.settled[i] = s.settled[i]
      BY <2>7, <2>9, <3>1
    <3>3. ASSUME NEW i \in 1 .. Len(t.settled)
          PROVE  /\ t.settled[i].quote \in DOMAIN t.paid \ DOMAIN paid
                 /\ t.settled[i].block = t.paid[t.settled[i].quote]
      <4>1. CASE i = Len(s.settled) + 1
        BY <2>3, <2>6, <2>7, <3>2, <4>1
      <4>2. CASE i \in 1 .. Len(s.settled)
        <5>1. /\ s.settled[i].quote \in DOMAIN s.paid \ DOMAIN paid
              /\ s.settled[i].block = s.paid[s.settled[i].quote]
          BY <4>2 DEF After, Reports
        <5> QED BY <2>6, <3>2, <4>2, <5>1
      <4> QED BY <3>1, <3>2, <4>1, <4>2
    <3> QED BY <3>2, <3>3 DEF Reports
  <2> QED BY <2>8, <2>10, <2>11, <2>12, <2>13 DEF After, t
<1> HIDE DEF t
<1> QED BY <1>3, <1>4

\* All blocks of the answer.
LEMMA MatchedAfter ==
    ASSUME RailInv, answer # Tether!NoAnswer, Tether!NoTransfer \notin Amounts
    PROVE  After(Tether!Matched(Tether!Now), answer.last)
<1>0. answer.first \in Nat \ {0} /\ answer.last \in Nat
  BY BookFacts
<1>1. PICK u : /\ Upto(u, answer.last, Tether!Now)
               /\ Tether!Matched(Tether!Now) = u[answer.last]
  BY <1>0, MatchedIs
<1>2. \A b \in 0 .. answer.last :
          u[b] = IF b < answer.first THEN Tether!Now ELSE Tether!SettleOne(u[b - 1], b)
  BY <1>1 DEF Upto
<1> DEFINE C == {b \in Nat : b =< answer.last => After(u[b], b)}
<1>3. 0 \in C
  <2>1. 0 < answer.first /\ 0 \in 0 .. answer.last
    BY <1>0
  <2>2. u[0] = Tether!Now
    BY <1>2, <2>1
  <2> QED BY <1>0, <2>1, <2>2, NowAfter
<1>4. ASSUME NEW b \in Nat, b \in C PROVE b + 1 \in C
  <2>1. SUFFICES ASSUME b + 1 =< answer.last PROVE After(u[b + 1], b + 1)
    OBVIOUS
  <2>2. b + 1 \in 0 .. answer.last /\ (b + 1) - 1 = b /\ b + 1 \in Nat
    BY <1>0, <2>1
  <2>3. CASE b + 1 < answer.first
    <3>1. u[b + 1] = Tether!Now
      BY <1>2, <2>2, <2>3
    <3> QED BY <1>0, <2>2, <2>3, <3>1, NowAfter
  <2>4. CASE ~(b + 1 < answer.first)
    <3>1. u[b + 1] = Tether!SettleOne(u[b], b + 1)
      BY <1>2, <2>2, <2>4
    <3>2. After(u[b], (b + 1) - 1) /\ answer.first =< b + 1
      BY <1>0, <1>4, <2>1, <2>2, <2>4
    <3> QED BY <2>2, <3>1, <3>2, SettleOneAfter
  <2> QED BY <2>3, <2>4
<1> HIDE DEF C
<1>5. answer.last \in C
  BY <1>0, <1>3, <1>4, NumbersAre
<1> QED BY <1>0, <1>1, <1>5 DEF C

-----------------------------------------------------------------------------
\* The blocks that do not change are blocks of the chain.
LEMMA SafeFacts ==
    ASSUME RailInv
    PROVE  Len(chain) \in Nat /\ Tether!Safe \in Nat /\ Tether!Safe <= Len(chain)
<1>1. Len(chain) \in Nat
  BY DEF RailInv, RailTyped
<1> QED
  BY <1>1, TransferAssumption DEF Tether!Safe

\* A payment is of a quote, in a block.
LEMMA SettlementsTyped == ASSUME RailInv PROVE Settlements \subseteq Payments
<1>1. /\ events \in Seq(Payments) /\ credited \subseteq Payments
      /\ DOMAIN paid \subseteq Quotes /\ \A q \in DOMAIN paid : paid[q] \in Nat
  BY DEF RailInv, RailTyped
<1>2. Reported \subseteq Payments
  BY <1>1 DEF Reported
<1>3. \A q \in DOMAIN paid : Tether!Payment(q, paid[q]) \in Payments
  BY <1>1 DEF Payments, Tether!Payment
<1> QED
  BY <1>1, <1>2, <1>3 DEF Settlements

\* A new rail has nothing to remember.
LEMMA InitRail == Tether!Init => RailInv
<1> SUFFICES ASSUME Tether!Init PROVE RailInv
  OBVIOUS
<1> USE DEF Tether!Init, Tether!Empty
<1>1. RailTyped
  BY DEF RailTyped, Tether!Ages
<1>2. CursorOK
  <2>1. Tether!Safe = 0
    BY TransferAssumption DEF Tether!Safe
  <2> QED BY <2>1 DEF CursorOK, Tether!NotPolled, Tether!NothingSkipped
<1>3. AnswerOK /\ BookOK
  BY DEF AnswerOK, BookOK
<1>4. Settlements = {}
  BY DEF Settlements, Reported
<1>5. SettledOK /\ OnePerQuote
  BY <1>4 DEF SettledOK, OnePerQuote
<1> QED
  BY <1>1, <1>2, <1>3, <1>5 DEF RailInv

\* A block more changes none before it.
LEMMA MineKeeps ==
    ASSUME RailInv, NEW transfer \in Amounts \cup {Tether!NoTransfer}, Tether!Mine(transfer)
    PROVE  RailInv'
<1>0. /\ Len(chain) \in Nat /\ Tether!Safe \in Nat /\ Tether!Safe <= Len(chain)
      /\ chain \in Seq(Amounts \cup {Tether!NoTransfer})
  BY SafeFacts DEF RailInv, RailTyped
<1>1. /\ chain' = Append(chain, transfer)
      /\ UNCHANGED <<asksFor, age, book, paid, handled, next, answer, events, credited,
                     restarts, since>>
  BY DEF Tether!Mine, Tether!state
<1>2. /\ chain' \in Seq(Amounts \cup {Tether!NoTransfer})
      /\ Len(chain') = Len(chain) + 1
      /\ \A b \in 1 .. Len(chain) : chain'[b] = chain[b]
  BY <1>0, <1>1
<1>3. Tether!Safe' \in Nat /\ Tether!Safe <= Tether!Safe'
  BY <1>0, <1>2, TransferAssumption DEF Tether!Safe
<1>4. RailTyped'
  BY <1>1, <1>2 DEF RailInv, RailTyped
<1>5. CursorOK'
  <2>1. ASSUME NEW b \in since .. next - 1, since # Tether!NotPolled
        PROVE  chain'[b] = chain[b]
    <3>1. since \in Nat /\ next \in Nat /\ next <= Tether!Safe + 1
      BY DEF RailInv, CursorOK
    <3>2. b \in 1 .. Len(chain)
      BY <1>0, <2>1, <3>1 DEF Tether!NotPolled
    <3> QED BY <1>2, <3>2
  <2>2. Tether!NothingSkipped'
    BY <1>1, <2>1 DEF RailInv, CursorOK, Tether!NothingSkipped
  <2>3. next \in Nat /\ next <= Tether!Safe + 1
    BY DEF RailInv, CursorOK
  <2>4. next <= Tether!Safe' + 1
    <3>1. PICK n \in Nat : n = Tether!Safe'
      BY <1>3, Zenon
    <3>2. Tether!Safe <= n
      BY <1>3, <3>1, Zenon
    <3>3. Tether!Safe \in Nat
      BY <1>0
    <3>4. next <= n + 1
      BY <2>3, <3>2, <3>3
    <3> QED BY <3>1, <3>4, Zenon
  <2> QED BY <1>1, <2>2, <2>3, <2>4 DEF RailInv, CursorOK
<1>6. AnswerOK'
  <2>1. SUFFICES ASSUME answer # Tether!NoAnswer PROVE AnswerOK'
    BY <1>1 DEF AnswerOK
  <2>2. answer.last \in Nat /\ answer.last <= Tether!Safe
    BY <2>1 DEF RailInv, AnswerOK
  <2>3. answer.last <= Tether!Safe'
    BY <1>0, <1>3, <2>2
  <2> QED BY <1>1, <2>1, <2>3 DEF RailInv, AnswerOK
<1>7. BookOK'
  BY <1>1 DEF RailInv, BookOK
<1>8. Settlements' = Settlements
  BY <1>1 DEF Settlements, Reported, Tether!Payment
<1>9. SettledOK'
  <2>1. SUFFICES ASSUME NEW p \in Settlements
                 PROVE  p.block \in 1 .. Tether!Safe' /\ chain'[p.block] = chain[p.block]
    BY <1>1, <1>8 DEF RailInv, SettledOK
  <2>2. p.block \in 1 .. Tether!Safe
    BY DEF RailInv, SettledOK
  <2> QED BY <1>0, <1>2, <1>3, <2>2
<1>10. OnePerQuote'
  BY <1>8 DEF RailInv, OnePerQuote
<1> QED
  BY <1>4, <1>5, <1>6, <1>7, <1>9, <1>10 DEF RailInv

\* A quote takes an amount that is free, and none was paid before it is asked for.
LEMMA OpenKeeps ==
    ASSUME RailInv, NEW q \in Quotes, NEW amount \in Amounts, Tether!OpenQuote(q, amount)
    PROVE  RailInv'
<1>1. /\ age[q] = "none" /\ amount \notin DOMAIN book
      /\ asksFor' = [asksFor EXCEPT ![q] = amount]
      /\ age' = [age EXCEPT ![q] = "kept"]
      /\ book' = Tether!With(book, amount, q)
      /\ UNCHANGED <<chain, paid, handled, next, answer, events, credited, restarts, since>>
  BY DEF Tether!OpenQuote
<1>2. asksFor \in [Quotes -> Amounts \cup {Tether!NoAmount}] /\ age \in [Quotes -> Tether!Ages]
  BY DEF RailInv, RailTyped
<1>3. /\ DOMAIN book' = DOMAIN book \cup {amount} /\ book'[amount] = q
      /\ \A m \in DOMAIN book : book'[m] = book[m]
  BY <1>1 DEF Tether!With
<1>4. RailTyped'
  BY <1>1, <1>2 DEF RailInv, RailTyped, Tether!Ages
<1>5. CursorOK' /\ AnswerOK'
  <2>1. Tether!Safe' = Tether!Safe
    BY <1>1 DEF Tether!Safe
  <2> QED BY <1>1, <2>1 DEF RailInv, CursorOK, AnswerOK, Tether!NothingSkipped
<1>6. BookOK'
  <2>1. SUFFICES ASSUME NEW m \in DOMAIN book'
                 PROVE  /\ m \in Amounts /\ book'[m] \in Quotes
                        /\ asksFor'[book'[m]] = m /\ age'[book'[m]] # "none"
    BY DEF BookOK
  <2>2. CASE m = amount
    BY <1>1, <1>2, <1>3, <2>2
  <2>3. CASE m # amount
    <3>1. /\ m \in Amounts /\ book[m] \in Quotes
          /\ asksFor[book[m]] = m /\ age[book[m]] # "none" /\ book'[m] = book[m]
      BY <1>3, <2>1, <2>3 DEF RailInv, BookOK
    <3> QED BY <1>1, <1>2, <3>1
  <2> QED BY <2>2, <2>3
<1>7. Settlements' = Settlements /\ Tether!Safe' = Tether!Safe
  BY <1>1 DEF Settlements, Reported, Tether!Payment, Tether!Safe
<1>8. SettledOK'
  <2>1. SUFFICES ASSUME NEW p \in Settlements
                 PROVE  /\ asksFor'[p.quote] = asksFor[p.quote]
                        /\ age'[p.quote] = age[p.quote]
                        /\ \A m \in DOMAIN book' : book'[m] # p.quote
    BY <1>1, <1>7 DEF RailInv, SettledOK
  <2>2. p.quote # q
    BY <1>1 DEF RailInv, SettledOK
  <2> QED BY <1>1, <1>2, <1>3, <2>2 DEF RailInv, SettledOK
<1>9. OnePerQuote'
  BY <1>7 DEF RailInv, OnePerQuote
<1> QED
  BY <1>4, <1>5, <1>6, <1>8, <1>9 DEF RailInv

\* What cdk records was found by the rail.
LEMMA RecordKeeps ==
    ASSUME RailInv,
           Tether!Deliver \/ \E q \in Quotes : Tether!Check(q)
    PROVE  RailInv'
<1>1. UNCHANGED <<chain, asksFor, age, book, paid, handled, next, answer, restarts, since>>
  BY DEF Tether!Deliver, Tether!Check, Tether!state
<1>2. /\ events \in Seq(Payments) /\ credited \subseteq Payments
      /\ DOMAIN paid \subseteq Quotes /\ \A q \in DOMAIN paid : paid[q] \in Nat
  BY DEF RailInv, RailTyped
<1>3. /\ events' \in Seq(Payments) /\ credited' \subseteq Payments
      /\ Settlements' \subseteq Settlements
  <2>1. CASE Tether!Deliver
    <3>1. /\ events # <<>> /\ events' = Tail(events)
          /\ credited' = credited \cup {Head(events)}
      BY <2>1 DEF Tether!Deliver
    <3>2. /\ Head(events) = events[1] /\ 1 \in 1 .. Len(events) /\ Head(events) \in Payments
          /\ events' \in Seq(Payments)
          /\ \A i \in 1 .. Len(events') : i + 1 \in 1 .. Len(events) /\ events'[i] = events[i + 1]
      BY <1>2, <3>1
    <3>3. Reported' \subseteq Reported /\ Head(events) \in Reported
      BY <3>2 DEF Reported
    <3> QED BY <1>1, <1>2, <3>1, <3>2, <3>3 DEF Settlements
  <2>2. ASSUME NEW q \in Quotes, Tether!Check(q)
        PROVE  /\ events' \in Seq(Payments) /\ credited' \subseteq Payments
               /\ Settlements' \subseteq Settlements
    <3>1. /\ q \in DOMAIN paid /\ events' = events
          /\ credited' = credited \cup {Tether!Payment(q, paid[q])}
      BY <2>2 DEF Tether!Check
    <3>2. Tether!Payment(q, paid[q]) \in Payments
      BY <1>2, <3>1 DEF Payments, Tether!Payment
    <3> QED BY <1>1, <1>2, <3>1, <3>2 DEF Settlements, Reported
  <2> QED BY <2>1, <2>2
<1>4. RailTyped'
  BY <1>1, <1>3 DEF RailInv, RailTyped
<1>5. Tether!Safe' = Tether!Safe
  BY <1>1 DEF Tether!Safe
<1>6. CursorOK' /\ AnswerOK' /\ BookOK'
  BY <1>1, <1>5 DEF RailInv, CursorOK, AnswerOK, BookOK, Tether!NothingSkipped
<1>7. SettledOK'
  BY <1>1, <1>3, <1>5 DEF RailInv, SettledOK
<1>8. OnePerQuote'
  BY <1>3 DEF RailInv, OnePerQuote
<1> QED
  BY <1>4, <1>6, <1>7, <1>8 DEF RailInv

\* That a quote grows too old changes nothing else yet.
LEMMA AgeKeeps ==
    ASSUME RailInv, NEW q \in Quotes, Tether!Age(q)
    PROVE  RailInv'
<1>1. /\ age' = [age EXCEPT ![q] = "over"]
      /\ UNCHANGED <<chain, asksFor, book, paid, handled, next, answer, events, credited,
                     restarts, since>>
  BY DEF Tether!Age, Tether!state
<1>2. age \in [Quotes -> Tether!Ages] /\ \A r \in Quotes : age[r] # "none" => age'[r] # "none"
  BY <1>1 DEF RailInv, RailTyped
<1>3. RailTyped'
  BY <1>1, <1>2 DEF RailInv, RailTyped, Tether!Ages
<1>4. Settlements' = Settlements /\ Tether!Safe' = Tether!Safe
  BY <1>1 DEF Settlements, Reported, Tether!Payment, Tether!Safe
<1>5. CursorOK' /\ AnswerOK'
  BY <1>1, <1>4 DEF RailInv, CursorOK, AnswerOK, Tether!NothingSkipped
<1>6. BookOK'
  BY <1>1, <1>2 DEF RailInv, BookOK
<1>7. \A p \in Settlements : p.quote \in Quotes
  BY SettlementsTyped DEF Payments
<1>8. SettledOK'
  BY <1>1, <1>2, <1>4, <1>7 DEF RailInv, SettledOK
<1>9. OnePerQuote'
  BY <1>4 DEF RailInv, OnePerQuote
<1> QED
  BY <1>3, <1>5, <1>6, <1>8, <1>9 DEF RailInv

\* A restart forgets all but the chain, and what was told and credited.
LEMMA RestartKeeps ==
    ASSUME RailInv, Tether!Restart
    PROVE  RailInv'
<1>1. /\ restarts' = restarts + 1
      /\ book' = Tether!Empty /\ paid' = Tether!Empty /\ handled' = {}
      /\ next' = 0 /\ answer' = Tether!NoAnswer /\ events' = <<>> /\ since' = 0
      /\ UNCHANGED <<chain, asksFor, age, credited>>
  BY DEF Tether!Restart, Tether!NotPolled
<1>2. DOMAIN Tether!Empty = {}
  BY DEF Tether!Empty
<1>3. RailTyped'
  BY <1>1, <1>2 DEF RailInv, RailTyped
<1>4. Tether!Safe' = Tether!Safe /\ Tether!Safe \in Nat
  BY <1>1, SafeFacts DEF Tether!Safe
<1>5. CursorOK'
  BY <1>1, <1>4 DEF CursorOK, Tether!NothingSkipped, Tether!NotPolled
<1>6. AnswerOK' /\ BookOK'
  BY <1>1, <1>2 DEF AnswerOK, BookOK
<1>7. Settlements' \subseteq Settlements
  BY <1>1, <1>2 DEF Settlements, Reported
<1>8. SettledOK'
  BY <1>1, <1>2, <1>4, <1>7 DEF RailInv, SettledOK, Tether!NotPolled
<1>9. OnePerQuote'
  BY <1>7 DEF RailInv, OnePerQuote
<1> QED
  BY <1>3, <1>5, <1>6, <1>8, <1>9 DEF RailInv

\* The source answers from the cursor on, and from behind every payment known.
LEMMA PollKeeps ==
    ASSUME RailInv, Tether!Poll
    PROVE  RailInv'
<1> DEFINE from == IF next = Tether!NotPolled THEN Tether!FirstBlock ELSE next
<1>0. Tether!Safe \in Nat /\ next \in Nat /\ next <= Tether!Safe + 1
  BY SafeFacts DEF RailInv, CursorOK
<1>1. /\ answer' = Tether!AnswerFrom(from)
      /\ UNCHANGED <<chain, asksFor, age, book, paid, handled, next, events, credited,
                     restarts, since>>
  BY DEF Tether!Poll, Tether!state
<1>2. /\ from \in Nat \ {0} /\ from <= Tether!Safe + 1
      /\ next # Tether!NotPolled => from = next
      /\ next = Tether!NotPolled => from = Tether!Safe + 1
  BY <1>0 DEF Tether!NotPolled, Tether!FirstBlock
<1> HIDE DEF from
<1>3. /\ answer'.first = from /\ answer'.last \in Nat /\ answer'.next = answer'.last + 1
      /\ answer'.first <= answer'.next /\ answer'.last <= Tether!Safe
  BY <1>0, <1>1, <1>2, TransferAssumption DEF Tether!AnswerFrom
<1>4. RailTyped'
  BY <1>1 DEF RailInv, RailTyped
<1>5. Settlements' = Settlements /\ Tether!Safe' = Tether!Safe
  BY <1>1 DEF Settlements, Reported, Tether!Payment, Tether!Safe
<1>6. CursorOK'
  BY <1>1, <1>5 DEF RailInv, CursorOK, Tether!NothingSkipped
<1>7. AnswerOK'
  BY <1>1, <1>2, <1>3, <1>5 DEF AnswerOK
<1>8. BookOK'
  BY <1>1 DEF RailInv, BookOK
<1>9. \A p \in Settlements : p.block < from
  BY <1>0, <1>2 DEF RailInv, SettledOK
<1>10. SettledOK'
  BY <1>1, <1>3, <1>5, <1>9 DEF RailInv, SettledOK
<1>11. OnePerQuote'
  BY <1>5 DEF RailInv, OnePerQuote
<1> QED
  BY <1>4, <1>6, <1>7, <1>8, <1>10, <1>11 DEF RailInv

\* What a batch settles is of quotes that were in the book.
Fresh(s, p) ==
    /\ p.quote \in DOMAIN s.paid \ DOMAIN paid
    /\ p.block = s.paid[p.quote]

\* A batch settles quotes of the book, each by a block it has just read.
LEMMA SettleKeeps ==
    ASSUME RailInv, Tether!Settle
    PROVE  RailInv'
<1> DEFINE s == Tether!Matched(Tether!Now)
<1>1. /\ answer # Tether!NoAnswer
      /\ book' = Tether!Settled.open /\ paid' = Tether!Settled.paid
      /\ handled' = Tether!Settled.seen /\ events' = events \o Tether!Settled.settled
      /\ next' = answer.next /\ answer' = Tether!NoAnswer
      /\ since' = IF next = Tether!NotPolled THEN answer.first ELSE since
      /\ UNCHANGED <<chain, asksFor, age, credited, restarts>>
  BY DEF Tether!Settle
<1>2. After(s, answer.last)
  BY <1>1, MatchedAfter, TransferAssumption
<1>3. Tether!Settled = [s EXCEPT !.open = Tether!Retained(@)]
  BY DEF Tether!Settled
<1> HIDE DEF s
<1>4. /\ book' = Tether!Retained(s.open) /\ paid' = s.paid
      /\ handled' = s.seen /\ events' = events \o s.settled
  BY <1>1, <1>2, <1>3 DEF After, Shaped
<1>5. /\ DOMAIN book' \subseteq DOMAIN s.open
      /\ \A m \in DOMAIN book' : m \in DOMAIN book /\ book'[m] = book[m]
  BY <1>2, <1>4 DEF Tether!Retained, After, Takes
<1>6. /\ answer.first \in Nat \ {0} /\ answer.last \in Nat
      /\ answer.next = answer.last + 1
      /\ answer.first <= answer.next /\ answer.last <= Tether!Safe
      /\ next # Tether!NotPolled => answer.first = next
  BY <1>1 DEF RailInv, AnswerOK
<1>7. /\ Tether!Safe' = Tether!Safe /\ Tether!Safe \in Nat
      /\ events \in Seq(Payments) /\ s.settled \in Seq(Payments)
      /\ next \in Nat /\ since \in Nat
  BY <1>1, <1>2, SafeFacts DEF Tether!Safe, RailInv, RailTyped, CursorOK, After, Reports
<1>8. ASSUME NEW p, Fresh(s, p)
      PROVE  /\ p.block \in answer.first .. answer.last
             /\ chain[p.block] \in DOMAIN book /\ book[chain[p.block]] = p.quote
             /\ asksFor[p.quote] = chain[p.block]
             /\ p.quote \in Quotes /\ age[p.quote] # "none"
  <2>1. /\ p.block \in Reads(answer.last)
        /\ chain[p.block] \in DOMAIN book /\ book[chain[p.block]] = p.quote
    BY <1>2, <1>8 DEF Fresh, After, Pays
  <2> QED BY <2>1 DEF Reads, RailInv, BookOK
<1>9. ASSUME NEW p \in Settlements' PROVE p \in Settlements \/ Fresh(s, p)
  <2>1. CASE p \in credited'
    BY <1>1, <2>1 DEF Settlements
  <2>2. CASE p \in Reported'
    <3>1. PICK i \in 1 .. Len(events') : p = events'[i]
      BY <2>2 DEF Reported
    <3>2. /\ Len(events) \in Nat /\ Len(s.settled) \in Nat
          /\ Len(events') = Len(events) + Len(s.settled)
          /\ \A j \in 1 .. Len(events') :
                events'[j] = IF j <= Len(events) THEN events[j] ELSE s.settled[j - Len(events)]
      BY <1>4, <1>7
    <3>3. CASE i <= Len(events)
      BY <3>1, <3>2, <3>3 DEF Settlements, Reported
    <3>4. CASE ~(i <= Len(events))
      <4>1. i - Len(events) \in 1 .. Len(s.settled) /\ p = s.settled[i - Len(events)]
        BY <3>1, <3>2, <3>4
      <4> QED BY <1>2, <4>1 DEF Fresh, After, Reports
    <3> QED BY <3>3, <3>4
  <2>3. ASSUME NEW q \in DOMAIN paid', p = Tether!Payment(q, paid'[q])
        PROVE  p \in Settlements \/ Fresh(s, p)
    <3>1. p.quote = q /\ p.block = s.paid[q]
      BY <1>4, <2>3 DEF Tether!Payment
    <3>2. CASE q \in DOMAIN paid
      <4>1. paid'[q] = paid[q]
        BY <1>2, <1>4, <3>2 DEF After, Pays
      <4> QED BY <2>3, <3>2, <4>1 DEF Settlements
    <3>3. CASE q \notin DOMAIN paid
      BY <1>4, <3>1, <3>3 DEF Fresh
    <3> QED BY <3>2, <3>3
  <2> QED BY <2>1, <2>2, <2>3 DEF Settlements, Tether!Payment
<1>10. ASSUME NEW p \in Settlements
       PROVE  /\ p.block \in 1 .. Tether!Safe /\ p.block < answer.first
              /\ chain[p.block] = asksFor[p.quote] /\ age[p.quote] # "none"
              /\ \A m \in DOMAIN book : book[m] # p.quote
  BY <1>1 DEF RailInv, SettledOK
<1>11. RailTyped'
  <2>1. events' \in Seq(Payments)
    BY <1>4, <1>7
  <2>2. ASSUME NEW q \in DOMAIN paid' PROVE q \in Quotes /\ paid'[q] \in Nat
    <3>1. CASE q \in DOMAIN paid
      BY <1>2, <1>4, <3>1 DEF After, Pays, RailInv, RailTyped
    <3>2. CASE q \notin DOMAIN paid
      <4>1. /\ paid'[q] \in Reads(answer.last)
            /\ chain[paid'[q]] \in DOMAIN book /\ book[chain[paid'[q]]] = q
        BY <1>2, <1>4, <2>2, <3>2 DEF After, Pays
      <4>2. q \in Quotes
        BY <4>1 DEF RailInv, BookOK
      <4>3. paid'[q] \in Nat
        BY <1>6, <4>1 DEF Reads
      <4> QED BY <4>2, <4>3
    <3> QED BY <3>1, <3>2
  <2> QED BY <1>1, <2>1, <2>2 DEF RailInv, RailTyped
<1>12. CursorOK'
  <2>1. ASSUME NEW c \in handled' PROVE c \in 1 .. next' - 1
    <3>1. CASE c \in handled
      <4>1. c \in 1 .. next - 1
        BY <3>1 DEF RailInv, CursorOK
      <4>2. next # Tether!NotPolled
        BY <1>7, <4>1 DEF Tether!NotPolled
      <4> QED BY <1>1, <1>6, <1>7, <4>1, <4>2
    <3>2. CASE c \in Reads(answer.last)
      BY <1>1, <1>6, <3>2 DEF Reads
    <3> QED BY <1>2, <1>4, <3>1, <3>2 DEF After, Remembers
  <2>2. ASSUME NEW b \in since' .. next' - 1, since' # Tether!NotPolled,
               chain[b] # Tether!NoTransfer
        PROVE  b \in handled'
    <3>1. CASE b \in Reads(answer.last)
      BY <1>2, <1>4, <2>2, <3>1 DEF After, Remembers
    <3>2. CASE b \notin Reads(answer.last)
      <4>1. next # Tether!NotPolled /\ since' = since
        BY <1>1, <1>6, <1>7, <2>2, <3>2 DEF Reads
      <4>2. b \in since .. next - 1
        BY <1>1, <1>6, <1>7, <2>2, <3>2, <4>1 DEF Reads
      <4>3. b \in handled
        BY <2>2, <4>1, <4>2 DEF RailInv, CursorOK, Tether!NothingSkipped
      <4> QED BY <1>2, <1>4, <4>3 DEF After, Remembers
    <3> QED BY <3>1, <3>2
  <2>3. next' \in Nat /\ since' \in Nat /\ next' <= Tether!Safe' + 1
    BY <1>1, <1>6, <1>7
  <2> QED BY <1>1, <2>1, <2>2, <2>3 DEF CursorOK, Tether!NothingSkipped
<1>13. AnswerOK'
  BY <1>1 DEF AnswerOK
<1>14. BookOK'
  BY <1>1, <1>5 DEF RailInv, BookOK
<1>15. SettledOK'
  <2>1. SUFFICES ASSUME NEW p \in Settlements'
                 PROVE  /\ p.block \in 1 .. Tether!Safe /\ p.block < answer.next
                        /\ chain[p.block] = asksFor[p.quote] /\ age[p.quote] # "none"
                        /\ \A m \in DOMAIN book' : book'[m] # p.quote
    BY <1>1, <1>7 DEF SettledOK
  <2>2. CASE p \in Settlements
    <3>1. p.block < answer.next
      BY <1>6, <1>10, <2>2
    <3> QED BY <1>5, <1>10, <2>2, <3>1
  <2>3. CASE Fresh(s, p)
    <3>1. /\ p.block \in answer.first .. answer.last
          /\ chain[p.block] \in DOMAIN book /\ book[chain[p.block]] = p.quote
          /\ asksFor[p.quote] = chain[p.block]
          /\ p.quote \in Quotes /\ age[p.quote] # "none"
      BY <1>8, <2>3
    <3>2. p.block \in 1 .. Tether!Safe /\ p.block < answer.next
      BY <1>6, <1>7, <3>1
    <3>3. ASSUME NEW m \in DOMAIN book' PROVE book'[m] # p.quote
      <4>1. SUFFICES ASSUME book[m] = p.quote PROVE FALSE
        BY <1>5
      <4>2. m = chain[p.block]
        BY <1>5, <3>1, <4>1 DEF RailInv, BookOK
      <4>3. m \in DOMAIN s.open /\ p.block \in Reads(answer.last)
        BY <1>5, <3>1 DEF Reads
      <4> QED BY <1>2, <4>2, <4>3 DEF After, Takes
    <3> QED BY <3>1, <3>2, <3>3
  <2> QED BY <1>9, <2>2, <2>3
<1>16. OnePerQuote'
  <2>1. SUFFICES ASSUME NEW p \in Settlements', NEW o \in Settlements'
                 PROVE  o.quote = p.quote <=> o.block = p.block
    BY DEF OnePerQuote
  <2>2. ASSUME NEW f, Fresh(s, f), NEW g \in Settlements
        PROVE  g.quote # f.quote /\ g.block # f.block
    <3>1. /\ f.block \in answer.first .. answer.last
          /\ chain[f.block] \in DOMAIN book /\ book[chain[f.block]] = f.quote
      BY <1>8, <2>2
    <3>2. /\ g.block \in 1 .. Tether!Safe /\ g.block < answer.first
          /\ \A m \in DOMAIN book : book[m] # g.quote
      BY <1>10, <2>2
    <3> QED BY <1>6, <3>1, <3>2
  <2>3. CASE Fresh(s, p) /\ Fresh(s, o)
    <3>1. book[chain[p.block]] = p.quote /\ book[chain[o.block]] = o.quote
      BY <1>8, <2>3
    <3> QED BY <2>3, <3>1 DEF Fresh
  <2>4. CASE p \in Settlements /\ o \in Settlements
    BY <2>4 DEF RailInv, OnePerQuote
  <2> QED BY <1>9, <2>1, <2>2, <2>3, <2>4
<1> QED
  BY <1>11, <1>12, <1>13, <1>14, <1>15, <1>16 DEF RailInv

\* Every step of the rail and of what surrounds it.
LEMMA StepRail == RailInv /\ [Tether!Next]_(Tether!vars) => RailInv'
<1> SUFFICES ASSUME RailInv, [Tether!Next]_(Tether!vars)
             PROVE  RailInv'
  OBVIOUS
<1>1. CASE UNCHANGED Tether!vars
  BY <1>1 DEF Tether!vars, Tether!state, RailInv, RailTyped, CursorOK, AnswerOK, BookOK,
     SettledOK, OnePerQuote, Settlements, Reported, Tether!Payment, Tether!Safe,
     Tether!NothingSkipped
<1>2. CASE Tether!Next
  BY <1>2, MineKeeps, OpenKeeps, RecordKeeps, AgeKeeps, PollKeeps, SettleKeeps,
     RestartKeeps DEF Tether!Next
<1> QED
  BY <1>1, <1>2

\* No transfer pays two quotes and no quote is paid twice, though amounts are given out
\* again, the cursor starts anew after a kill and a payment reaches cdk on two ways; and
\* behind the cursor no transfer was passed over.
THEOREM TransfersSettleQuotesHolds == Spec => []TransfersSettleQuotes
<1> DEFINE Here == part = "usdt"
           Inv == Here => RailInv
<1>1. Init => Inv
  BY InitRail DEF Init
<1>2. Inv /\ [Next]_vars => Inv'
  <2>1. Here /\ [Next]_vars => [Tether!Next]_(Tether!vars)
    BY DEF Next, vars, from16, from13, from10, from9, Tether!vars, Tether!state
  <2>2. [Next]_vars => (Here' <=> Here)
    BY DEF Next, vars
  <2> QED
    BY <2>1, <2>2, StepRail
<1>3. Inv => TransfersSettleQuotes
  <2>1. RailInv => Tether!OneTransferPerQuote
    BY DEF RailInv, SettledOK, OnePerQuote, Settlements, Tether!OneTransferPerQuote
  <2> QED
    BY <2>1 DEF RailInv, CursorOK, TransfersSettleQuotes, Tether!TransfersSettleQuotes
<1> QED
  BY <1>1, <1>2, <1>3, PTL DEF Spec

\* A step that takes a quote out of the book pays it, or read no block that pays it.
LEMMA StepPays ==
    ASSUME RailInv, [Tether!Next]_(Tether!vars)
    PROVE  Tether!LeavesPaid
<1> SUFFICES ASSUME NEW q \in Quotes, Tether!InBook(q), ~Tether!InBook(q)',
                    restarts' = restarts, q \notin DOMAIN paid'
             PROVE  \A b \in answer.first .. answer.last : chain[b] # asksFor[q]
  BY DEF Tether!LeavesPaid
<1>1. PICK m \in DOMAIN book : book[m] = q
  BY DEF Tether!InBook, Tether!Range
<1>2. \A k \in DOMAIN book' : book'[k] # q
  BY DEF Tether!InBook, Tether!Range
<1>3. asksFor[q] = m
  BY <1>1 DEF RailInv, BookOK
<1>4. CASE Tether!Settle
  <2> DEFINE s == Tether!Matched(Tether!Now)
  <2>1. /\ answer # Tether!NoAnswer /\ paid' = Tether!Settled.paid
        /\ Tether!Settled = [s EXCEPT !.open = Tether!Retained(@)]
    BY <1>4 DEF Tether!Settle, Tether!Settled
  <2>2. After(s, answer.last)
    BY <2>1, MatchedAfter, TransferAssumption
  <2> HIDE DEF s
  <2>3. q \notin DOMAIN s.paid
    BY <2>1, <2>2 DEF After, Shaped
  <2>4. m \in DOMAIN s.open
    BY <1>1, <2>2, <2>3 DEF After, Pays
  <2> QED BY <1>3, <2>2, <2>4 DEF After, Takes, Reads
<1>5. CASE Tether!Restart
  BY <1>5 DEF Tether!Restart, RailInv, RailTyped
<1>6. CASE \E r \in Quotes, amount \in Amounts : Tether!OpenQuote(r, amount)
  BY <1>1, <1>2, <1>6 DEF Tether!OpenQuote, Tether!With
<1>7. CASE book' = book
  BY <1>1, <1>2, <1>7
<1> QED
  BY <1>4, <1>5, <1>6, <1>7 DEF Tether!Next, Tether!vars, Tether!state, Tether!Mine,
     Tether!Check, Tether!Age, Tether!Poll, Tether!Deliver

\* A quote leaves the book paid, or no block just read pays it: of the blocks a call
\* reads, the payments are matched before that call purges the old quotes.
THEOREM QuotesLeavePaidHolds == Spec => QuotesLeavePaid
<1> DEFINE Here == part = "usdt"
           Inv == Here => RailInv
<1>1. Init => Inv
  BY InitRail DEF Init
<1>2. Inv /\ [Next]_vars => Inv' /\ (Here => Tether!LeavesPaid)
  <2>1. Here /\ [Next]_vars => [Tether!Next]_(Tether!vars)
    BY DEF Next, vars, from16, from13, from10, from9, Tether!vars, Tether!state
  <2>2. [Next]_vars => (Here' <=> Here)
    BY DEF Next, vars
  <2> QED
    BY <2>1, <2>2, StepRail, StepPays
<1> QED
  BY <1>1, <1>2, PTL DEF Spec, QuotesLeavePaid

=============================================================================
