\* One part at a time: a kill or a few faults for each, two of everything that
\* may run side by side, and the end of a part is no deadlock.
SPECIFICATION MCSpec
CONSTANTS
    a = a
    b = b
    x = x
    y = y
    z = z
    None = None
    Unused = Unused
    Quotes <- Two
    Thh <- ThreeThenTwo
    Sats <- TwoThenThree
    Fees = {1}
    MaxDrops = 1
    MaxRestarts = 1
    Amounts <- TwoMore
    Confirmations = 1
    MaxRange = 2
    MaxBlocks = 4
    Controls <- Two
    TestMints <- TwoMore
    Markups <- MCMarkups
    TooHigh = 99
    FlagMarkup = 0
    MaxRequests = 3
    MaxQuotes = 1
    MaxKills = 1
    Buys <- Two
    Polls <- TwoMore
    MaxFaults = 1
    TokenProofs <- Two
    ProofThh <- OneThenTwo
    Redeems <- TwoMore
    MinThh = 2
    MaxCuts = 2
    Keysets <- Two
    Relays <- TwoMore
    MaxNow = 1
    MaxRuns = 3
    Seeds <- Two
    Rails <- MCRails
    Prices <- MCPrices
    Proofs <- TwoMore
    MaxStarts = 3
    Sales <- Two
    SaleThh <- OneThenTwo
    Lists <- MCLists
    Limits <- MCLimits
    Counters = {x}
    MaxHours = 1
    MaxChanges = 1
    MaxSwaps = 1
    Redemptions <- Two
    Target <- OneThenTwo
    Conns <- Three
    Miners = 2
    Unroutable = {}
    DeadPools = {a}
    Jobs <- Two
    Diffs = {1}
    MaxNonce = 3
    BatchSize = 2
    MaxExtra = 1
    Room = 1
    MaxMessages = 3
    MaxShares = 2
INVARIANTS
    MCTypeOK
    TransfersSettleQuotes
    PaymentsAreCredited
    SettingsLast
    PaidBuysAreIssued
    NoThhIsLost
    PriceIsTheMarkets
    KeysetsStayListed
    StartsAgree
    CreditFollowsThePool
    CountOffByWhatMoved
    
    AnswersHold
    LeafIsWhatWasJudged
    HashedOnce
PROPERTIES
    QuotesLeavePaid
    NeverSellsBlind
CHECK_DEADLOCK FALSE
