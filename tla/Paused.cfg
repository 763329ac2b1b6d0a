\* The mint with two requests to its settings and a test mint, and a quote.
SPECIFICATION Spec
CONSTANTS
    Controls = {h1, h2}
    TestMints = {t1}
    Markups = {0, 5}
    TooHigh = 99
    FlagMarkup = 0
    None = None
    MaxRequests = 2
    MaxQuotes = 1
    MaxKills = 0
PROPERTY
    PausedSellsNothing
CHECK_DEADLOCK FALSE
