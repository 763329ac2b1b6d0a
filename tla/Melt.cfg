\* Appends may fail, the process may be killed, the journal may be lost.
\* With every quote settled and every fault spent nothing is left to do.
SPECIFICATION Spec
CONSTANTS
    r1 = r1
    r2 = r2
    q1 = q1
    q2 = q2
    q3 = q3
    Ids <- MCIds
    Target <- MCTarget
    Quotes <- MCQuotes
    RequestOf <- MCRequestOf
    ShareHashes <- MCShareHashes
    WriteErrors = TRUE
    MaxWork = 6
    MaxFaults = 2
INVARIANTS
    MeltsAreBacked
    PaidIsNeverServedAgain
PROPERTY
    MeltsSettle
CHECK_DEADLOCK FALSE
