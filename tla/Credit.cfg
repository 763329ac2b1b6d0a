\* The process may be killed at any point, and appends to either journal may
\* fail while it keeps running.
SPECIFICATION Spec
CONSTANTS
    r1 = r1
    r2 = r2
    s1 = s1
    s2 = s2
    s3 = s3
    c1 = c1
    c2 = c2
    Ids <- MCIds
    Target <- MCTarget
    Shares <- MCShares
    Worth <- MCWorth
    Conns <- MCConns
    ConnOf <- MCConnOf
    WriteErrors = TRUE
INVARIANTS
    LeavesAreEarned
    TreeIsTheCredit
PROPERTY
    LeavesNeverMove
