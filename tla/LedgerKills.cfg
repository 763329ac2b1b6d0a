\* The process may be killed at any point; appends do not fail otherwise.
SPECIFICATION Spec
CONSTANTS
    r1 = r1
    r2 = r2
    Ids <- MCIds
    Target <- MCTarget
    ShareHashes <- MCShareHashes
    NonAsciiIds = {}
    WriteErrors = FALSE
    MaxWork <- MCMaxWork
INVARIANT
    CompletesAtMostOnce
PROPERTIES
    KeepsPromise
    ComesBack
