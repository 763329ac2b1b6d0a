\* Appends may fail while the process keeps running.
SPECIFICATION Spec
CONSTANTS
    r1 = r1
    r2 = r2
    Ids <- MCIds
    Target <- MCTarget
    ShareHashes <- MCShareHashes
    NonAsciiIds = {}
    WriteErrors = TRUE
    MaxWork <- MCMaxWork
INVARIANTS
    TypeOK
    NeverOverCredited
    OvershootsByLessThanAShare
    ReplayNeverAhead
    CompactionExact
    RestartKeepsMeltOrder
