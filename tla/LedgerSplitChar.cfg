\* The name of r2 is not ASCII: the journal's torn last line can end inside
\* a character.  The ledger then never starts again, so the run may stop.
SPECIFICATION Spec
CONSTANTS
    r1 = r1
    r2 = r2
    Ids <- MCIds
    Target <- MCTarget
    ShareHashes <- MCShareHashes
    NonAsciiIds = {r2}
    WriteErrors = FALSE
    MaxWork <- MCMaxWork
PROPERTY
    ComesBack
CHECK_DEADLOCK FALSE
