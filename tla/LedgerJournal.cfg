\* Appends may fail and the process may be killed; r2 is not ASCII.  Once the
\* journal is not UTF-8 no start succeeds and the system stops.
SPECIFICATION Spec
CONSTANTS
    r1 = r1
    r2 = r2
    Ids <- MCIds
    Target <- MCTarget
    ShareHashes <- MCShareHashes
    NonAsciiIds <- MCNonAsciiIds
    WriteErrors = TRUE
    MaxWork <- MCMaxWork
PROPERTY
    ImplementsLedger
CHECK_DEADLOCK FALSE
