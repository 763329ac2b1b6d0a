\* The pool re-issues the extranonce while a share is in flight.
SPECIFICATION Spec
CONSTANTS
    a = a
    b = b
    Extranonces = {a, b}
    Difficulties <- OneDifficulty
    MAX_JOBS = 2
    MAX_HELD = 2
    MaxIssued = 1
    MaxChanges = 1
    MaxShares = 1
    QueueBound = 2
INVARIANT
    LeafIsTheShare
CHECK_DEADLOCK FALSE
