\* Three jobs against a cap of two, one change of terms, a gate that holds
\* two.  When the pool has no more work to send nothing is left to do.
SPECIFICATION Spec
CONSTANTS
    a = a
    b = b
    Extranonces = {a, b}
    Difficulties <- MCDifficulties
    MAX_JOBS = 2
    MAX_HELD = 2
    MaxIssued = 3
    MaxChanges = 1
    MaxShares = 2
    QueueBound = 2
INVARIANTS
    SubmitsAreSettled
    GateKeepsWork
PROPERTY
    WorkArrives
CHECK_DEADLOCK FALSE
