\* One part at a time: a miner that may connect again before its old connection
\* is released and a third redemption whose pool cannot be dialed; a sale
\* with a kill or a failed count; a miner with a pool that talks until it stops.
SPECIFICATION Spec
CONSTANTS
    a = a
    b = b
    c = c
    x = x
    y = y
    None = None
    Unused = Unused
PROPERTIES
    FilledReleasesItsMiners
    Served
    OwedCatchesUp
    ChangesAreTakenUp
CHECK_DEADLOCK FALSE
