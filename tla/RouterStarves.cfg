\* Two miners; the pool of the older redemption does not answer.
SPECIFICATION Spec
CONSTANTS
    r1 = r1
    r2 = r2
    c1 = c1
    c2 = c2
    c3 = c3
    Ids <- MCIds
    Target <- MCTarget
    Conns = {c1, c2, c3}
    Miners = 2
    Unroutable = {}
    DeadPools = {r1}
PROPERTY
    Served
