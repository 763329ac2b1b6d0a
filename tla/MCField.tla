------------------------------- MODULE MCField -------------------------------
\* Instances, for TLC, of the parts that owe something in the end: the router,
\* the count of the mint's obligations, and the test miner.  They share no state
\* here, so that a behaviour is one of a single part: `part` says of which, and
\* v1 to v16 stand for its variables, as its instance says.
EXTENDS Naturals, TLC

CONSTANTS a, b, c, x, y, None, Unused

VARIABLES part, v1, v2, v3, v4, v5, v6, v7, v8, v9, v10, v11, v12, v13, v14, v15, v16

vars == <<part, v1, v2, v3, v4, v5, v6, v7, v8, v9, v10, v11, v12, v13, v14, v15,
          v16>>

Router == INSTANCE PoolRouter WITH
    Ids <- {a, b, c}, Target <- [id \in {a, b, c} |-> 1], Conns <- {x, y},
    Miners <- 1, Unroutable <- {c}, DeadPools <- {},
    book <- v1, pc <- v2, seen <- v3, route <- v4, via <- v5, kicked <- v6,
    held <- v7, bound <- v8, view <- v9

Capacity == INSTANCE ThhCapacity WITH
    Sales <- {a}, Thh <- (a :> 2),
    Lists <- {{}}, Limits <- {"auto", "off"},
    Counters <- {x}, MaxHours <- 0, MaxChanges <- 1, MaxSwaps <- 1, MaxFaults <- 1,
    stage <- v1, rest <- v2, limit <- v3, manual <- v4, mrr <- v5,
    disk <- v6, owed <- v7, counted <- v8, count <- v9, moved <- v10,
    missed <- v11, phase <- v12, now <- v13, changes <- v14, faults <- v15, swaps <- v16

Miner == INSTANCE TestMiner WITH
    Jobs <- {a, b}, Diffs <- {1}, MaxNonce <- 3, Batch <- 2, MaxExtra <- 1,
    Room <- 1, MaxMessages <- 3, MaxShares <- 2,
    pool <- v1, generation <- v2, snap <- v3, current <- v4, extra <- v5,
    base <- v6, at <- v7, pos <- v8, end <- v9, channel <- v10, sent <- v11,
    answered <- v12, open <- v13, tried <- v14, messages <- v15, shares <- v16

Init ==
    \/ /\ part = "router"
       /\ Router!Init
       /\ v10 = Unused /\ v11 = Unused /\ v12 = Unused /\ v13 = Unused /\ v14 = Unused /\ v15 = Unused /\ v16 = Unused
    \/ /\ part = "capacity"
       /\ Capacity!Init
    \/ /\ part = "miner"
       /\ Miner!Init

Next ==
    /\ UNCHANGED part
    /\ \/ part = "router" /\ Router!Next /\ UNCHANGED <<v10, v11, v12, v13, v14, v15, v16>>
       \/ part = "capacity" /\ Capacity!Next
       \/ part = "miner" /\ Miner!Next

\* A step of one part.
OfRouter(A) == part = "router" /\ A /\ UNCHANGED <<part, v10, v11, v12, v13, v14, v15, v16>>
OfCapacity(A) == part = "capacity" /\ A /\ UNCHANGED part
OfMiner(A) == part = "miner" /\ A /\ UNCHANGED part

\* The fairness each part states, for its own steps.
Fairness ==
    /\ WF_vars(OfRouter(Router!ReconcileReads))
    /\ WF_vars(OfRouter(Router!ReconcileKicks))
    /\ WF_vars(OfRouter(\E d \in {x, y} : Router!Connect(d)))
    /\ \A d \in {x, y} : /\ WF_vars(OfRouter(Router!Assign(d)))
                         /\ WF_vars(OfRouter(Router!DialSucceeds(d)))
                         /\ WF_vars(OfRouter(Router!FallBack(d)))
                         /\ WF_vars(OfRouter(Router!CloseKicked(d)))
                         /\ WF_vars(OfRouter(Router!Release(d)))
                         /\ WF_vars(OfRouter(Router!HoldExpires(d)))
    /\ \A id \in {a, b} :
          /\ SF_vars(OfRouter(\E d \in {x, y} : v4[d] = id /\ Router!Submit(d)))
          /\ SF_vars(OfRouter(\E d \in {x, y} : v8[d] = id /\ Router!Accepted(d)))
    /\ WF_vars(OfCapacity(Capacity!Counting(x)))
    /\ WF_vars(OfCapacity(Capacity!OpenRedemption(a)))
    /\ WF_vars(OfMiner(Miner!Hash))
    /\ WF_vars(OfMiner(Miner!WriteShare))

Spec == Init /\ [][Next]_vars /\ Fairness

-----------------------------------------------------------------------------

\* PoolRouter: a connection of a filled redemption is closed in the end.
FilledReleasesItsMiners ==
    \A d \in {x, y}, id \in {a, b, c} :
        (part = "router" /\ v2[d] = "relaying" /\ v4[d] = id /\ Router!IsComplete(v1, id))
            ~> ~(part = "router" /\ v2[d] = "relaying" /\ v4[d] = id)

\* PoolRouter: a redemption whose pool can be dialed is filled in the end.
Served ==
    \A id \in {a, b} :
        (part = "router" /\ Router!Knows(v1, id)) ~> (part = "router" /\ Router!IsComplete(v1, id))

\* ThhCapacity: once nothing moves any more, what is owed is known.
OwedCatchesUp == <>[](part = "capacity" => (v12 = "serving" => v7 = Capacity!Owed))

\* TestMiner: a change of the pool's state is taken up.
ChangesAreTakenUp ==
    \/ <>[](part = "miner" => (v13 => v4 = v2))
    \/ <>(part = "miner" /\ v7 = "over")

=============================================================================
