----------------------------- MODULE PoolRouter -----------------------------
(***************************************************************************)
(* The pool routing controller (hashu-proxy/src/router.rs) and the life of *)
(* a routed miner connection (proxy_routed_connection and relay in         *)
(* hashu-proxy/src/stratum/connection.rs).                                 *)
(*                                                                         *)
(* assign and reconcile both read the ledger's active redemptions before   *)
(* they take the router's own lock, so each acts on a list that may be out *)
(* of date.  A connection is in the router's table from its assignment to  *)
(* its release, which may come after its miner has connected again.        *)
(***************************************************************************)
EXTENDS RedemptionBook, FiniteSets

CONSTANTS
    Conns,       \* connection ids, used again after their release
    Miners,      \* bound: miners connected at a time
    Unroutable,  \* redemptions whose pool URL the proxy cannot dial (TLS)
    DeadPools    \* redemptions whose pool does not answer

VARIABLES
    book,     \* the ledger in memory
    pc,       \* where the task of each connection is
    seen,     \* the active redemptions assign read for it
    route,    \* Binding.route: the redemption, or Default
    via,      \* the pool its relay dials or has dialed
    kicked,   \* the value of its kick channel
    held,     \* it fell back less than FALLBACK_HOLD ago
    bound,    \* submit_bindings: what its unanswered share was submitted for
    view      \* the active redemptions reconcile read, or NoView

conn == <<pc, seen, route, via, kicked, held, bound>>
vars == <<book, conn, view>>

Default == "default"
NoShare == "no share"
NoView == <<"none">>

\* In the router's table: assigned and not yet released.
Table == {c \in Conns : pc[c] \in {"dialing", "relaying", "closing"}}

\* routable_active()
RoutableActive == SelectSeq(ActiveIds(book), LAMBDA id : id \notin Unroutable)

InSeq(id, s) == \E i \in DOMAIN s : s[i] = id

-----------------------------------------------------------------------------
\* The ledger, as the melt path and the share crediter change it.

Open(id) ==
    /\ ~Knows(book, id)
    /\ book' = OpenIn(book, id)
    /\ UNCHANGED <<conn, view>>

-----------------------------------------------------------------------------
\* The task of a connection.

\* A miner connects, and assign reads the ledger.
Connect(c) ==
    /\ pc[c] = "idle"
    /\ Cardinality({d \in Conns : pc[d] \in {"assigning", "dialing", "relaying"}}) < Miners
    /\ pc' = [pc EXCEPT ![c] = "assigning"]
    /\ seen' = [seen EXCEPT ![c] = RoutableActive]
    /\ UNCHANGED <<book, route, via, kicked, held, bound, view>>

Load(id) == Cardinality({c \in Table : route[c] = id})

\* pick_route: fewest connections, the oldest on ties, else the default pool.
Picks(active) ==
    IF active = <<>> THEN Default
    ELSE active[CHOOSE i \in DOMAIN active : \A j \in DOMAIN active :
                    /\ Load(active[i]) =< Load(active[j])
                    /\ Load(active[i]) = Load(active[j]) => i =< j]

\* assign, under the router's lock.
Assign(c) ==
    /\ pc[c] = "assigning"
    /\ pc' = [pc EXCEPT ![c] = "dialing"]
    /\ route' = [route EXCEPT ![c] = Picks(seen[c])]
    /\ via' = [via EXCEPT ![c] = route'[c]]
    /\ seen' = [seen EXCEPT ![c] = <<>>]
    /\ UNCHANGED <<book, kicked, held, bound, view>>

DialSucceeds(c) ==
    /\ pc[c] = "dialing"
    /\ via[c] \notin DeadPools
    /\ pc' = [pc EXCEPT ![c] = "relaying"]
    /\ UNCHANGED <<book, seen, route, via, kicked, held, bound, view>>

\* Mutant: the relay falls back, the router's binding does not.
FallBackKeepsBinding(c) ==
    /\ pc[c] = "dialing"
    /\ via[c] \in DeadPools
    /\ via' = [via EXCEPT ![c] = Default]
    /\ held' = [held EXCEPT ![c] = TRUE]
    /\ UNCHANGED <<book, pc, seen, route, kicked, bound, view>>

\* fall_back_to_default: the redemption stays open.
FallBack(c) ==
    /\ pc[c] = "dialing"
    /\ via[c] \in DeadPools
    /\ route' = [route EXCEPT ![c] = Default]
    /\ via' = [via EXCEPT ![c] = Default]
    /\ held' = [held EXCEPT ![c] = TRUE]
    /\ UNCHANGED <<book, pc, seen, kicked, bound, view>>

\* The default pool does not answer either.
DialFails(c) ==
    /\ pc[c] = "dialing"
    /\ via[c] = Default
    /\ pc' = [pc EXCEPT ![c] = "closing"]
    /\ UNCHANGED <<book, seen, route, via, kicked, held, bound, view>>

\* A share goes to the pool; RedemptionBinding::current is sampled.
Submit(c) ==
    /\ pc[c] = "relaying"
    /\ bound[c] = NoShare
    /\ bound' = [bound EXCEPT ![c] = route[c]]
    /\ UNCHANGED <<book, pc, seen, route, via, kicked, held, view>>

\* The pool accepts it.
Accepted(c) ==
    /\ pc[c] = "relaying"
    /\ bound[c] # NoShare
    /\ book' = IF bound[c] = Default THEN book ELSE CreditIn(book, bound[c], 1)
    /\ bound' = [bound EXCEPT ![c] = NoShare]
    /\ UNCHANGED <<pc, seen, route, via, kicked, held, view>>

Close(c) ==
    /\ pc' = [pc EXCEPT ![c] = "closing"]
    /\ bound' = [bound EXCEPT ![c] = NoShare]
    /\ UNCHANGED <<book, seen, route, via, kicked, held, view>>

\* relay sees the kick and drops the miner, or a side closes by itself.
CloseKicked(c) == pc[c] = "relaying" /\ kicked[c] /\ Close(c)
Disconnect(c) == pc[c] = "relaying" /\ Close(c)

Release(c) ==
    /\ pc[c] = "closing"
    /\ pc' = [pc EXCEPT ![c] = "idle"]
    /\ route' = [route EXCEPT ![c] = Default]
    /\ via' = [via EXCEPT ![c] = Default]
    /\ kicked' = [kicked EXCEPT ![c] = FALSE]
    /\ held' = [held EXCEPT ![c] = FALSE]
    /\ UNCHANGED <<book, seen, bound, view>>

\* FALLBACK_HOLD has passed.
HoldExpires(c) ==
    /\ c \in Table /\ held[c]
    /\ held' = [held EXCEPT ![c] = FALSE]
    /\ UNCHANGED <<book, pc, seen, route, via, kicked, bound, view>>

-----------------------------------------------------------------------------
\* run_reconciler: on every tick and every completion.

ReconcileReads ==
    /\ view = NoView
    /\ view' = RoutableActive
    /\ UNCHANGED <<book, conn>>

\* Mutant: only connections on the default pool are moved.
StaleDefaultOnly(c) == route[c] = Default /\ view # <<>> /\ ~held[c]

\* Mutant: only connections of a redemption are moved.
StaleBoundOnly(c) == route[c] # Default /\ ~InSeq(route[c], view)

Stale(c) == IF route[c] = Default THEN view # <<>> /\ ~held[c]
            ELSE ~InSeq(route[c], view)

ReconcileKicks ==
    /\ view # NoView
    /\ kicked' = [c \in Conns |-> kicked[c] \/ (c \in Table /\ Stale(c))]
    /\ view' = NoView
    /\ UNCHANGED <<book, pc, seen, route, via, held, bound>>

-----------------------------------------------------------------------------

Init ==
    /\ book = Empty
    /\ pc = [c \in Conns |-> "idle"]
    /\ seen = [c \in Conns |-> <<>>]
    /\ route = [c \in Conns |-> Default]
    /\ via = [c \in Conns |-> Default]
    /\ kicked = [c \in Conns |-> FALSE]
    /\ held = [c \in Conns |-> FALSE]
    /\ bound = [c \in Conns |-> NoShare]
    /\ view = NoView

Next ==
    \/ \E id \in Ids : Open(id)
    \/ \E c \in Conns :
          \/ Connect(c) \/ Assign(c) \/ DialSucceeds(c) \/ FallBack(c) \/ DialFails(c)
          \/ Submit(c) \/ Accepted(c) \/ CloseKicked(c) \/ Disconnect(c) \/ Release(c)
          \/ HoldExpires(c)
    \/ ReconcileReads
    \/ ReconcileKicks

Safety == Init /\ [][Next]_vars

\* The reconciler ticks, tasks run on, the hold ends, a miner without a
\* connection makes one.  Miners come and go as they like, but while they are
\* routed to a redemption again and again they find shares for it, and its
\* pool answers.
Fairness ==
    /\ WF_vars(ReconcileReads) /\ WF_vars(ReconcileKicks)
    /\ WF_vars(\E c \in Conns : Connect(c))
    /\ \A c \in Conns : /\ WF_vars(Assign(c))
                        /\ WF_vars(DialSucceeds(c))
                        /\ WF_vars(FallBack(c))
                        /\ WF_vars(CloseKicked(c))
                        /\ WF_vars(Release(c))
                        /\ WF_vars(HoldExpires(c))
    /\ \A id \in Ids \ Unroutable :
          /\ SF_vars(\E c \in Conns : route[c] = id /\ Submit(c))
          /\ SF_vars(\E c \in Conns : bound[c] = id /\ Accepted(c))

Spec == Safety /\ Fairness

-----------------------------------------------------------------------------
\* Properties.

Routes == Ids \cup {Default}

TypeOK ==
    /\ book \in Book
    /\ pc \in [Conns -> {"idle", "assigning", "dialing", "relaying", "closing"}]
    /\ seen \in [Conns -> Seq(Ids)]
    /\ route \in [Conns -> Routes] /\ via \in [Conns -> Routes]
    /\ kicked \in [Conns -> BOOLEAN] /\ held \in [Conns -> BOOLEAN]
    /\ bound \in [Conns -> Routes \cup {NoShare}]
    /\ view = NoView \/ view \in Seq(Ids)

\* Work credits the redemption whose pool received it: what the binding says
\* of a connection and of its unanswered share is where its relay sends them,
\* also after a fallback and while the router kicks and re-routes.
CreditFollowsThePool ==
    \A c \in Conns : pc[c] = "relaying" =>
        /\ route[c] = via[c]
        /\ bound[c] \in {NoShare, via[c]}

\* A filled redemption does not keep its miners: a connection that relays to
\* its pool is closed, by the reconciler if nothing else closes it.
FilledReleasesItsMiners ==
    \A c \in Conns, id \in Ids :
        (pc[c] = "relaying" /\ route[c] = id /\ IsComplete(book, id))
            ~> ~(pc[c] = "relaying" /\ route[c] = id)

\* Every redemption whose pool answers is filled in the end.
Served ==
    \A id \in Ids \ (Unroutable \cup DeadPools) :
        Knows(book, id) ~> IsComplete(book, id)

=============================================================================
