----------------------------- MODULE ControlApi -----------------------------
(***************************************************************************)
(* The control API (hashu-proxy/src/control.rs): each request is served in *)
(* a task of its own, over the ledger and over share trees that grow       *)
(* meanwhile.  Clients open redemptions, and ask for the head of a tree    *)
(* and for proofs of its leaves.                                           *)
(***************************************************************************)
EXTENDS ShareTree, FiniteSets, TLC

CONSTANTS
    Handlers,       \* tasks that serve a request
    Evidence,       \* what shares are made of
    None,
    AllowOpen,      \* --control-allow-open
    MaxNow,         \* bound: readings of the clock
    MaxOpens,       \* bound: redemptions opened
    MaxLeaves       \* bound: leaves of all trees

VARIABLES
    now, counter,   \* the clock, in nanoseconds, and COUNTER
    known,          \* the ledger: the ids opened, in order
    trees,          \* ShareAudit: the leaves of each of them
    handler,        \* what each task read of the clock, or None
    opened,         \* the answers to valid POST /redemptions
    proof           \* the last proof a client was given

vars == <<now, counter, known, trees, handler, opened, proof>>

Busy == {h \in Handlers : handler[h] # None}

-----------------------------------------------------------------------------
\* POST /redemptions.

\* fresh_id reads the clock first, and then the counter.
Accept(h) ==
    /\ AllowOpen
    /\ handler[h] = None
    /\ Len(opened) + Cardinality(Busy) < MaxOpens
    /\ handler' = [handler EXCEPT ![h] = now]
    /\ UNCHANGED <<now, counter, known, trees, opened, proof>>

FreshId(nanos, count) == <<nanos, count>>

\* The ledger refuses an id it knows.
Open(h) ==
    /\ handler[h] # None
    /\ LET id == FreshId(handler[h], counter)
           new == ~Contains(known, id) IN
       /\ opened' = Append(opened, IF new THEN 201 ELSE 400)
       /\ known' = IF new THEN Append(known, id) ELSE known
       /\ trees' = IF new THEN trees @@ (id :> <<>>) ELSE trees
    /\ counter' = counter + 1
    /\ handler' = [handler EXCEPT ![h] = None]
    /\ UNCHANGED <<now, proof>>

-----------------------------------------------------------------------------
\* GET /redemptions/{id}/root and .../proof/{index}.

HeadOf(tree) ==
    [root |-> IF tree = <<>> THEN None ELSE MerkleTreeHash(LayerOf(tree)), leaf_count |-> Len(tree)]

\* Leaf, root and siblings are read under one lock.
LeafProof(tree, idx) ==
    [root |-> HeadOf(tree).root, leaf |-> tree[idx + 1], path |-> InclusionProof(idx, LayerOf(tree))]

\* An unknown redemption or leaf is answered 404.
Prove(id, idx) ==
    /\ idx < Len(trees[id])
    /\ proof' = [of |-> id] @@ LeafProof(trees[id], idx)
    /\ UNCHANGED <<now, counter, known, trees, handler, opened>>

-----------------------------------------------------------------------------
\* The rest of the proxy.

Credit(id, e) ==
    /\ Cardinality(UNION {{<<r, i>> : i \in DOMAIN trees[r]} : r \in DOMAIN trees}) < MaxLeaves
    /\ trees' = [trees EXCEPT ![id] = PushLeaf(@, e)]
    /\ UNCHANGED <<now, counter, known, handler, opened, proof>>

Tick ==
    /\ now < MaxNow
    /\ now' = now + 1
    /\ UNCHANGED <<counter, known, trees, handler, opened, proof>>

Init ==
    /\ now = 0 /\ counter = 0
    /\ known = <<>>
    /\ trees = << >>
    /\ handler = [h \in Handlers |-> None]
    /\ opened = <<>>
    /\ proof = None

Next ==
    \/ \E h \in Handlers : Accept(h) \/ Open(h)
    \/ \E id \in DOMAIN trees : \/ \E e \in Evidence : Credit(id, e)
                                \/ \E idx \in 0..MaxLeaves : Prove(id, idx)
    \/ Tick

Spec == Init /\ [][Next]_vars

-----------------------------------------------------------------------------

TypeOK ==
    /\ counter = Len(opened)
    /\ DOMAIN trees = Range(known)
    /\ Len(opened) + Cardinality(Busy) <= MaxOpens
    /\ \A i \in DOMAIN opened : opened[i] \in {201, 400}

\* control.rs:297 "unique": no request to open a redemption, of several tasks
\* at one reading of the clock, is refused for the id it was given.
IdsAreUnique == 400 \notin Range(opened)

\* A proof taken while shares are credited verifies against the head the tree
\* had at its size, and against no head before or after.
ProofsVerify ==
    proof # None =>
        \A t \in Prefixes(trees[proof.of]) :
            VerifyInclusion(LeafHash(proof.leaf), proof.path, HeadOf(t).root)
                <=> Len(t) = proof.path.tree_size

\* It verifies for its own leaf alone, and for that leaf at no other index.
ProofsBind ==
    proof # None =>
        LET holds(leaf, i) ==
                VerifyInclusion(LeafHash(leaf), [proof.path EXCEPT !.leaf_index = i], proof.root) IN
        \A i \in 0..MaxLeaves :
            /\ holds(proof.leaf, i) => i = proof.path.leaf_index
            /\ \A leaf \in Range(trees[proof.of]) :
                   holds(leaf, proof.path.leaf_index) => leaf = proof.leaf

\* share.rs:8 "Odd nodes at any level are promoted unchanged to the next
\* level": the root computed by halves is the one computed level by level.
RootsByLevels ==
    \A id \in DOMAIN trees :
        trees[id] # <<>> => HeadOf(trees[id]).root = RootByLevels(LayerOf(trees[id]))

\* What a redeemer is told of ids, heads and proofs holds: the four together.
AnswersHold == IdsAreUnique /\ ProofsVerify /\ ProofsBind /\ RootsByLevels

=============================================================================
