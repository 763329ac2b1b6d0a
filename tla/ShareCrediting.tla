--------------------------- MODULE ShareCrediting ---------------------------
(***************************************************************************)
(* Crediting accepted shares (hashu-proxy/src/credit.rs) and committing    *)
(* them to the redemption's share tree (hashu-proxy/src/audit.rs).         *)
(*                                                                         *)
(* Every miner connection has a task that takes one pool answer after the  *)
(* other.  For an accepted share it first credits the ledger, under the    *)
(* ledger's lock, and then appends a leaf, under the lock of the trees;    *)
(* other connections run between the two.  The ledger and the trees have a *)
(* journal each, and the process may die between or during the two writes. *)
(***************************************************************************)
EXTENDS RedemptionBook, FiniteSets, SequencesExt

CONSTANTS
    Shares,       \* the shares the pools will accept, each at most once
    Worth,        \* Worth[s]: hashes, 0 when the difficulty is not positive
    Conns,        \* miner connections
    ConnOf,       \* ConnOf[s]: the connection that submits s
    WriteErrors   \* may an append fail without the process dying?

ASSUME CreditingAssumption ==
    /\ Worth \in [Shares -> Nat]
    /\ ConnOf \in [Shares -> Conns]
    /\ WriteErrors \in BOOLEAN

\* The pools accept finitely many shares.
ASSUME SharesAreFinite == IsFiniteSet(Shares)

TotalWork == SumFunction(Worth)

VARIABLES
    up, mem, file, tail, unreadable, worked, completions,  \* RedemptionLedger
    stage,      \* where each share is in its connection's task
    bound,      \* submit_bindings: the redemption sampled at mining.submit
    trees,      \* ShareAudit in memory: the leaves of each redemption
    leafFile,   \* the leaves the terminated lines of its journal replay to
    leafTail,   \* the unterminated last line of that journal, if any
    counted,    \* history: the shares the ledger counted
    lost,       \* history: counted shares whose leaf died with the process
    failed      \* history: an append failed and the process went on

\* Every share is submitted once, so the bound on work never bites.
Ledger == INSTANCE RedemptionLedger WITH
    ShareHashes <- {Worth[s] : s \in Shares},
    NonAsciiIds <- {},
    MaxWork <- TotalWork

ledger == <<up, mem, file, tail, unreadable, worked, completions>>
leaves == <<trees, leafFile, leafTail>>
vars == <<ledger, stage, bound, leaves, counted, lost, failed>>

NoBinding == "none"   \* the share has not been submitted
Stages == {"new", "submitted", "credited", "done"}
Trees == [Ids -> Seq(Shares)]
NoLeaves == [id \in Ids |-> <<>>]

-----------------------------------------------------------------------------
\* The journal of leaves.  Its lines are hex and ASCII: a cut line is torn
\* but never unreadable.

Leaf(id, s) == [op |-> "leaf", id |-> id, share |-> s]
Leaves == [op : {"leaf"}, id : Ids, share : Shares]

Push(t, line) ==
    IF line.op = "leaf" THEN [t EXCEPT ![line.id] = Append(@, line.share)] ELSE t

ReplayedTrees == Push(leafFile, leafTail)

LeafOutcomes == {"line", "unterminated", "nothing", "part"}

JournalLeaf(leaf, outcome) ==
    /\ leafFile' = IF outcome = "line" /\ leafTail = NoTail
                   THEN Push(leafFile, leaf) ELSE leafFile
    /\ leafTail' = CASE outcome = "line" -> NoTail
                     [] outcome = "nothing" -> leafTail
                     [] outcome = "unterminated" /\ leafTail = NoTail -> leaf
                     [] OTHER -> Torn

\* Both files hold what the process has in memory.
OnFile ==
    /\ tail = NoTail /\ leafTail = NoTail
    /\ \A id \in Ids : /\ Knows(file, id) = Knows(mem, id)
                       /\ file.of[id].acc = mem.of[id].acc
    /\ leafFile = trees

\* record() and append() log a failed write and go on: what was on file
\* before is on file with the new record after, unless the append failed.
Appended == failed' = (failed \/ (OnFile /\ ~OnFile'))

-----------------------------------------------------------------------------
\* The task of a connection.

\* One pool answer at a time: the connection's state is locked over both
\* the credit and the leaf.
Busy(c) == \E s \in Shares : ConnOf[s] = c /\ stage[s] = "credited"

\* The binding is sampled when mining.submit goes out.  The redemption the
\* connection serves is in the ledger; it may be complete by now.
Submit(s, id) ==
    /\ up
    /\ stage[s] = "new"
    /\ Knows(mem, id)
    /\ stage' = [stage EXCEPT ![s] = "submitted"]
    /\ bound' = [bound EXCEPT ![s] = id]
    /\ UNCHANGED <<ledger, leaves, counted, lost, failed>>

\* Mutant: an ignored share gets a leaf too.
CreditAcceptedAlwaysLeaf(s) ==
    /\ stage[s] = "submitted"
    /\ ~Busy(ConnOf[s])
    /\ Ledger!CreditShare(bound[s], Worth[s])
    /\ stage' = [stage EXCEPT ![s] = "credited"]
    /\ counted' = IF IsComplete(mem, bound[s]) THEN counted
                  ELSE [counted EXCEPT ![bound[s]] = Append(@, s)]
    /\ UNCHANGED <<bound, leaves, lost>>
    /\ Appended

\* Mutant: newly_completed is not looked at, the filling share has no leaf.
CreditAcceptedSkipsFilling(s) ==
    /\ stage[s] = "submitted"
    /\ ~Busy(ConnOf[s])
    /\ Ledger!CreditShare(bound[s], Worth[s])
    /\ IF IsComplete(mem', bound[s])
       THEN stage' = [stage EXCEPT ![s] = "done"] /\ UNCHANGED counted
       ELSE /\ stage' = [stage EXCEPT ![s] = "credited"]
            /\ counted' = [counted EXCEPT ![bound[s]] = Append(@, s)]
    /\ UNCHANGED <<bound, leaves, lost>>
    /\ Appended

\* The pool accepts s: credit_share_outcome.  A share the ledger ignored,
\* because its redemption was complete before, gets no leaf.
CreditAccepted(s) ==
    /\ stage[s] = "submitted"
    /\ ~Busy(ConnOf[s])
    /\ Ledger!CreditShare(bound[s], Worth[s])
    /\ IF IsComplete(mem, bound[s])
       THEN stage' = [stage EXCEPT ![s] = "done"] /\ UNCHANGED counted
       ELSE /\ stage' = [stage EXCEPT ![s] = "credited"]
            /\ counted' = [counted EXCEPT ![bound[s]] = Append(@, s)]
    /\ UNCHANGED <<bound, leaves, lost>>
    /\ Appended

\* The counted share enters the tree: journal first, then memory.
AppendLeaf(s) ==
    /\ up
    /\ stage[s] = "credited"
    /\ LET leaf == Leaf(bound[s], s)
       IN  /\ \E outcome \in IF WriteErrors THEN LeafOutcomes ELSE {"line"} :
                 JournalLeaf(leaf, outcome)
           /\ trees' = Push(trees, leaf)
    /\ stage' = [stage EXCEPT ![s] = "done"]
    /\ UNCHANGED <<ledger, bound, counted, lost>>
    /\ Appended

Open(id) ==
    /\ Ledger!Open(id)
    /\ UNCHANGED <<stage, bound, leaves, counted, lost>>
    /\ Appended

-----------------------------------------------------------------------------
\* The process dies, and with it every connection and unsettled share.

Dies(alsoLost) ==
    /\ trees' = NoLeaves
    /\ stage' = [s \in Shares |-> IF stage[s] = "new" THEN "new" ELSE "done"]
    /\ lost' = lost \cup alsoLost \cup {s \in Shares : stage[s] = "credited"}
    /\ UNCHANGED <<bound, counted, failed>>

Kill == Ledger!Kill /\ Dies({}) /\ UNCHANGED <<leafFile, leafTail>>

KillDuringOpen(id) ==
    /\ Ledger!KillDuringOpen(id)
    /\ Dies({})
    /\ UNCHANGED <<leafFile, leafTail>>

KillDuringCredit(s) ==
    /\ stage[s] = "submitted"
    /\ ~Busy(ConnOf[s])
    /\ Ledger!KillDuringCredit(bound[s], Worth[s])
    /\ Dies({s})
    /\ UNCHANGED <<leafFile, leafTail>>

\* The record may be on file in full: then the leaf is not lost.
KillDuringLeaf(s) ==
    /\ up
    /\ stage[s] = "credited"
    /\ Ledger!Kill
    /\ \E outcome \in LeafOutcomes : JournalLeaf(Leaf(bound[s], s), outcome)
    /\ Dies({})

\* Mutant: a last line without a newline is read but not terminated.
RestoreTreesUnterminated == UNCHANGED <<leafFile, leafTail>>

\* run_daemon: the ledger first, then the trees.
RestoreTrees == leafFile' = ReplayedTrees /\ leafTail' = NoTail

Start ==
    /\ Ledger!Start
    /\ RestoreTrees
    /\ trees' = ReplayedTrees
    /\ UNCHANGED <<stage, bound, counted, lost, failed>>

StartFails ==
    /\ Ledger!StartFails
    /\ RestoreTrees \/ UNCHANGED <<leafFile, leafTail>>
    /\ UNCHANGED <<trees, stage, bound, counted, lost, failed>>

-----------------------------------------------------------------------------

Init ==
    /\ Ledger!Init
    /\ stage = [s \in Shares |-> "new"]
    /\ bound = [s \in Shares |-> NoBinding]
    /\ trees = NoLeaves
    /\ leafFile = NoLeaves
    /\ leafTail = NoTail
    /\ counted = NoLeaves
    /\ lost = {}
    /\ failed = FALSE

Next ==
    \/ \E s \in Shares :
          \/ \E id \in Ids : Submit(s, id)
          \/ CreditAccepted(s)
          \/ AppendLeaf(s)
          \/ KillDuringCredit(s)
          \/ KillDuringLeaf(s)
    \/ \E id \in Ids : Open(id) \/ KillDuringOpen(id)
    \/ Kill
    \/ Start
    \/ StartFails

Spec == Init /\ [][Next]_vars

-----------------------------------------------------------------------------
\* Properties.

\* The leaves and the credit as a redeemer can see them: now, or after the
\* next start.
EffectiveTrees == IF up THEN trees ELSE ReplayedTrees
Work(leafSeq) == SumFunction([i \in DOMAIN leafSeq |-> Worth[leafSeq[i]]])

TypeOK ==
    /\ Ledger!TypeOK
    /\ stage \in [Shares -> Stages]
    /\ bound \in [Shares -> Ids \cup {NoBinding}]
    /\ trees \in Trees
    /\ leafFile \in Trees
    /\ leafTail \in Leaves \cup {NoTail, Torn}
    /\ counted \in Trees
    /\ lost \subseteq Shares
    /\ failed \in BOOLEAN

\* Every leaf is a share the ledger counted for that redemption, and no
\* share has two leaves: not across connections, restarts or failed writes.
LeavesAreEarned ==
    \A t \in {trees, ReplayedTrees}, id \in Ids :
        /\ \A i, j \in DOMAIN t[id] : t[id][i] = t[id][j] => i = j
        /\ Range(t[id]) \subseteq Range(counted[id])

\* As long as no append has failed the tree never commits to more work than
\* the ledger has credited, at any moment and after any kill.
TreeWithinCredit ==
    ~failed => \A id \in Ids :
        Work(EffectiveTrees[id]) =< Ledger!Effective.of[id].acc

\* Once no connection is between its credit and its leaf, the tree commits to
\* exactly the credited work, unless an append failed or a kill took a leaf.
TreeCoversCredit ==
    ~failed /\ up /\ lost = {} /\ (\A c \in Conns : ~Busy(c)) =>
        \A id \in Ids : Work(trees[id]) = mem.of[id].acc

\* The trees commit to the credit: the two, and the types of what they speak of.
TreeIsTheCredit == TypeOK /\ TreeWithinCredit /\ TreeCoversCredit

\* A leaf keeps its seq for good: as long as no append has failed the trees
\* only grow at the end, also over a kill and the restart that follows.  A
\* proof served for a leaf stays a proof for that leaf.
LeavesNeverMove ==
    [][~failed => \A id \in Ids :
          IsPrefix(EffectiveTrees[id], EffectiveTrees'[id])]_vars

=============================================================================
