------------------------ MODULE ShareCreditingProofs ------------------------
(***************************************************************************)
(* Proofs that the share trees hold what the ledger counted and keep what  *)
(* they hold, for any shares, connections and redemptions, over kills and  *)
(* restarts, with and without write errors.                                *)
(*                                                                         *)
(* As in the ledger, two sets of trees describe the journal of leaves: the *)
(* one its terminated lines replay to and the one all its lines replay to. *)
(* A write can move the second back to the first, so what is claimed of    *)
(* the trees a restart would restore must hold of both at every moment.    *)
(***************************************************************************)
EXTENDS ShareCrediting, Sums

L == INSTANCE RedemptionLedgerProofs WITH
    ShareHashes <- {Worth[s] : s \in Shares},
    NonAsciiIds <- {},
    MaxWork <- TotalWork

\* A share that has a leaf is done with, was counted, and has no other leaf.
Earned(t, st, c) ==
    \A id \in Ids :
        /\ \A i, j \in DOMAIN t[id] : t[id][i] = t[id][j] => i = j
        /\ \A i \in DOMAIN t[id] : /\ t[id][i] \in Shares
                                   /\ st[t[id][i]] = "done"
                                   /\ t[id][i] \in Range(c[id])

\* A share between its credit and its leaf was counted for its redemption.
SharesOK ==
    /\ stage \in [Shares -> Stages]
    /\ bound \in [Shares -> Ids \cup {NoBinding}]
    /\ counted \in Trees
    /\ \A s \in Shares : stage[s] \in {"submitted", "credited"} => bound[s] \in Ids
    /\ \A s \in Shares : stage[s] = "credited" => s \in Range(counted[bound[s]])

TreesOK ==
    /\ trees \in Trees /\ leafFile \in Trees
    /\ leafTail \in Leaves \cup {NoTail, Torn}
    /\ Earned(trees, stage, counted)
    /\ Earned(leafFile, stage, counted)
    /\ Earned(ReplayedTrees, stage, counted)

LeafInv == SharesOK /\ TreesOK

-----------------------------------------------------------------------------
\* Lemmas about trees.

\* A leaf goes at the end of its redemption's tree, any other line nowhere.
LEMMA PushDoes ==
  ASSUME NEW t \in Trees, NEW line
  PROVE  /\ line.op # "leaf" => Push(t, line) = t
         /\ line \in Leaves =>
               /\ Push(t, line) \in Trees
               /\ Push(t, line) = [t EXCEPT ![line.id] = Append(t[line.id], line.share)]
<1>1. ASSUME line \in Leaves
      PROVE  /\ Push(t, line) = [t EXCEPT ![line.id] = Append(t[line.id], line.share)]
             /\ line.id \in Ids /\ line.share \in Shares
  BY <1>1 DEF Push, Leaves
<1>2. ASSUME line \in Leaves
      PROVE  Append(t[line.id], line.share) \in Seq(Shares)
  BY <1>1, <1>2 DEF Trees
<1>3. QED
  BY <1>1, <1>2 DEF Push, Trees

\* The trees of a journal are trees, whatever its last line is.
LEMMA ReplayedType ==
  ASSUME leafFile \in Trees, leafTail \in Leaves \cup {NoTail, Torn}
  PROVE  ReplayedTrees \in Trees
<1>1. NoTail.op # "leaf" /\ Torn.op # "leaf"
  BY DEF NoTail, Torn
<1>2. QED
  BY <1>1, PushDoes DEF ReplayedTrees

\* What is earned stays earned: no share goes back from done, no counted
\* share is forgotten.
LEMMA EarnedStays ==
  ASSUME NEW t, NEW st, NEW c, Earned(t, st, c), NEW st2, NEW c2,
         \A s \in Shares : st[s] = "done" => st2[s] = "done",
         \A id \in Ids : Range(c[id]) \subseteq Range(c2[id])
  PROVE  Earned(t, st2, c2)
  BY DEF Earned

\* A counted share that had no leaf gets its first.
LEMMA EarnedPush ==
  ASSUME NEW t \in Trees, NEW st, NEW c, Earned(t, st, c),
         NEW id \in Ids, NEW s \in Shares, st[s] # "done", s \in Range(c[id]),
         NEW st2, st2[s] = "done", \A x \in Shares : st[x] = "done" => st2[x] = "done"
  PROVE  Earned(Push(t, Leaf(id, s)), st2, c)
<1> DEFINE p == Push(t, Leaf(id, s))
           q == t[id]
           n == Len(q)
<1>1. p = [t EXCEPT ![id] = Append(q, s)] /\ t \in [Ids -> Seq(Shares)]
  <2>1. Leaf(id, s) \in Leaves /\ Leaf(id, s).id = id /\ Leaf(id, s).share = s
    BY DEF Leaf, Leaves
  <2> HIDE DEF p, q
  <2>2. Push(t, Leaf(id, s)) = [t EXCEPT ![id] = Append(t[id], s)]
    BY <2>1, PushDoes
  <2>3. QED
    BY <2>2 DEF p, q, Trees
<1>2. Earned(t, st2, c)
  BY EarnedStays
<1>3. \A x \in Ids \ {id} : p[x] = t[x]
  BY <1>1
<1>4. /\ n \in Nat /\ DOMAIN q = 1 .. n
      /\ p[id] = Append(q, s) /\ DOMAIN p[id] = 1 .. n + 1
      /\ \A i \in 1 .. n : p[id][i] = q[i]
      /\ p[id][n + 1] = s
  BY <1>1
<1> HIDE DEF p, n
<1>5. \A i \in 1 .. n : q[i] # s /\ q[i] \in Shares /\ st2[q[i]] = "done" /\ q[i] \in Range(c[id])
  BY <1>2, <1>4 DEF Earned
<1>6. \A i, j \in 1 .. n : q[i] = q[j] => i = j
  BY <1>2, <1>4 DEF Earned
<1>7. \A i, j \in 1 .. n + 1 : p[id][i] = p[id][j] => i = j
  BY <1>4, <1>5, <1>6
<1>8. \A i \in 1 .. n + 1 : p[id][i] \in Shares /\ st2[p[id][i]] = "done" /\ p[id][i] \in Range(c[id])
  BY <1>4, <1>5
<1>9. ASSUME NEW x \in Ids
      PROVE  /\ \A i, j \in DOMAIN p[x] : p[x][i] = p[x][j] => i = j
             /\ \A i \in DOMAIN p[x] : p[x][i] \in Shares /\ st2[p[x][i]] = "done" /\ p[x][i] \in Range(c[x])
  <2>1. CASE x = id
    BY <1>4, <1>7, <1>8, <2>1
  <2>2. CASE x # id
    BY <1>2, <1>3, <2>2 DEF Earned
  <2>3. QED
    BY <2>1, <2>2
<1>10. QED
  BY <1>9 DEF Earned, p

\* A counted share added to its redemption's list leaves the others listed.
LEMMA RangeGrows ==
  ASSUME NEW c \in Trees, NEW id \in Ids, NEW s \in Shares
  PROVE  LET d == [c EXCEPT ![id] = Append(c[id], s)] IN
         /\ d \in Trees
         /\ \A x \in Ids : Range(c[x]) \subseteq Range(d[x])
         /\ s \in Range(d[id])
<1>1. c[id] \in Seq(Shares) /\ Append(c[id], s) \in Seq(Shares)
  BY DEF Trees
<1>2. /\ DOMAIN c[id] = 1 .. Len(c[id]) /\ Len(c[id]) \in Nat
      /\ DOMAIN Append(c[id], s) = 1 .. Len(c[id]) + 1
      /\ \A i \in 1 .. Len(c[id]) : Append(c[id], s)[i] = c[id][i]
      /\ Append(c[id], s)[Len(c[id]) + 1] = s
  BY <1>1
<1>3. /\ Range(c[id]) \subseteq Range(Append(c[id], s))
      /\ s \in Range(Append(c[id], s))
  BY <1>2 DEF Range
<1>4. QED
  BY <1>1, <1>3 DEF Trees

-----------------------------------------------------------------------------
\* The journal of leaves under one append, whatever became of the write.

\* The trees of the terminated lines stay, or gain the leaf; so do the trees
\* of all lines, which can also fall back to those of the terminated ones.
LEMMA LeafOutcome ==
  ASSUME leafFile \in Trees, leafTail \in Leaves \cup {NoTail, Torn},
         NEW leaf \in Leaves, NEW outcome \in LeafOutcomes,
         JournalLeaf(leaf, outcome)
  PROVE  /\ leafTail' \in Leaves \cup {NoTail, Torn}
         /\ leafFile' \in {leafFile, Push(leafFile, leaf)}
         /\ ReplayedTrees' \in {ReplayedTrees, leafFile, Push(leafFile, leaf)}
<1>0. /\ \A t : Push(t, NoTail) = t /\ Push(t, Torn) = t
      /\ leaf \notin {NoTail, Torn}
      /\ Torn # NoTail
  BY DEF Push, NoTail, Torn, Leaves
<1>1. /\ leafFile' = IF outcome = "line" /\ leafTail = NoTail
                     THEN Push(leafFile, leaf) ELSE leafFile
      /\ leafTail' = CASE outcome = "line" -> NoTail
                       [] outcome = "nothing" -> leafTail
                       [] outcome = "unterminated" /\ leafTail = NoTail -> leaf
                       [] OTHER -> Torn
      /\ ReplayedTrees' = Push(leafFile', leafTail')
  BY DEF JournalLeaf, ReplayedTrees
<1>2. CASE outcome = "line"
  <2>1. leafTail' = NoTail /\ ReplayedTrees' = leafFile'
    BY <1>0, <1>1, <1>2
  <2>2. leafFile' \in {leafFile, Push(leafFile, leaf)}
    BY <1>1
  <2>3. QED
    BY <2>1, <2>2
<1>3. CASE outcome = "nothing"
  BY <1>0, <1>1, <1>3 DEF ReplayedTrees
<1>4. CASE outcome = "unterminated" /\ leafTail = NoTail
  BY <1>0, <1>1, <1>4
<1>5. CASE \/ outcome = "part"
           \/ outcome = "unterminated" /\ leafTail # NoTail
  <2>1. leafTail' = Torn /\ leafFile' = leafFile
    BY <1>1, <1>5
  <2>2. QED
    BY <1>0, <1>1, <2>1
<1>6. QED
  BY <1>2, <1>3, <1>4, <1>5 DEF LeafOutcomes

-----------------------------------------------------------------------------
\* LeafInv is inductive.

\* Nothing has been submitted, so no tree has a leaf.
LEMMA InitLeafInv == Init => LeafInv
<1> SUFFICES ASSUME Init PROVE LeafInv
  OBVIOUS
<1>1. SharesOK
  BY DEF Init, SharesOK, Stages, Trees, NoLeaves
<1>2. Push(NoLeaves, NoTail) = NoLeaves
  BY DEF Push, NoTail
<1>3. Earned(NoLeaves, stage, counted)
  BY DEF Earned, NoLeaves
<1>4. TreesOK
  BY <1>2, <1>3 DEF Init, TreesOK, ReplayedTrees, Trees, NoLeaves
<1>5. QED
  BY <1>1, <1>4 DEF LeafInv

\* A step that leaves trees and journal alone keeps every leaf earned.
LEMMA LeavesStay ==
  ASSUME LeafInv, SharesOK', UNCHANGED leaves,
         \A s \in Shares : stage[s] = "done" => stage'[s] = "done",
         \A id \in Ids : Range(counted[id]) \subseteq Range(counted'[id])
  PROVE  LeafInv'
<1>1. UNCHANGED <<trees, leafFile, leafTail>> /\ ReplayedTrees' = ReplayedTrees
  BY DEF leaves, ReplayedTrees
<1>2. /\ Earned(trees, stage', counted')
      /\ Earned(leafFile, stage', counted')
      /\ Earned(ReplayedTrees, stage', counted')
  BY EarnedStays DEF LeafInv, TreesOK
<1>3. QED
  BY <1>1, <1>2 DEF LeafInv, TreesOK

\* The binding is sampled when the share goes out.
LEMMA SubmitStep ==
  ASSUME LeafInv, NEW s \in Shares, NEW id \in Ids, Submit(s, id)
  PROVE  LeafInv'
<1>1. /\ stage[s] = "new"
      /\ stage' = [stage EXCEPT ![s] = "submitted"]
      /\ bound' = [bound EXCEPT ![s] = id]
      /\ UNCHANGED <<leaves, counted>>
  BY DEF Submit
<1>2. SharesOK'
  BY <1>1 DEF LeafInv, SharesOK, Stages
<1>3. \A x \in Shares : stage[x] = "done" => stage'[x] = "done"
  BY <1>1 DEF LeafInv, SharesOK
<1>4. QED
  BY <1>1, <1>2, <1>3, LeavesStay

\* The ledger counts the share, or ignores it because its redemption was
\* complete.
LEMMA CreditStep ==
  ASSUME LeafInv, NEW s \in Shares, CreditAccepted(s)
  PROVE  LeafInv'
<1>1. stage[s] = "submitted" /\ UNCHANGED <<bound, leaves>> /\ bound[s] \in Ids
  BY DEF CreditAccepted, LeafInv, SharesOK
<1>2. CASE IsComplete(mem, bound[s])
  <2>1. stage' = [stage EXCEPT ![s] = "done"] /\ counted' = counted
    BY <1>2 DEF CreditAccepted
  <2>2. SharesOK'
    BY <1>1, <2>1 DEF LeafInv, SharesOK, Stages
  <2>3. \A x \in Shares : stage[x] = "done" => stage'[x] = "done"
    BY <2>1 DEF LeafInv, SharesOK
  <2>4. QED
    BY <1>1, <2>1, <2>2, <2>3, LeavesStay
<1>3. CASE ~IsComplete(mem, bound[s])
  <2>1. /\ stage' = [stage EXCEPT ![s] = "credited"]
        /\ counted' = [counted EXCEPT ![bound[s]] = Append(counted[bound[s]], s)]
    BY <1>3 DEF CreditAccepted
  <2>2. /\ counted' \in Trees
        /\ \A x \in Ids : Range(counted[x]) \subseteq Range(counted'[x])
        /\ s \in Range(counted'[bound[s]])
    <3>1. counted \in Trees /\ s \in Shares
      BY DEF LeafInv, SharesOK
    <3> DEFINE d == [counted EXCEPT ![bound[s]] = Append(counted[bound[s]], s)]
    <3>2. /\ d \in Trees
          /\ \A x \in Ids : Range(counted[x]) \subseteq Range(d[x])
          /\ s \in Range(d[bound[s]])
      BY <1>1, <3>1, RangeGrows
    <3>3. QED
      BY <2>1, <3>2
  <2>3. SharesOK'
    BY <1>1, <2>1, <2>2 DEF LeafInv, SharesOK, Stages
  <2>4. \A x \in Shares : stage[x] = "done" => stage'[x] = "done"
    BY <1>1, <2>1 DEF LeafInv, SharesOK
  <2>5. QED
    BY <1>1, <2>2, <2>3, <2>4, LeavesStay
<1>4. QED
  BY <1>2, <1>3

\* The leaf enters the tree, and the journal or a part of it the file.
LEMMA AppendLeafStep ==
  ASSUME LeafInv, NEW s \in Shares, AppendLeaf(s)
  PROVE  LeafInv'
<1> DEFINE leaf == Leaf(bound[s], s)
<1>1. /\ stage[s] = "credited" /\ bound[s] \in Ids
      /\ stage' = [stage EXCEPT ![s] = "done"]
      /\ trees' = Push(trees, leaf)
      /\ UNCHANGED <<bound, counted>>
  BY DEF AppendLeaf, LeafInv, SharesOK
<1>2. SharesOK'
  BY <1>1 DEF LeafInv, SharesOK, Stages
<1>3. /\ \A x \in Shares : stage[x] = "done" => stage'[x] = "done"
      /\ stage'[s] = "done" /\ stage[s] # "done"
      /\ s \in Range(counted[bound[s]])
  BY <1>1 DEF LeafInv, SharesOK
<1>4. leaf \in Leaves
  BY <1>1 DEF Leaf, Leaves
<1>5. PICK outcome \in LeafOutcomes : JournalLeaf(leaf, outcome)
  BY DEF AppendLeaf, LeafOutcomes
<1>6. /\ leafTail' \in Leaves \cup {NoTail, Torn}
      /\ leafFile' \in {leafFile, Push(leafFile, leaf)}
      /\ ReplayedTrees' \in {ReplayedTrees, leafFile, Push(leafFile, leaf)}
  BY <1>4, <1>5, LeafOutcome DEF LeafInv, TreesOK
<1>7. /\ Earned(leafFile, stage', counted')
      /\ Earned(ReplayedTrees, stage', counted')
  BY <1>1, <1>3, EarnedStays DEF LeafInv, TreesOK
<1>8. /\ Earned(Push(trees, leaf), stage', counted')
      /\ Earned(Push(leafFile, leaf), stage', counted')
  BY <1>1, <1>3, EarnedPush DEF LeafInv, TreesOK
<1>9. Push(trees, leaf) \in Trees /\ Push(leafFile, leaf) \in Trees
  BY <1>4, PushDoes DEF LeafInv, TreesOK
<1>10. QED
  BY <1>1, <1>2, <1>6, <1>7, <1>8, <1>9 DEF LeafInv, TreesOK

\* What the process leaves behind when it dies: every share it had begun is
\* done with, and the leaves on file are earned as before.
LEMMA DiesShares ==
  ASSUME LeafInv, NEW also, Dies(also)
  PROVE  /\ SharesOK'
         /\ trees' = NoLeaves /\ counted' = counted
         /\ \A x \in Shares : stage'[x] \in {"new", "done"}
         /\ \A x \in Shares : stage[x] # "new" => stage'[x] = "done"
<1>1. /\ trees' = NoLeaves /\ counted' = counted /\ bound' = bound
      /\ stage' = [x \in Shares |-> IF stage[x] = "new" THEN "new" ELSE "done"]
  BY DEF Dies
<1>2. QED
  BY <1>1 DEF LeafInv, SharesOK, Stages

\* No tree has a leaf before the process has restored any.
LEMMA NoLeavesEarned ==
  ASSUME NEW st, NEW c
  PROVE  NoLeaves \in Trees /\ Earned(NoLeaves, st, c)
  BY DEF Earned, NoLeaves, Trees

\* The process dies, and no leaf is being written.
LEMMA DiesStep ==
  ASSUME LeafInv, NEW also, Dies(also), UNCHANGED <<leafFile, leafTail>>
  PROVE  LeafInv'
<1>1. /\ SharesOK'
      /\ trees' = NoLeaves /\ counted' = counted
      /\ \A x \in Shares : stage[x] = "done" => stage'[x] = "done"
  BY DiesShares
<1>2. ReplayedTrees' = ReplayedTrees
  BY DEF ReplayedTrees
<1>3. Earned(leafFile, stage', counted') /\ Earned(ReplayedTrees, stage', counted')
  BY <1>1, <1>2, EarnedStays DEF LeafInv, TreesOK
<1>4. QED
  BY <1>1, <1>2, <1>3, NoLeavesEarned DEF LeafInv, TreesOK

\* The process dies with a leaf partly written: if its record is on file in
\* full, the share was counted all the same.
LEMMA KillDuringLeafStep ==
  ASSUME LeafInv, NEW s \in Shares, KillDuringLeaf(s)
  PROVE  LeafInv'
<1> DEFINE leaf == Leaf(bound[s], s)
<1>1. stage[s] = "credited" /\ bound[s] \in Ids /\ s \in Range(counted[bound[s]])
  BY DEF KillDuringLeaf, LeafInv, SharesOK
<1>2. /\ SharesOK'
      /\ trees' = NoLeaves /\ counted' = counted
      /\ \A x \in Shares : stage[x] = "done" => stage'[x] = "done"
      /\ stage'[s] = "done"
  BY <1>1, DiesShares DEF KillDuringLeaf
<1>3. leaf \in Leaves
  BY <1>1 DEF Leaf, Leaves
<1>4. PICK outcome \in LeafOutcomes : JournalLeaf(leaf, outcome)
  BY DEF KillDuringLeaf
<1>5. /\ leafTail' \in Leaves \cup {NoTail, Torn}
      /\ leafFile' \in {leafFile, Push(leafFile, leaf)}
      /\ ReplayedTrees' \in {ReplayedTrees, leafFile, Push(leafFile, leaf)}
  BY <1>3, <1>4, LeafOutcome DEF LeafInv, TreesOK
<1>6. /\ Earned(leafFile, stage', counted')
      /\ Earned(ReplayedTrees, stage', counted')
  BY <1>2, EarnedStays DEF LeafInv, TreesOK
<1>7. Earned(Push(leafFile, leaf), stage', counted')
  BY <1>1, <1>2, EarnedPush DEF LeafInv, TreesOK
<1>8. Push(leafFile, leaf) \in Trees
  BY <1>3, PushDoes DEF LeafInv, TreesOK
<1>9. QED
  BY <1>2, <1>5, <1>6, <1>7, <1>8, NoLeavesEarned DEF LeafInv, TreesOK

\* A start restores the trees from all the lines of the journal.
LEMMA RestoreStep ==
  ASSUME LeafInv,
         RestoreTrees \/ UNCHANGED <<leafFile, leafTail>>,
         trees' \in {trees, ReplayedTrees},
         UNCHANGED <<stage, bound, counted>>
  PROVE  LeafInv' /\ ReplayedTrees' = ReplayedTrees
<1>1. ReplayedTrees \in Trees /\ \A t : Push(t, NoTail) = t
  BY ReplayedType DEF LeafInv, TreesOK, Push, NoTail
<1>2. ReplayedTrees' = ReplayedTrees
  <2>1. ReplayedTrees' = Push(leafFile', leafTail')
    BY DEF ReplayedTrees
  <2>2. QED
    BY <1>1, <2>1 DEF RestoreTrees, ReplayedTrees
<1>3. SharesOK'
  BY DEF LeafInv, SharesOK
<1>4. /\ leafFile' \in {leafFile, ReplayedTrees}
      /\ leafTail' \in {leafTail, NoTail}
  BY DEF RestoreTrees
<1>5. QED
  BY <1>1, <1>2, <1>3, <1>4 DEF LeafInv, TreesOK

\* Every step of the connections and of the process keeps LeafInv.
LEMMA StepLeafInv == LeafInv /\ [Next]_vars => LeafInv'
<1> SUFFICES ASSUME LeafInv, [Next]_vars
             PROVE  LeafInv'
  OBVIOUS
<1>1. ASSUME NEW s \in Shares, NEW id \in Ids, Submit(s, id) PROVE LeafInv'
  BY <1>1, SubmitStep
<1>2. ASSUME NEW s \in Shares, CreditAccepted(s) PROVE LeafInv'
  BY <1>2, CreditStep
<1>3. ASSUME NEW s \in Shares, AppendLeaf(s) PROVE LeafInv'
  BY <1>3, AppendLeafStep
<1>4. ASSUME NEW s \in Shares, KillDuringCredit(s) PROVE LeafInv'
  BY <1>4, DiesStep DEF KillDuringCredit
<1>5. ASSUME NEW s \in Shares, KillDuringLeaf(s) PROVE LeafInv'
  BY <1>5, KillDuringLeafStep
<1>6. ASSUME NEW id \in Ids, Open(id) PROVE LeafInv'
  <2>1. UNCHANGED <<stage, bound, leaves, counted>>
    BY <1>6 DEF Open
  <2>2. SharesOK'
    BY <2>1 DEF LeafInv, SharesOK
  <2>3. QED
    BY <2>1, <2>2, LeavesStay
<1>7. ASSUME NEW id \in Ids, KillDuringOpen(id) PROVE LeafInv'
  BY <1>7, DiesStep DEF KillDuringOpen
<1>8. CASE Kill
  BY <1>8, DiesStep DEF Kill
<1>9. CASE Start
  BY <1>9, RestoreStep DEF Start
<1>10. CASE StartFails
  BY <1>10, RestoreStep DEF StartFails
<1>11. CASE UNCHANGED vars
  <2>1. UNCHANGED <<stage, bound, leaves, counted>>
    BY <1>11 DEF vars
  <2>2. SharesOK'
    BY <2>1 DEF LeafInv, SharesOK
  <2>3. QED
    BY <2>1, <2>2, LeavesStay
<1>12. QED
  BY <1>1, <1>2, <1>3, <1>4, <1>5, <1>6, <1>7, <1>8, <1>9, <1>10, <1>11 DEF Next

\* Every leaf, in memory or in what a restart would restore, is a share the
\* ledger counted for that redemption, and no share has two.
THEOREM LeavesAreEarnedHolds == Spec => []LeavesAreEarned
<1>1. LeafInv => LeavesAreEarned
  <2> SUFFICES ASSUME LeafInv, NEW t \in {trees, ReplayedTrees}, NEW id \in Ids
               PROVE  /\ \A i, j \in DOMAIN t[id] : t[id][i] = t[id][j] => i = j
                      /\ Range(t[id]) \subseteq Range(counted[id])
    BY DEF LeavesAreEarned
  <2>1. Earned(t, stage, counted)
    BY DEF LeafInv, TreesOK
  <2>2. QED
    BY <2>1 DEF Earned, Range
<1>2. QED
  BY <1>1, InitLeafInv, StepLeafInv, PTL DEF Spec

-----------------------------------------------------------------------------
\* The steps of the ledger here are those RedemptionLedgerProofs is about.

\* Opening, or dying in the middle of it.
LEMMA SameOpen ==
  ASSUME NEW id \in Ids
  PROVE  /\ Ledger!Open(id) <=> L!Open(id)
         /\ Ledger!KillDuringOpen(id) <=> L!KillDuringOpen(id)
  BY DEF Ledger!Open, L!Open, Ledger!KillDuringOpen, L!KillDuringOpen,
         Ledger!Record, L!Record, Ledger!JournalAppend, L!JournalAppend,
         Ledger!Outcomes, L!Outcomes, Ledger!Replay, L!Replay, Ledger!Knows, L!Knows,
         Ledger!OpenIn, L!OpenIn, Ledger!CreditIn, L!CreditIn,
         Ledger!CreditHashes, L!CreditHashes, Ledger!New, L!New,
         Ledger!OpenRecord, L!OpenRecord, Ledger!NoTail, L!NoTail, Ledger!Torn, L!Torn,
         Ledger!Down, L!Down, Ledger!Empty, L!Empty, Ledger!Absent, L!Absent

\* Crediting, or dying in the middle of it.
LEMMA SameCredit ==
  ASSUME NEW id \in Ids, NEW s \in Shares
  PROVE  /\ Ledger!CreditShare(id, Worth[s]) <=> L!CreditShare(id, Worth[s])
         /\ Ledger!KillDuringCredit(id, Worth[s]) <=> L!KillDuringCredit(id, Worth[s])
  BY DEF Ledger!CreditShare, L!CreditShare, Ledger!KillDuringCredit, L!KillDuringCredit,
         Ledger!Record, L!Record, Ledger!JournalAppend, L!JournalAppend,
         Ledger!Outcomes, L!Outcomes, Ledger!Replay, L!Replay, Ledger!Knows, L!Knows,
         Ledger!OpenIn, L!OpenIn, Ledger!CreditIn, L!CreditIn,
         Ledger!CreditHashes, L!CreditHashes, Ledger!New, L!New,
         Ledger!CreditRecord, L!CreditRecord, Ledger!NoTail, L!NoTail, Ledger!Torn, L!Torn,
         Ledger!IsComplete, L!IsComplete, Ledger!journal, L!journal,
         Ledger!Down, L!Down, Ledger!Empty, L!Empty, Ledger!Absent, L!Absent

\* Starting, failing to, and dying.
LEMMA SameStart ==
  /\ Ledger!Start <=> L!Start
  /\ Ledger!StartFails <=> L!StartFails
  /\ Ledger!Kill <=> L!Kill
  BY DEF Ledger!Start, L!Start, Ledger!StartFails, L!StartFails, Ledger!Kill, L!Kill,
         Ledger!Replayed, L!Replayed, Ledger!Replay, L!Replay, Ledger!Knows, L!Knows,
         Ledger!OpenIn, L!OpenIn, Ledger!CreditIn, L!CreditIn,
         Ledger!CreditHashes, L!CreditHashes, Ledger!New, L!New,
         Ledger!Compact, L!Compact, Ledger!CompactOne, L!CompactOne,
         Ledger!NoTail, L!NoTail, Ledger!Torn, L!Torn, Ledger!journal, L!journal,
         Ledger!Down, L!Down, Ledger!Empty, L!Empty, Ledger!Absent, L!Absent

\* What a share is worth is a number, as the ledger takes it, and so is what
\* they are worth together.
LEMMA WorthIsNat == {Worth[s] : s \in Shares} \subseteq Nat /\ TotalWork \in Nat
<1>1. Worth \in [Shares -> Nat]
  BY CreditingAssumption
<1>2. TotalWork = SumOver(Worth, Shares)
  BY <1>1 DEF TotalWork, SumFunction, SumFunctionOnSet, FoldFunctionOnSet, MapThenFoldSet,
              SumOver, MapThenSumSet
<1>3. QED
  BY <1>1, <1>2, SumType, SharesAreFinite

\* Init is the ledger's, and so is every step or it is none of the ledger's.
LEMMA LedgerSteps ==
  /\ Init => L!Init
  /\ SharesOK /\ [Next]_vars => [L!Next]_(L!vars)
<1>1. Init => L!Init
  BY DEF Init, Ledger!Init, L!Init, Ledger!Empty, L!Empty, Ledger!Absent, L!Absent,
         Ledger!NoTail, L!NoTail
<1>2. ASSUME SharesOK, [Next]_vars
      PROVE  [L!Next]_(L!vars)
  <2>1. ASSUME NEW s \in Shares, CreditAccepted(s) \/ KillDuringCredit(s)
        PROVE  L!Next
    <3>1. bound[s] \in Ids
      BY <1>2, <2>1 DEF SharesOK, CreditAccepted, KillDuringCredit
    <3>2. L!CreditShare(bound[s], Worth[s]) \/ L!KillDuringCredit(bound[s], Worth[s])
      BY <2>1, <3>1, SameCredit DEF CreditAccepted, KillDuringCredit
    <3>3. QED
      BY <3>1, <3>2 DEF L!Next
  <2>2. ASSUME NEW id \in Ids, Open(id) \/ KillDuringOpen(id)
        PROVE  L!Next
    <3>1. L!Open(id) \/ L!KillDuringOpen(id)
      BY <2>2, SameOpen DEF Open, KillDuringOpen
    <3>2. QED
      BY <3>1 DEF L!Next
  <2>3. ASSUME \/ Kill \/ Start \/ StartFails
               \/ \E s \in Shares : KillDuringLeaf(s)
        PROVE  L!Next
    BY <2>3, SameStart DEF Kill, Start, StartFails, KillDuringLeaf, L!Next
  <2>4. ASSUME \/ UNCHANGED vars
               \/ \E s \in Shares : AppendLeaf(s)
               \/ \E s \in Shares, id \in Ids : Submit(s, id)
        PROVE  UNCHANGED L!vars
    BY <2>4 DEF vars, ledger, AppendLeaf, Submit, L!vars, L!journal
  <2>5. QED
    BY <1>2, <2>1, <2>2, <2>3, <2>4 DEF Next
<1>3. QED
  BY <1>1, <1>2

\* The ledger's invariant holds of the ledger here.
LEMMA LedgerKept ==
  /\ Init => L!IInv
  /\ SharesOK /\ L!IInv /\ [Next]_vars => L!IInv'
<1>1. /\ L!Init => L!IInv
      /\ L!IInv /\ [L!Next]_(L!vars) => L!IInv'
  BY L!InitIInv, L!StepIInv, TargetAssumption, CreditingAssumption, WorthIsNat
<1>2. QED
  BY <1>1, LedgerSteps

-----------------------------------------------------------------------------
\* What is on file while no append has failed.

\* A process whose appends have all succeeded has on file what it has in
\* memory.
FilesMatch == up /\ ~failed => OnFile

\* A start that gets through leaves on file what it loads: compaction loses
\* nothing.
LEMMA StartMatches ==
  ASSUME L!IInv, Start
  PROVE  OnFile'
<1>1. L!Start
  BY SameStart DEF Start
<1>2. file' = L!Compact(L!Replayed) /\ mem' = L!Replayed /\ tail' = NoTail
  BY <1>1 DEF L!Start, L!NoTail, NoTail
<1>3. L!Compact(L!Replayed) = L!Replayed
  BY L!CompactionLosesNothing, TargetAssumption, CreditingAssumption, WorthIsNat DEF L!IInv, L!ReplayOK
<1>4. leafTail' = NoTail /\ leafFile' = ReplayedTrees /\ trees' = ReplayedTrees
  BY DEF Start, RestoreTrees
<1>5. QED
  BY <1>2, <1>3, <1>4 DEF OnFile, Knows

\* Every step keeps the files and memory matched, or is a failed append, or
\* ends the process.
LEMMA StepFilesMatch ==
  ASSUME L!IInv, FilesMatch, [Next]_vars
  PROVE  FilesMatch'
<1>1. CASE \/ \E s \in Shares : CreditAccepted(s) \/ AppendLeaf(s)
           \/ \E id \in Ids : Open(id)
  <2>1. up /\ Appended
    BY <1>1 DEF CreditAccepted, AppendLeaf, Open, Ledger!CreditShare, Ledger!Open
  <2>2. QED
    BY <2>1 DEF Appended, FilesMatch
<1>2. CASE \/ \E s \in Shares : KillDuringCredit(s) \/ KillDuringLeaf(s)
           \/ \E id \in Ids : KillDuringOpen(id)
           \/ Kill
           \/ StartFails
  <2>1. ~up'
    BY <1>2 DEF KillDuringCredit, KillDuringLeaf, KillDuringOpen, Kill, StartFails,
                Ledger!KillDuringCredit, Ledger!KillDuringOpen, Ledger!Kill,
                Ledger!StartFails, Ledger!Down
  <2>2. QED
    BY <2>1 DEF FilesMatch
<1>3. CASE Start
  BY <1>3, StartMatches DEF FilesMatch
<1>4. CASE \/ \E s \in Shares, id \in Ids : Submit(s, id)
           \/ UNCHANGED vars
  <2>1. UNCHANGED <<up, mem, file, tail, trees, leafFile, leafTail, failed>>
    BY <1>4 DEF Submit, vars, ledger, leaves
  <2>2. QED
    BY <2>1 DEF FilesMatch, OnFile, Knows
<1>5. QED
  BY <1>1, <1>2, <1>3, <1>4 DEF Next

-----------------------------------------------------------------------------
\* The trees only grow.

\* A list is a prefix of itself and of itself with one more share.
LEMMA PrefixOfLonger ==
  ASSUME NEW q \in Seq(Shares), NEW s \in Shares
  PROVE  IsPrefix(q, q) /\ IsPrefix(q, Append(q, s))
<1>1. /\ Len(q) \in Nat /\ Len(Append(q, s)) = Len(q) + 1
      /\ \A i \in 1 .. Len(q) : Append(q, s)[i] = q[i]
  OBVIOUS
<1>2. SubSeq(Append(q, s), 1, Len(q)) = SubSeq(q, 1, Len(q))
  BY <1>1
<1>3. QED
  BY <1>1, <1>2 DEF IsPrefix

\* So is every redemption's list of a tree that gains a leaf, or none.
LEMMA TreesGrow ==
  ASSUME NEW t \in Trees, NEW leaf \in Leaves, NEW id \in Ids
  PROVE  IsPrefix(t[id], t[id]) /\ IsPrefix(t[id], Push(t, leaf)[id])
<1>1. /\ t[id] \in Seq(Shares) /\ leaf.share \in Shares
      /\ Push(t, leaf) = [t EXCEPT ![leaf.id] = Append(t[leaf.id], leaf.share)]
      /\ t \in [Ids -> Seq(Shares)]
  BY PushDoes DEF Trees, Leaves
<1>2. Push(t, leaf)[id] \in {t[id], Append(t[id], leaf.share)}
  BY <1>1
<1>3. QED
  BY <1>1, <1>2, PrefixOfLonger

\* A leaf keeps its place for good: no step moves or drops one, while no
\* append has failed.
LEMMA StepMovesNoLeaf ==
  ASSUME LeafInv, FilesMatch, [Next]_vars, ~failed, NEW id \in Ids
  PROVE  IsPrefix(EffectiveTrees[id], EffectiveTrees'[id])
<1>1. /\ trees \in Trees /\ leafFile \in Trees /\ ReplayedTrees \in Trees
      /\ EffectiveTrees \in Trees
  BY ReplayedType DEF LeafInv, TreesOK, EffectiveTrees
<1>2. ASSUME EffectiveTrees' = EffectiveTrees
      PROVE  IsPrefix(EffectiveTrees[id], EffectiveTrees'[id])
  <2>1. EffectiveTrees[id] \in Seq(Shares)
    BY <1>1 DEF Trees
  <2>2. Shares # {} => IsPrefix(EffectiveTrees[id], EffectiveTrees[id])
    BY <2>1, PrefixOfLonger
  <2>3. QED
    BY <1>2, <2>1, <2>2 DEF IsPrefix
<1>3. up => /\ leafFile = trees /\ ReplayedTrees = trees
            /\ EffectiveTrees = trees
  BY DEF FilesMatch, OnFile, ReplayedTrees, EffectiveTrees, Push, NoTail
<1>4. ASSUME NEW s \in Shares, AppendLeaf(s)
      PROVE  IsPrefix(EffectiveTrees[id], EffectiveTrees'[id])
  <2>1. Leaf(bound[s], s) \in Leaves
    BY <1>4 DEF AppendLeaf, LeafInv, SharesOK, Leaf, Leaves
  <2>2. up /\ up' /\ trees' = Push(trees, Leaf(bound[s], s))
    BY <1>4 DEF AppendLeaf, ledger
  <2>3. QED
    BY <1>1, <1>3, <2>1, <2>2, TreesGrow DEF EffectiveTrees
<1>5. ASSUME NEW s \in Shares, KillDuringLeaf(s)
      PROVE  IsPrefix(EffectiveTrees[id], EffectiveTrees'[id])
  <2>1. Leaf(bound[s], s) \in Leaves
    BY <1>5 DEF KillDuringLeaf, LeafInv, SharesOK, Leaf, Leaves
  <2>2. PICK outcome \in LeafOutcomes : JournalLeaf(Leaf(bound[s], s), outcome)
    BY <1>5 DEF KillDuringLeaf
  <2>3. ReplayedTrees' \in {ReplayedTrees, leafFile, Push(leafFile, Leaf(bound[s], s))}
    BY <2>1, <2>2, LeafOutcome DEF LeafInv, TreesOK
  <2>4. up /\ ~up'
    BY <1>5 DEF KillDuringLeaf, Ledger!Kill, Ledger!Down
  <2>5. QED
    BY <1>1, <1>3, <2>1, <2>3, <2>4, TreesGrow DEF EffectiveTrees
<1>6. CASE \/ Kill
           \/ \E s \in Shares : KillDuringCredit(s)
           \/ \E x \in Ids : KillDuringOpen(x)
  <2>1. up /\ ~up' /\ UNCHANGED <<leafFile, leafTail>>
    BY <1>6 DEF Kill, KillDuringCredit, KillDuringOpen, Ledger!Kill,
                Ledger!KillDuringCredit, Ledger!KillDuringOpen, Ledger!Down
  <2>2. EffectiveTrees' = EffectiveTrees
    BY <1>3, <2>1 DEF EffectiveTrees, ReplayedTrees
  <2>3. QED
    BY <1>2, <2>2
<1>7. CASE Start \/ StartFails
  <2>1. /\ ~up /\ ReplayedTrees' = ReplayedTrees
        /\ up' => trees' = ReplayedTrees
    BY <1>7, RestoreStep DEF Start, StartFails, Ledger!Start, Ledger!StartFails
  <2>2. QED
    BY <1>2, <2>1 DEF EffectiveTrees
<1>8. CASE \/ \E s \in Shares : CreditAccepted(s) \/ \E x \in Ids : Submit(s, x)
           \/ \E x \in Ids : Open(x)
           \/ UNCHANGED vars
  <2>1. up' = up /\ UNCHANGED leaves
    BY <1>8 DEF CreditAccepted, Submit, Open, vars, ledger, Ledger!CreditShare, Ledger!Open
  <2>2. EffectiveTrees' = EffectiveTrees
    BY <2>1 DEF leaves, EffectiveTrees, ReplayedTrees
  <2>3. QED
    BY <1>2, <2>2
<1>9. QED
  BY <1>4, <1>5, <1>6, <1>7, <1>8 DEF Next

\* A proof served for a leaf stays a proof for that leaf, over kills and
\* restarts, until an append fails.
THEOREM LeavesNeverMoveHolds == Spec => LeavesNeverMove
<1> DEFINE I == LeafInv /\ L!IInv /\ FilesMatch
           A == ~failed => \A id \in Ids :
                    IsPrefix(EffectiveTrees[id], EffectiveTrees'[id])
<1>1. Init => I
  <2>1. Init => ~up
    BY DEF Init, Ledger!Init
  <2>2. QED
    BY <2>1, InitLeafInv, LedgerKept DEF FilesMatch
<1>2. I /\ [Next]_vars => I'
  BY StepLeafInv, LedgerKept, StepFilesMatch DEF LeafInv
<1>3. I /\ [Next]_vars => A
  BY StepMovesNoLeaf
<1> HIDE DEF I
<1>4. QED
  BY <1>1, <1>2, <1>3, PTL DEF Spec, LeavesNeverMove

-----------------------------------------------------------------------------
\* The work of the leaves.

\* What the leaves of a list are worth, place by place.
LEMMA WorkSums ==
  ASSUME NEW q \in Seq(Shares)
  PROVE  LET h == [i \in 1 .. Len(q) |-> Worth[q[i]]] IN
         /\ Work(q) = SumOver(h, 1 .. Len(q)) /\ Work(q) \in Nat
         /\ IsFiniteSet(1 .. Len(q)) /\ \A i \in 1 .. Len(q) : h[i] \in Nat
<1> DEFINE n == Len(q)
           h == [i \in 1 .. n |-> Worth[q[i]]]
<1>1. n \in Nat /\ DOMAIN q = 1 .. n
  OBVIOUS
<1>2. Work(q) = SumOver(h, 1 .. n)
  BY <1>1 DEF Work, SumFunction, SumFunctionOnSet, FoldFunctionOnSet, MapThenFoldSet,
              SumOver, MapThenSumSet
<1>3. \A i \in 1 .. n : h[i] \in Nat
  BY CreditingAssumption
<1>4. IsFiniteSet(1 .. n)
  BY <1>1, FS_Interval
<1> HIDE DEF h
<1>5. Work(q) \in Nat
  BY <1>2, <1>3, <1>4, SumType
<1>6. QED
  BY <1>2, <1>3, <1>4, <1>5 DEF h

\* One more leaf adds its own.
LEMMA WorkAppend ==
  ASSUME NEW q \in Seq(Shares), NEW s \in Shares
  PROVE  Work(Append(q, s)) = Work(q) + Worth[s]
<1> DEFINE n == Len(q)
           p == Append(q, s)
           h == [i \in 1 .. n |-> Worth[q[i]]]
           g == [i \in 1 .. n + 1 |-> Worth[p[i]]]
<1>1. /\ n \in Nat /\ p \in Seq(Shares) /\ Len(p) = n + 1 /\ p[n + 1] = s
      /\ \A i \in 1 .. n : p[i] = q[i]
  OBVIOUS
<1>2. Work(q) = SumOver(h, 1 .. n) /\ IsFiniteSet(1 .. n) /\ Work(q) \in Nat
  BY WorkSums
<1>3. Work(p) = SumOver(g, 1 .. n + 1) /\ \A i \in 1 .. n + 1 : g[i] \in Nat
  <2> HIDE DEF p
  <2>1. QED
    BY <1>1, WorkSums
<1>4. /\ g[n + 1] = Worth[s] /\ Worth[s] \in Nat
      /\ \A i \in 1 .. n : g[i] = h[i]
  BY <1>1, CreditingAssumption
<1>5. 1 .. n + 1 = (1 .. n) \cup {n + 1} /\ n + 1 \notin 1 .. n
  BY <1>1
<1> HIDE DEF n, p, h, g
<1>6. SumOver(g, 1 .. n + 1) = g[n + 1] + SumOver(g, 1 .. n)
  <2> DEFINE T == 1 .. n
             x == n + 1
  <2>1. IsFiniteSet(T) /\ x \notin T /\ \A y \in T \cup {x} : g[y] \in Nat
    BY <1>2, <1>3, <1>5
  <2> HIDE DEF T, x
  <2>2. SumOver(g, T \cup {x}) = g[x] + SumOver(g, T)
    BY <2>1, SumAdd
  <2>3. QED
    BY <1>5, <2>2 DEF T, x
<1>7. SumOver(g, 1 .. n) = SumOver(h, 1 .. n)
  <2>1. IsFiniteSet(1 .. n)
    BY <1>2
  <2>2. \A i \in 1 .. n : g[i] = h[i]
    BY <1>4
  <2>3. QED
    BY <2>1, <2>2, SumSame, Zenon
<1>8. QED
  BY <1>2, <1>3, <1>4, <1>6, <1>7 DEF p

\* A share between its credit and its leaf, by redemption.
Flying(st, bd, id) ==
    [s \in Shares |-> IF st[s] = "credited" /\ bd[s] = id THEN Worth[s] ELSE 0]
InFlight(id) == SumOver(Flying(stage, bound, id), Shares)

\* What is in flight is a number.
LEMMA FlyingSums ==
  ASSUME NEW st, NEW bd, NEW id
  PROVE  /\ \A s \in Shares : Flying(st, bd, id)[s] \in Nat
         /\ SumOver(Flying(st, bd, id), Shares) \in Nat
<1>1. \A s \in Shares : Flying(st, bd, id)[s] \in Nat
  BY CreditingAssumption DEF Flying
<1>2. QED
  BY <1>1, SumType, SharesAreFinite

\* When one share moves on, what is in flight changes by what it was and is in
\* flight with.
LEMMA FlyingMoves ==
  ASSUME NEW s \in Shares, NEW id,
         \A x \in Shares \ {s} : /\ stage'[x] = stage[x] /\ bound'[x] = bound[x]
  PROVE  InFlight(id)' + Flying(stage, bound, id)[s]
            = InFlight(id) + Flying(stage', bound', id)[s]
<1> DEFINE h == Flying(stage, bound, id)
           g == Flying(stage', bound', id)
<1>1. InFlight(id)' = SumOver(g, Shares) /\ InFlight(id) = SumOver(h, Shares)
  BY DEF InFlight, Flying
<1>2. \A x \in Shares \ {s} : h[x] = g[x]
  BY DEF Flying
<1>3. \A x \in Shares : h[x] \in Nat /\ g[x] \in Nat
  BY FlyingSums
<1> HIDE DEF h, g
<1>4. SumOver(g, Shares) + h[s] = SumOver(h, Shares) + g[s]
  BY <1>2, <1>3, SumOneChanges, SharesAreFinite
<1>5. QED
  BY <1>1, <1>4 DEF h, g

-----------------------------------------------------------------------------
\* The trees commit to the credit.

\* With what is in flight the leaves make up the credit, or less of it once a
\* kill has taken a leaf.
Balanced(work, flying, acc, gone) ==
    /\ work + flying =< acc
    /\ gone = {} => work + flying = acc

CommitOK(id) ==
    Balanced(Work(EffectiveTrees[id]), InFlight(id), L!Effective.of[id].acc, lost)

\* No connection outlives the process.
DownIsIdle == ~up => \A s \in Shares : stage[s] \in {"new", "done"}

CommitInv == ~failed => \A id \in Ids : CommitOK(id)

CreditInv == LeafInv /\ L!IInv /\ FilesMatch /\ DownIsIdle /\ CommitInv

\* The three sums are numbers.
LEMMA CommitNumbers ==
  ASSUME LeafInv, L!IInv, NEW id \in Ids
  PROVE  /\ EffectiveTrees[id] \in Seq(Shares)
         /\ Work(EffectiveTrees[id]) \in Nat /\ InFlight(id) \in Nat
         /\ L!Effective.of[id].acc \in Nat
<1>1. trees \in Trees /\ ReplayedTrees \in Trees
  BY ReplayedType DEF LeafInv, TreesOK
<1>2. EffectiveTrees[id] \in Seq(Shares)
  BY <1>1 DEF EffectiveTrees, Trees
<1>3. L!Effective.of[id].acc \in Nat
  BY DEF L!Effective, L!IInv, L!MemoryOK, L!ReplayOK, L!Journalled, L!Book, L!Redemption
<1>4. QED
  BY <1>2, <1>3, WorkSums, FlyingSums DEF InFlight

\* Nothing that counts changes.
LEMMA CommitStays ==
  ASSUME NEW id, CommitOK(id), lost' = lost,
         EffectiveTrees'[id] = EffectiveTrees[id], InFlight(id)' = InFlight(id),
         L!Effective'.of[id].acc = L!Effective.of[id].acc
  PROVE  CommitOK(id)'
  BY Zenon DEF CommitOK, Work

\* What is in flight stays when no task moves on.
LEMMA FlightStays ==
  ASSUME UNCHANGED <<stage, bound>>, NEW id
  PROVE  InFlight(id)' = InFlight(id)
  BY DEF InFlight, Flying

\* A share that goes out is not in flight yet.
LEMMA SubmitCommits ==
  ASSUME LeafInv, NEW s \in Shares, NEW x \in Ids, Submit(s, x), NEW id \in Ids, CommitOK(id)
  PROVE  CommitOK(id)'
<1>1. /\ stage[s] = "new" /\ stage' = [stage EXCEPT ![s] = "submitted"]
      /\ bound' = [bound EXCEPT ![s] = x]
      /\ UNCHANGED <<ledger, leaves, lost>>
      /\ stage \in [Shares -> Stages] /\ bound \in [Shares -> Ids \cup {NoBinding}]
  BY DEF Submit, LeafInv, SharesOK
<1>2. Flying(stage, bound, id)[s] = 0 /\ Flying(stage', bound', id)[s] = 0
  BY <1>1 DEF Flying
<1>3. InFlight(id)' + Flying(stage, bound, id)[s]
         = InFlight(id) + Flying(stage', bound', id)[s]
  BY <1>1, FlyingMoves
<1>4. InFlight(id) \in Nat
  BY FlyingSums DEF InFlight
<1>5. InFlight(id)' \in Nat
  BY FlyingSums DEF InFlight, Flying
<1>6. InFlight(id)' = InFlight(id)
  <2>1. PICK m \in Nat, n \in Nat : m = InFlight(id)' /\ n = InFlight(id)
    BY <1>4, <1>5, Zenon
  <2>2. m + 0 = n + 0
    BY <1>2, <1>3, <2>1, Zenon
  <2>3. m = n
    BY <2>2
  <2>4. QED
    BY <2>1, <2>3, Zenon
<1>7. EffectiveTrees' = EffectiveTrees /\ L!Effective' = L!Effective /\ lost' = lost
  BY <1>1 DEF ledger, leaves, EffectiveTrees, ReplayedTrees, L!Effective, L!Replayed
<1>8. QED
  BY <1>6, <1>7, CommitStays, Zenon

\* An opened redemption has no credit, as it had none before.
LEMMA OpenCommits ==
  ASSUME L!IInv, NEW x \in Ids, Open(x), NEW id \in Ids, CommitOK(id)
  PROVE  CommitOK(id)'
<1>1. L!Open(x) /\ UNCHANGED <<stage, bound, leaves, lost>>
  BY SameOpen DEF Open
<1>2. up /\ up' /\ mem' = L!OpenIn(mem, x) /\ ~L!Knows(mem, x)
  BY <1>1 DEF L!Open
<1>3. mem.of \in [Ids -> L!Redemption] /\ mem.of[x].acc = 0
  BY <1>2 DEF L!IInv, L!MemoryOK, L!Fits, L!Book, L!Knows
<1>4. L!Effective'.of[id].acc = L!Effective.of[id].acc
  BY <1>2, <1>3 DEF L!Effective, L!OpenIn, L!New
<1>5. EffectiveTrees' = EffectiveTrees /\ InFlight(id)' = InFlight(id) /\ lost' = lost
  BY <1>1, <1>2, FlightStays DEF leaves, EffectiveTrees
<1>6. QED
  BY <1>4, <1>5, CommitStays, Zenon


\* So is what is in flight, before and after any step.
LEMMA FlightIsNat ==
  ASSUME NEW id
  PROVE  InFlight(id) \in Nat /\ InFlight(id)' \in Nat
<1>1. InFlight(id) \in Nat
  BY FlyingSums DEF InFlight
<1>2. InFlight(id)' \in Nat
  BY FlyingSums DEF InFlight, Flying
<1>3. QED
  BY <1>1, <1>2

\* One share takes off: what is in flight grows by what it is worth.
LEMMA TakesOff ==
  ASSUME NEW s \in Shares, NEW id, NEW v \in Nat,
         \A x \in Shares \ {s} : /\ stage'[x] = stage[x] /\ bound'[x] = bound[x],
         Flying(stage, bound, id)[s] = 0, Flying(stage', bound', id)[s] = v
  PROVE  InFlight(id)' = InFlight(id) + v
<1>1. InFlight(id) \in Nat /\ InFlight(id)' \in Nat
  BY FlightIsNat
<1>2. InFlight(id)' + Flying(stage, bound, id)[s]
         = InFlight(id) + Flying(stage', bound', id)[s]
  BY FlyingMoves
<1>3. PICK m \in Nat, n \in Nat : m = InFlight(id)' /\ n = InFlight(id)
  BY <1>1, Zenon
<1>4. m + 0 = n + v
  BY <1>2, <1>3, Zenon
<1>5. m = n + v
  BY <1>4
<1>6. QED
  BY <1>3, <1>5, Zenon

\* One share lands: its worth was part of what was in flight, and is not now.
LEMMA Lands ==
  ASSUME NEW s \in Shares, NEW id, NEW u \in Nat,
         \A x \in Shares \ {s} : /\ stage'[x] = stage[x] /\ bound'[x] = bound[x],
         Flying(stage, bound, id)[s] = u, Flying(stage', bound', id)[s] = 0
  PROVE  u =< InFlight(id) /\ InFlight(id)' = InFlight(id) - u
<1>1. InFlight(id) \in Nat /\ InFlight(id)' \in Nat
  BY FlightIsNat
<1>2. InFlight(id)' + Flying(stage, bound, id)[s]
         = InFlight(id) + Flying(stage', bound', id)[s]
  BY FlyingMoves
<1>3. PICK m \in Nat, n \in Nat : m = InFlight(id)' /\ n = InFlight(id)
  BY <1>1, Zenon
<1>4. m + u = n + 0
  BY <1>2, <1>3, Zenon
<1>5. u =< n /\ m = n - u
  BY <1>4
<1>6. QED
  BY <1>3, <1>5, Zenon

\* A share in flight is part of what is in flight.
LEMMA PartOfFlight ==
  ASSUME NEW s \in Shares, NEW id
  PROVE  Flying(stage, bound, id)[s] =< InFlight(id)
<1> DEFINE h == Flying(stage, bound, id)
<1>1. \A x \in Shares : h[x] \in Nat
  BY FlyingSums
<1> HIDE DEF h
<1>2. /\ SumOver(h, Shares) = h[s] + SumOver(h, Shares \ {s})
      /\ SumOver(h, Shares \ {s}) \in Nat
  <2>1. IsFiniteSet(Shares \ {s})
    BY FS_Subset, SharesAreFinite
  <2>2. SumOver(h, Shares) = h[s] + SumOver(h, Shares \ {s})
    BY <1>1, SumRemove, SharesAreFinite
  <2>3. SumOver(h, Shares \ {s}) \in Nat
    BY <1>1, <2>1, SumType
  <2>4. QED
    BY <2>2, <2>3
<1>3. h[s] =< SumOver(h, Shares)
  BY <1>1, <1>2
<1>4. QED
  BY <1>3 DEF h, InFlight

\* The balance after a step, from the three sums after it.
LEMMA CommitsTo ==
  ASSUME NEW id, NEW w, NEW f, NEW a, NEW gone, Balanced(w, f, a, gone),
         Work(EffectiveTrees'[id]) = w, InFlight(id)' = f,
         L!Effective'.of[id].acc = a, lost' = {} => gone = {}
  PROVE  CommitOK(id)'
<1>1. Balanced(w, f, a, lost')
  BY DEF Balanced
<1>2. QED
  BY <1>1, Zenon DEF CommitOK, Work

\* A credit and a take-off of the same worth keep the balance, and so does a
\* leaf that lands.
LEMMA BalanceMoves ==
  ASSUME NEW w \in Nat, NEW f \in Nat, NEW a \in Nat, NEW gone,
         Balanced(w, f, a, gone), NEW v \in Nat
  PROVE  /\ Balanced(w, f + v, a + v, gone)
         /\ v =< f => Balanced(w + v, f - v, a, gone)
  BY DEF Balanced

\* The ledger counts the share and it takes off, with the same worth.
LEMMA CreditCommits ==
  ASSUME LeafInv, L!IInv, NEW s \in Shares, CreditAccepted(s), NEW id \in Ids, CommitOK(id)
  PROVE  CommitOK(id)'
<1>1. /\ stage[s] = "submitted" /\ bound[s] \in Ids
      /\ UNCHANGED <<bound, leaves, lost>>
      /\ stage \in [Shares -> Stages]
  BY DEF CreditAccepted, LeafInv, SharesOK
<1>2. L!CreditShare(bound[s], Worth[s])
  BY <1>1, SameCredit DEF CreditAccepted
<1>3. up /\ up' /\ mem' = L!CreditIn(mem, bound[s], Worth[s]) /\ mem \in L!Book
  BY <1>2 DEF L!CreditShare, L!IInv, L!MemoryOK
<1>4. EffectiveTrees' = EffectiveTrees
  BY <1>1, <1>3 DEF leaves, EffectiveTrees
<1>5. /\ L!Effective.of = mem.of
      /\ L!Effective'.of
            = [mem.of EXCEPT ![bound[s]] = L!CreditHashes(bound[s], mem.of[bound[s]], Worth[s])]
  BY <1>3 DEF L!Effective, L!CreditIn
<1>6. Flying(stage, bound, id)[s] = 0
  BY <1>1 DEF Flying
<1>7. CASE IsComplete(mem, bound[s])
  <2>1. stage' = [stage EXCEPT ![s] = "done"]
    BY <1>7 DEF CreditAccepted
  <2>2. Flying(stage', bound', id)[s] = 0
    BY <1>1, <2>1 DEF Flying
  <2>3. InFlight(id)' = InFlight(id) + 0
    BY <1>1, <1>6, <2>1, <2>2, TakesOff
  <2>4. InFlight(id)' = InFlight(id)
    <3>1. PICK n \in Nat : n = InFlight(id)
      BY FlyingSums, Zenon DEF InFlight
    <3>2. n + 0 = n
      OBVIOUS
    <3>3. QED
      BY <2>3, <3>1, <3>2, Zenon
  <2>5. L!Effective'.of[id].acc = L!Effective.of[id].acc
    BY <1>3, <1>5, <1>7 DEF L!CreditHashes, IsComplete, L!Book
  <2>6. QED
    BY <1>1, <1>4, <2>4, <2>5, CommitStays, Zenon
<1>8. CASE ~IsComplete(mem, bound[s])
  <2> DEFINE v == IF bound[s] = id THEN Worth[s] ELSE 0
  <2>1. stage' = [stage EXCEPT ![s] = "credited"]
    BY <1>8 DEF CreditAccepted
  <2>2. Flying(stage', bound', id)[s] = v /\ v \in Nat
    BY <1>1, <2>1, CreditingAssumption DEF Flying
  <2>3. L!Effective'.of[id].acc = L!Effective.of[id].acc + v
    <3>1. L!Effective.of[id].acc \in Nat
      BY CommitNumbers
    <3>2. CASE bound[s] = id
      BY <1>3, <1>5, <1>8, <3>2 DEF L!CreditHashes, IsComplete, L!Book
    <3>3. CASE bound[s] # id
      <4>1. L!Effective'.of[id].acc = L!Effective.of[id].acc
        BY <1>3, <1>5, <3>3 DEF L!Book
      <4>2. PICK n \in Nat : n = L!Effective.of[id].acc
        BY <3>1, Zenon
      <4>3. n + v = n
        BY <3>3
      <4>4. QED
        BY <4>1, <4>2, <4>3, Zenon
    <3>4. QED
      BY <3>2, <3>3
  <2> HIDE DEF v
  <2>4. InFlight(id)' = InFlight(id) + v
    BY <1>1, <1>6, <2>1, <2>2, TakesOff
  <2>5. PICK w \in Nat, f \in Nat, a \in Nat :
           /\ w = Work(EffectiveTrees[id]) /\ f = InFlight(id)
           /\ a = L!Effective.of[id].acc
    BY CommitNumbers, Zenon
  <2>6. Balanced(w, f, a, lost)
    BY <2>5, Zenon DEF CommitOK
  <2>7. Balanced(w, f + v, a + v, lost)
    BY <2>2, <2>6, BalanceMoves
  <2>8. /\ Work(EffectiveTrees'[id]) = w /\ InFlight(id)' = f + v
        /\ L!Effective'.of[id].acc = a + v
    BY <1>4, <2>3, <2>4, <2>5, Zenon
  <2>9. QED
    BY <1>1, <2>7, <2>8, CommitsTo, Zenon
<1>9. QED
  BY <1>7, <1>8

\* The leaf lands: the tree gains what was in flight.
LEMMA AppendLeafCommits ==
  ASSUME LeafInv, L!IInv, NEW s \in Shares, AppendLeaf(s), NEW id \in Ids, CommitOK(id)
  PROVE  CommitOK(id)'
<1> DEFINE leaf == Leaf(bound[s], s)
           v == IF bound[s] = id THEN Worth[s] ELSE 0
<1>1. /\ up /\ stage[s] = "credited" /\ bound[s] \in Ids
      /\ stage' = [stage EXCEPT ![s] = "done"]
      /\ trees' = Push(trees, leaf) /\ trees \in [Ids -> Seq(Shares)]
      /\ UNCHANGED <<ledger, bound, lost>>
      /\ stage \in [Shares -> Stages]
  BY DEF AppendLeaf, LeafInv, SharesOK, TreesOK, Trees
<1>2. up' /\ L!Effective' = L!Effective
  BY <1>1 DEF ledger, L!Effective, L!Replayed
<1>3. trees' = [trees EXCEPT ![bound[s]] = Append(trees[bound[s]], s)]
  <2>1. leaf \in Leaves /\ leaf.id = bound[s] /\ leaf.share = s
    BY <1>1 DEF Leaf, Leaves
  <2>2. QED
    <3> HIDE DEF leaf
    <3>1. trees \in Trees
      BY <1>1 DEF Trees
    <3>2. QED
      BY <1>1, <2>1, <3>1, PushDoes
<1>4. EffectiveTrees[id] = trees[id] /\ EffectiveTrees'[id] = trees'[id]
  BY <1>1, <1>2 DEF EffectiveTrees
<1>5. v \in Nat
  BY CreditingAssumption
<1>6. Work(EffectiveTrees'[id]) = Work(EffectiveTrees[id]) + v
  <2>1. trees[id] \in Seq(Shares) /\ Work(trees[id]) \in Nat
    BY <1>1, WorkSums
  <2>2. CASE bound[s] = id
    <3>1. trees'[id] = Append(trees[id], s)
      BY <1>1, <1>3, <2>2
    <3>2. Work(Append(trees[id], s)) = Work(trees[id]) + Worth[s]
      BY <2>1, WorkAppend
    <3>3. v = Worth[s]
      BY <2>2
    <3>4. QED
      BY <1>4, <3>1, <3>2, <3>3, Zenon
  <2>3. CASE bound[s] # id
    <3>1. trees'[id] = trees[id]
      BY <1>1, <1>3, <2>3
    <3>2. PICK n \in Nat : n = Work(trees[id])
      BY <2>1, Zenon
    <3>3. n + v = n
      BY <2>3
    <3>4. QED
      BY <1>4, <3>1, <3>2, <3>3, Zenon
  <2>4. QED
    BY <2>2, <2>3
<1>7. Flying(stage, bound, id)[s] = v /\ Flying(stage', bound', id)[s] = 0
  BY <1>1 DEF Flying
<1> HIDE DEF v
<1>8. v =< InFlight(id) /\ InFlight(id)' = InFlight(id) - v
  BY <1>1, <1>5, <1>7, Lands
<1>9. PICK w \in Nat, f \in Nat, a \in Nat :
         /\ w = Work(EffectiveTrees[id]) /\ f = InFlight(id)
         /\ a = L!Effective.of[id].acc
  BY CommitNumbers, Zenon
<1>10. Balanced(w, f, a, lost) /\ v =< f
  BY <1>8, <1>9, Zenon DEF CommitOK
<1>11. Balanced(w + v, f - v, a, lost)
  BY <1>5, <1>10, BalanceMoves
<1>12. /\ Work(EffectiveTrees'[id]) = w + v /\ InFlight(id)' = f - v
       /\ L!Effective'.of[id].acc = a
  BY <1>2, <1>6, <1>8, <1>9, Zenon
<1>13. QED
  BY <1>1, <1>11, <1>12, CommitsTo, Zenon

-----------------------------------------------------------------------------
\* The balance over a kill.

\* What was in flight is taken or, as a leaf, kept; the credit may gain the
\* record that was being written.
LEMMA BalanceAfterKill ==
  ASSUME NEW w \in Nat, NEW f \in Nat, NEW a \in Nat, NEW gone,
         Balanced(w, f, a, gone),
         NEW v \in Nat, v =< w + f, NEW c \in Nat, a =< c,
         NEW less, less = {} => gone = {} /\ v = w + f /\ c = a
  PROVE  Balanced(v, 0, c, less)
  BY DEF Balanced

\* The dead process has no share in flight, and if it lost none it had none.
LEMMA DiesGrounds ==
  ASSUME LeafInv, NEW also, Dies(also), NEW id \in Ids
  PROVE  /\ InFlight(id)' = 0
         /\ lost' = {} => lost = {} /\ also = {} /\ InFlight(id) = 0
         /\ \A s \in Shares : stage[s] = "credited" => s \in lost'
<1>1. \A s \in Shares : stage'[s] \in {"new", "done"}
  BY DiesShares
<1>2. lost' = lost \cup also \cup {s \in Shares : stage[s] = "credited"}
  BY DEF Dies
<1>3. InFlight(id)' = 0
  <2> DEFINE g == Flying(stage', bound', id)
  <2>1. \A s \in Shares : g[s] = 0
    BY <1>1 DEF Flying
  <2>2. InFlight(id)' = SumOver(g, Shares)
    BY DEF InFlight, Flying
  <2> HIDE DEF g
  <2>3. SumOver(g, Shares) = 0
    BY <2>1, SumZeros, SharesAreFinite
  <2>4. QED
    BY <2>2, <2>3, Zenon
<1>4. ASSUME \A s \in Shares : stage[s] # "credited"
      PROVE  InFlight(id) = 0
  <2> DEFINE g == Flying(stage, bound, id)
  <2>1. \A s \in Shares : g[s] = 0
    BY <1>4 DEF Flying
  <2> HIDE DEF g
  <2>2. SumOver(g, Shares) = 0
    BY <2>1, SumZeros, SharesAreFinite
  <2>3. QED
    BY <2>2 DEF InFlight, g
<1>5. lost' = {} => lost = {} /\ also = {} /\ \A s \in Shares : stage[s] # "credited"
  BY <1>2
<1>6. \A s \in Shares : stage[s] = "credited" => s \in lost'
  BY <1>2
<1>7. QED
  BY <1>3, <1>4, <1>5, <1>6

\* What a kill leaves of the ledger: the credit stays, and may gain the share
\* whose record was being written.
LEMMA KillKeepsCredit ==
  ASSUME L!IInv, up, OnFile, NEW id \in Ids
  PROVE  /\ L!Kill \/ (\E x \in Ids : L!KillDuringOpen(x)) =>
              L!Effective'.of[id].acc = L!Effective.of[id].acc
         /\ \A x \in Ids, s \in Shares : L!KillDuringCredit(x, Worth[s]) =>
              /\ L!Effective'.of[id].acc \in Nat
              /\ L!Effective.of[id].acc =< L!Effective'.of[id].acc
<1>1. /\ L!Effective.of[id].acc = file.of[id].acc
      /\ L!Replayed = file
  BY DEF OnFile, L!Effective, L!Replayed, L!Replay, NoTail, L!NoTail
<1>2. /\ file \in L!Book /\ \A x \in Ids : L!Fits(x, file.of[x])
      /\ file.of \in [Ids -> L!Redemption] /\ file.of[id].acc \in Nat
      /\ L!TailOK
  BY DEF L!IInv, L!FileOK, L!Journalled, L!Book, L!Redemption
<1>3. ASSUME L!Kill
      PROVE  L!Effective'.of[id].acc = L!Effective.of[id].acc
  BY <1>1, <1>3 DEF L!Kill, L!Down, L!journal, L!Effective, L!Replayed
<1>4. ASSUME NEW x \in Ids, L!KillDuringOpen(x)
      PROVE  L!Effective'.of[id].acc = L!Effective.of[id].acc
  <2> DEFINE rec == L!OpenRecord(x)
  <2>1. rec \in L!Records /\ rec.op = "open" /\ rec.id = x
    BY DEF L!OpenRecord, L!Records
  <2>2. PICK outcome \in L!Outcomes : L!JournalAppend(rec, outcome)
    BY <1>4 DEF L!KillDuringOpen
  <2>3. L!Effective' = L!Replayed'
    BY <1>4 DEF L!KillDuringOpen, L!Down, L!Effective
  <2>4. L!Replayed' \in {L!Replayed, file, L!Replay(file, rec)}
    <3> HIDE DEF rec
    <3>1. rec.op # "credit"
      BY <2>1
    <3>2. QED
      BY <1>2, <2>1, <2>2, <3>1, L!AppendOutcome, TargetAssumption, CreditingAssumption, WorthIsNat
  <2>5. L!Replay(file, rec).of[id].acc = file.of[id].acc
    <3>1. CASE L!Knows(file, x)
      BY <2>1, <3>1 DEF L!Replay
    <3>2. CASE ~L!Knows(file, x)
      <4>1. L!Replay(file, rec).of = [file.of EXCEPT ![x] = L!New]
        BY <2>1, <3>2 DEF L!Replay, L!OpenIn
      <4>2. file.of[x].acc = 0
        BY <1>2, <3>2 DEF L!Fits, L!Knows
      <4>3. QED
        BY <1>2, <4>1, <4>2 DEF L!New
    <3>3. QED
      BY <3>1, <3>2
  <2>6. QED
    BY <1>1, <2>3, <2>4, <2>5
<1>5. ASSUME NEW x \in Ids, NEW s \in Shares, L!KillDuringCredit(x, Worth[s])
      PROVE  /\ L!Effective'.of[id].acc \in Nat
             /\ L!Effective.of[id].acc =< L!Effective'.of[id].acc
  <2> DEFINE h == Worth[s]
             rec == L!CreditRecord(x, h)
  <2>1. /\ rec \in L!Records /\ rec.op = "credit" /\ rec.id = x /\ rec.hashes = h
        /\ h \in {Worth[y] : y \in Shares} \ {0} /\ h \in Nat
    BY <1>5, CreditingAssumption DEF L!CreditRecord, L!Records, L!KillDuringCredit
  <2>2. PICK outcome \in L!Outcomes : L!JournalAppend(rec, outcome)
    BY <1>5 DEF L!KillDuringCredit
  <2>3. L!Effective' = L!Replayed'
    BY <1>5 DEF L!KillDuringCredit, L!Down, L!Effective
  <2>4. L!Replayed' \in {L!Replayed, file, L!Replay(file, rec)}
    <3> HIDE DEF rec, h
    <3>1. QED
      BY <1>2, <2>1, <2>2, L!AppendOutcome, TargetAssumption, CreditingAssumption, WorthIsNat
  <2>5. /\ L!Replay(file, rec).of[id].acc \in Nat
        /\ file.of[id].acc =< L!Replay(file, rec).of[id].acc
    <3>1. CASE L!Knows(file, x)
      <4>1. L!Replay(file, rec).of
              = [file.of EXCEPT ![x] = L!CreditHashes(x, file.of[x], h)]
        BY <2>1, <3>1 DEF L!Replay, L!CreditIn
      <4>2. /\ L!CreditHashes(x, file.of[x], h).acc \in Nat
            /\ file.of[x].acc =< L!CreditHashes(x, file.of[x], h).acc
        BY <1>2, <2>1 DEF L!CreditHashes, L!Redemption
      <4>3. QED
        BY <1>2, <4>1, <4>2
    <3>2. CASE ~L!Knows(file, x)
      BY <1>2, <2>1, <3>2 DEF L!Replay
    <3>3. QED
      BY <3>1, <3>2
  <2>6. QED
    BY <1>1, <1>2, <2>3, <2>4, <2>5
<1>6. QED
  BY <1>3, <1>4, <1>5

\* No leaf is being written: the trees on file stay what they are.
LEMMA KillCommits ==
  ASSUME LeafInv, L!IInv, up, OnFile, NEW id \in Ids, CommitOK(id),
         NEW also, Dies(also), UNCHANGED <<leafFile, leafTail>>,
         \/ Ledger!Kill
         \/ \E x \in Ids : Ledger!KillDuringOpen(x)
         \/ /\ also # {}
            /\ \E x \in Ids, s \in Shares : Ledger!KillDuringCredit(x, Worth[s])
  PROVE  CommitOK(id)'
<1>1. \/ L!Kill
      \/ \E x \in Ids : L!KillDuringOpen(x)
      \/ also # {} /\ \E x \in Ids, s \in Shares : L!KillDuringCredit(x, Worth[s])
  BY SameStart, SameOpen, SameCredit
<1>2. ~up'
  BY <1>1 DEF L!Kill, L!KillDuringOpen, L!KillDuringCredit, L!Down
<1>3. EffectiveTrees' = EffectiveTrees
  BY <1>2 DEF EffectiveTrees, ReplayedTrees, OnFile, Push, NoTail
<1>4. PICK w \in Nat, f \in Nat, a \in Nat :
         /\ w = Work(EffectiveTrees[id]) /\ f = InFlight(id)
         /\ a = L!Effective.of[id].acc
  BY CommitNumbers, Zenon
<1>5. Balanced(w, f, a, lost)
  BY <1>4, Zenon DEF CommitOK
<1>6. /\ InFlight(id)' = 0
      /\ lost' = {} => lost = {} /\ also = {} /\ f = 0
  BY <1>4, DiesGrounds, Zenon
<1>7. PICK c \in Nat : /\ c = L!Effective'.of[id].acc
                       /\ a =< c
                       /\ also = {} => c = a
  BY <1>1, <1>4, KillKeepsCredit
<1>8. w =< w + f /\ (f = 0 => w = w + f)
  BY <1>4
<1>9. Balanced(w, 0, c, lost')
  <2>1. lost' = {} => lost = {} /\ w = w + f /\ c = a
    BY <1>6, <1>7, <1>8
  <2>2. QED
    BY <1>5, <1>7, <1>8, <2>1, BalanceAfterKill
<1>10. Work(EffectiveTrees'[id]) = w
  BY <1>3, <1>4, Zenon
<1>11. QED
  BY <1>6, <1>7, <1>9, <1>10, Zenon DEF CommitOK, Work

\* A leaf half written when the process dies: its share was in flight, so with
\* it on file the trees still commit to no more than the credit.
LEMMA KillDuringLeafCommits ==
  ASSUME LeafInv, L!IInv, OnFile, NEW s \in Shares, KillDuringLeaf(s),
         NEW id \in Ids, CommitOK(id)
  PROVE  CommitOK(id)'
<1> DEFINE leaf == Leaf(bound[s], s)
           v == IF bound[s] = id THEN Worth[s] ELSE 0
<1>1. /\ up /\ stage[s] = "credited" /\ bound[s] \in Ids /\ L!Kill /\ Dies({})
      /\ trees \in [Ids -> Seq(Shares)] /\ leafFile = trees /\ ReplayedTrees = trees
  BY SameStart DEF KillDuringLeaf, LeafInv, SharesOK, TreesOK, Trees, OnFile,
                   ReplayedTrees, Push, NoTail
<1>2. PICK outcome \in LeafOutcomes : JournalLeaf(leaf, outcome)
  BY DEF KillDuringLeaf
<1>3. leaf \in Leaves /\ leaf.id = bound[s] /\ leaf.share = s
  BY <1>1 DEF Leaf, Leaves
<1>4. ReplayedTrees' \in {trees, Push(trees, leaf)}
  <2> HIDE DEF leaf
  <2>1. ReplayedTrees' \in {ReplayedTrees, leafFile, Push(leafFile, leaf)}
    BY <1>2, <1>3, LeafOutcome DEF LeafInv, TreesOK
  <2>2. QED
    BY <1>1, <2>1
<1>5. Push(trees, leaf) = [trees EXCEPT ![bound[s]] = Append(trees[bound[s]], s)]
  <2> HIDE DEF leaf
  <2>1. trees \in Trees
    BY <1>1 DEF Trees
  <2>2. QED
    BY <1>3, <2>1, PushDoes
<1>6. EffectiveTrees[id] = trees[id] /\ EffectiveTrees'[id] = ReplayedTrees'[id]
  BY <1>1 DEF EffectiveTrees, L!Kill, L!Down
<1>7. trees[id] \in Seq(Shares) /\ v \in Nat /\ Worth[s] \in Nat
  BY <1>1, CreditingAssumption
<1>8. Flying(stage, bound, id)[s] = v
  BY <1>1 DEF Flying
<1>9. \/ EffectiveTrees'[id] = trees[id]
      \/ bound[s] = id /\ EffectiveTrees'[id] = Append(trees[id], s)
  BY <1>1, <1>4, <1>5, <1>6
<1>10. PICK w \in Nat, f \in Nat, a \in Nat :
          /\ w = Work(EffectiveTrees[id]) /\ f = InFlight(id)
          /\ a = L!Effective.of[id].acc
  BY CommitNumbers, Zenon
<1>11. Balanced(w, f, a, lost) /\ w = Work(trees[id])
  BY <1>6, <1>10, Zenon DEF CommitOK
<1>12. v =< f
  BY <1>8, <1>10, PartOfFlight, Zenon
<1>13. PICK n \in Nat : n = Work(EffectiveTrees'[id]) /\ n =< w + v
  <2>1. CASE EffectiveTrees'[id] = trees[id]
    <3>1. w =< w + v
      BY <1>7, <1>10
    <3>2. w = Work(EffectiveTrees'[id])
      BY <1>11, <2>1, Zenon
    <3>3. QED
      BY <1>10, <3>1, <3>2, Zenon
  <2>2. CASE bound[s] = id /\ EffectiveTrees'[id] = Append(trees[id], s)
    <3>1. Work(Append(trees[id], s)) = Work(trees[id]) + Worth[s]
      BY <1>7, WorkAppend
    <3>2. v = Worth[s] /\ w + v \in Nat /\ w + v =< w + v
      BY <1>7, <1>10, <2>2
    <3>3. w + v = Work(EffectiveTrees'[id])
      BY <1>11, <2>2, <3>1, <3>2, Zenon
    <3>4. QED
      BY <3>2, <3>3, Zenon
  <2>3. QED
    BY <1>9, <2>1, <2>2
<1> HIDE DEF v
<1>14. n =< w + f
  BY <1>7, <1>10, <1>12, <1>13
<1>15. /\ InFlight(id)' = 0 /\ lost' # {}
  BY <1>1, DiesGrounds
<1>16. L!Effective'.of[id].acc = a
  BY <1>1, <1>10, KillKeepsCredit, Zenon
<1>17. Balanced(n, 0, a, lost')
  <2>1. a =< a
    BY <1>10
  <2>2. QED
    BY <1>10, <1>11, <1>13, <1>14, <1>15, <2>1, BalanceAfterKill
<1>18. QED
  BY <1>13, <1>15, <1>16, <1>17, Zenon DEF CommitOK, Work

-----------------------------------------------------------------------------
\* The balance over a start, and over every step.

\* A start that gets through, or not, restores the same credit and leaves.
LEMMA StartCommits ==
  ASSUME LeafInv, L!IInv, Start \/ StartFails, NEW id \in Ids, CommitOK(id)
  PROVE  CommitOK(id)'
<1>1. L!Start \/ L!StartFails
  BY SameStart DEF Start, StartFails
<1>2. ~up
  BY <1>1 DEF L!Start, L!StartFails
<1>3. L!Replayed' = L!Replayed /\ (L!Start => mem' = L!Replayed)
  <2>1. file' \in {L!Replayed, L!Compact(L!Replayed)} /\ tail' = L!NoTail
    BY <1>1 DEF L!Start, L!StartFails
  <2>2. L!Replay(file', L!NoTail) = L!Replayed
    BY <2>1, L!FileAfterReading, TargetAssumption, CreditingAssumption, WorthIsNat
  <2>3. L!Replayed' = L!Replay(file', tail')
    BY DEF L!Replayed, L!Replay, L!OpenIn, L!CreditIn, L!Knows
  <2>4. L!Start => mem' = L!Replayed
    BY DEF L!Start
  <2>5. QED
    BY <2>1, <2>2, <2>3, <2>4
<1>4. L!Effective' = L!Effective
  <2>1. CASE L!Start
    BY <1>2, <1>3, <2>1 DEF L!Effective, L!Start
  <2>2. CASE L!StartFails
    BY <1>2, <1>3, <2>2 DEF L!Effective, L!StartFails
  <2>3. QED
    BY <1>1, <2>1, <2>2
<1>5. EffectiveTrees' = EffectiveTrees
  <2>1. /\ ReplayedTrees' = ReplayedTrees
        /\ up' => trees' = ReplayedTrees
    BY RestoreStep DEF Start, StartFails, Ledger!StartFails
  <2>2. QED
    BY <1>2, <2>1 DEF EffectiveTrees
<1>6. UNCHANGED <<stage, bound, lost>>
  BY DEF Start, StartFails
<1>7. InFlight(id)' = InFlight(id)
  BY <1>6, FlightStays
<1>8. QED
  BY <1>4, <1>5, <1>6, <1>7, CommitStays, Zenon

\* Nothing has been credited, submitted or lost.
LEMMA InitCommits == Init => DownIsIdle /\ CommitInv
<1> SUFFICES ASSUME Init PROVE DownIsIdle /\ CommitInv
  OBVIOUS
<1>1. DownIsIdle
  BY DEF Init, DownIsIdle
<1>2. ASSUME NEW id \in Ids PROVE CommitOK(id)
  <2>1. EffectiveTrees[id] = <<>> /\ <<>> \in Seq(Shares)
    BY DEF Init, Ledger!Init, EffectiveTrees, ReplayedTrees, Push, NoTail, NoLeaves
  <2>2. Work(<<>>) = 0
    <3>1. PICK q \in Seq(Shares) : q = <<>>
      BY <2>1
    <3> DEFINE h == [i \in 1 .. Len(q) |-> Worth[q[i]]]
    <3>2. Work(q) = SumOver(h, 1 .. Len(q))
      BY WorkSums
    <3> HIDE DEF h
    <3>3. 1 .. Len(q) = {}
      BY <3>1
    <3>4. SumOver(h, 1 .. Len(q)) = 0
      BY <3>3, SumNone
    <3>5. QED
      BY <3>1, <3>2, <3>4, Zenon
  <2>3. InFlight(id) = 0
    <3> DEFINE g == Flying(stage, bound, id)
    <3>1. \A s \in Shares : g[s] = 0
      BY DEF Flying, Init
    <3> HIDE DEF g
    <3>2. SumOver(g, Shares) = 0
      BY <3>1, SumZeros, SharesAreFinite
    <3>3. QED
      BY <3>2 DEF InFlight, g
  <2>4. L!Effective.of[id].acc = 0
    BY LedgerSteps DEF Init, L!Init, L!Effective, L!Replayed, L!Replay, L!NoTail,
                       L!Empty, L!Absent
  <2>5. Balanced(0, 0, 0, lost)
    BY DEF Balanced
  <2>6. QED
    BY <2>1, <2>2, <2>3, <2>4, <2>5, Zenon DEF CommitOK
<1>3. QED
  BY <1>1, <1>2 DEF CommitInv

\* Only a kill ends the process, and it leaves no share half way.
LEMMA StepIdle ==
  ASSUME LeafInv, DownIsIdle, [Next]_vars
  PROVE  DownIsIdle'
<1>1. CASE \/ \E s \in Shares : KillDuringCredit(s) \/ KillDuringLeaf(s)
           \/ \E x \in Ids : KillDuringOpen(x)
           \/ Kill
  <2>1. \E also : Dies(also)
    BY <1>1 DEF KillDuringCredit, KillDuringLeaf, KillDuringOpen, Kill
  <2>2. QED
    BY <2>1, DiesShares DEF DownIsIdle
<1>2. CASE \/ \E s \in Shares : \/ CreditAccepted(s) \/ AppendLeaf(s)
                                \/ \E x \in Ids : Submit(s, x)
           \/ \E x \in Ids : Open(x)
           \/ Start
  <2>1. up'
    BY <1>2 DEF CreditAccepted, AppendLeaf, Submit, Open, Start, ledger,
                Ledger!CreditShare, Ledger!Open, Ledger!Start
  <2>2. QED
    BY <2>1 DEF DownIsIdle
<1>3. CASE StartFails \/ UNCHANGED vars
  <2>1. UNCHANGED <<up, stage>>
    BY <1>3 DEF StartFails, Ledger!StartFails, vars, ledger
  <2>2. QED
    BY <2>1 DEF DownIsIdle
<1>4. QED
  BY <1>1, <1>2, <1>3 DEF Next

\* An append that failed has failed for good.
LEMMA FailedStays ==
  ASSUME [Next]_vars, ~failed'
  PROVE  ~failed
<1>1. failed' = failed \/ failed' = (failed \/ (OnFile /\ ~OnFile'))
  BY DEF Next, Submit, CreditAccepted, AppendLeaf, KillDuringCredit, KillDuringLeaf,
         Open, KillDuringOpen, Kill, Start, StartFails, Dies, Appended, vars
<1>2. QED
  BY <1>1

\* Every step keeps the trees and the credit balanced.
LEMMA StepCommits ==
  ASSUME LeafInv, L!IInv, FilesMatch, CommitInv, [Next]_vars
  PROVE  CommitInv'
<1> SUFFICES ASSUME ~failed, NEW id \in Ids, CommitOK(id)
             PROVE  CommitOK(id)'
  BY FailedStays DEF CommitInv
<1>1. up => OnFile
  BY DEF FilesMatch
<1>2. ASSUME NEW s \in Shares, NEW x \in Ids, Submit(s, x) PROVE CommitOK(id)'
  BY <1>2, SubmitCommits
<1>3. ASSUME NEW s \in Shares, CreditAccepted(s) PROVE CommitOK(id)'
  BY <1>3, CreditCommits
<1>4. ASSUME NEW s \in Shares, AppendLeaf(s) PROVE CommitOK(id)'
  BY <1>4, AppendLeafCommits
<1>5. ASSUME NEW s \in Shares, KillDuringLeaf(s) PROVE CommitOK(id)'
  <2>1. up
    BY <1>5 DEF KillDuringLeaf
  <2>2. QED
    BY <1>1, <1>5, <2>1, KillDuringLeafCommits
<1>6. ASSUME NEW s \in Shares, KillDuringCredit(s) PROVE CommitOK(id)'
  <2>1. /\ up /\ bound[s] \in Ids /\ Dies({s}) /\ UNCHANGED <<leafFile, leafTail>>
        /\ Ledger!KillDuringCredit(bound[s], Worth[s])
    BY <1>6 DEF KillDuringCredit, LeafInv, SharesOK, Ledger!KillDuringCredit
  <2>2. QED
    BY <1>1, <2>1, KillCommits
<1>7. ASSUME NEW x \in Ids, KillDuringOpen(x) PROVE CommitOK(id)'
  <2>1. up /\ Dies({}) /\ UNCHANGED <<leafFile, leafTail>> /\ Ledger!KillDuringOpen(x)
    BY <1>7 DEF KillDuringOpen, Ledger!KillDuringOpen
  <2>2. QED
    BY <1>1, <2>1, KillCommits
<1>8. ASSUME Kill PROVE CommitOK(id)'
  <2>1. up /\ Dies({}) /\ UNCHANGED <<leafFile, leafTail>> /\ Ledger!Kill
    BY <1>8 DEF Kill, Ledger!Kill
  <2>2. QED
    BY <1>1, <2>1, KillCommits
<1>9. ASSUME NEW x \in Ids, Open(x) PROVE CommitOK(id)'
  BY <1>9, OpenCommits
<1>10. ASSUME Start \/ StartFails PROVE CommitOK(id)'
  BY <1>10, StartCommits
<1>11. ASSUME UNCHANGED vars PROVE CommitOK(id)'
  <2>1. /\ EffectiveTrees' = EffectiveTrees /\ lost' = lost
        /\ L!Effective' = L!Effective /\ UNCHANGED <<stage, bound>>
    BY <1>11 DEF vars, ledger, leaves, EffectiveTrees, ReplayedTrees, L!Effective, L!Replayed
  <2>2. InFlight(id)' = InFlight(id)
    BY <2>1, FlightStays
  <2>3. QED
    BY <2>1, <2>2, CommitStays, Zenon
<1>12. QED
  BY <1>2, <1>3, <1>4, <1>5, <1>6, <1>7, <1>8, <1>9, <1>10, <1>11 DEF Next

-----------------------------------------------------------------------------
\* The theorem.

\* What the invariant says of the state, in the terms of TreeIsTheCredit.
LEMMA SameBooks ==
  /\ Ledger!Effective = L!Effective
  /\ Ledger!TypeOK <=> L!TypeOK
<1>1. Ledger!Effective = L!Effective
  BY DEF Ledger!Effective, L!Effective, Ledger!Replayed, L!Replayed,
         Ledger!Replay, L!Replay, Ledger!Knows, L!Knows, Ledger!OpenIn, L!OpenIn,
         Ledger!CreditIn, L!CreditIn, Ledger!CreditHashes, L!CreditHashes,
         Ledger!New, L!New
<1>2. Ledger!TypeOK <=> L!TypeOK
  BY DEF Ledger!TypeOK, L!TypeOK, Ledger!Book, L!Book, Ledger!Redemption, L!Redemption,
         Ledger!States, L!States, Ledger!Records, L!Records, Ledger!NoTail, L!NoTail,
         Ledger!Torn, L!Torn
<1>3. QED
  BY <1>1, <1>2

\* The two history variables keep their types.
HistoryOK == lost \subseteq Shares /\ failed \in BOOLEAN

LEMMA StepHistory ==
  ASSUME HistoryOK, [Next]_vars
  PROVE  HistoryOK'
<1>1. failed' \in BOOLEAN
  <2>1. failed' = failed \/ failed' = (failed \/ (OnFile /\ ~OnFile'))
    BY DEF Next, Submit, CreditAccepted, AppendLeaf, KillDuringCredit, KillDuringLeaf,
           Open, KillDuringOpen, Kill, Start, StartFails, Dies, Appended, vars
  <2>2. QED
    BY <2>1, Zenon DEF HistoryOK
<1>2. \/ lost' = lost
      \/ \E s \in Shares : lost' = lost \cup {s} \cup {x \in Shares : stage[x] = "credited"}
      \/ lost' = lost \cup {} \cup {x \in Shares : stage[x] = "credited"}
  BY DEF Next, Submit, CreditAccepted, AppendLeaf, KillDuringCredit, KillDuringLeaf,
         Open, KillDuringOpen, Kill, Start, StartFails, Dies, vars
<1>3. QED
  BY <1>1, <1>2 DEF HistoryOK

\* The invariant is inductive.
LEMMA CreditInvKept ==
  /\ Init => CreditInv /\ HistoryOK
  /\ CreditInv /\ HistoryOK /\ [Next]_vars => CreditInv' /\ HistoryOK'
<1>1. Init => CreditInv /\ HistoryOK
  <2>1. Init => FilesMatch /\ HistoryOK
    BY DEF Init, Ledger!Init, FilesMatch, HistoryOK
  <2>2. QED
    BY <2>1, InitLeafInv, LedgerKept, InitCommits DEF CreditInv
<1>2. ASSUME CreditInv, HistoryOK, [Next]_vars
      PROVE  CreditInv' /\ HistoryOK'
  <2>1. LeafInv' /\ L!IInv' /\ FilesMatch'
    BY <1>2, StepLeafInv, LedgerKept, StepFilesMatch DEF CreditInv, LeafInv
  <2>2. DownIsIdle' /\ CommitInv' /\ HistoryOK'
    BY <1>2, StepIdle, StepCommits, StepHistory DEF CreditInv
  <2>3. QED
    BY <2>1, <2>2 DEF CreditInv
<1>3. QED
  BY <1>1, <1>2

\* As long as no append has failed, the tree of a redemption commits to no
\* more work than was credited, over every kill and restart; and to exactly
\* that work when no connection is between its credit and its leaf and no kill
\* has taken a leaf.
THEOREM TreeIsTheCreditHolds == Spec => []TreeIsTheCredit
<1>1. CreditInv /\ HistoryOK => TypeOK
  <2> SUFFICES ASSUME CreditInv, HistoryOK PROVE TypeOK
    OBVIOUS
  <2>1. L!TypeOK
    BY DEF CreditInv, L!IInv, L!GhostsOK, L!TailOK, L!MemoryOK, L!FileOK, L!Journalled, L!TypeOK
  <2>2. Ledger!TypeOK
    BY <2>1, SameBooks
  <2>3. /\ stage \in [Shares -> Stages] /\ bound \in [Shares -> Ids \cup {NoBinding}]
        /\ trees \in Trees /\ leafFile \in Trees /\ counted \in Trees
        /\ leafTail \in Leaves \cup {NoTail, Torn}
    BY DEF CreditInv, LeafInv, SharesOK, TreesOK
  <2>4. QED
    BY <2>2, <2>3, Zenon DEF TypeOK, HistoryOK
<1>2. CreditInv => TreeWithinCredit
  <2> SUFFICES ASSUME CreditInv, ~failed, NEW id \in Ids
               PROVE  Work(EffectiveTrees[id]) =< L!Effective.of[id].acc
    BY SameBooks DEF TreeWithinCredit
  <2>1. PICK w \in Nat, f \in Nat, a \in Nat :
           /\ w = Work(EffectiveTrees[id]) /\ f = InFlight(id)
           /\ a = L!Effective.of[id].acc
    BY CommitNumbers, Zenon DEF CreditInv
  <2>2. Balanced(w, f, a, lost)
    BY <2>1, Zenon DEF CreditInv, CommitInv, CommitOK
  <2>3. w =< a
    BY <2>1, <2>2 DEF Balanced
  <2>4. QED
    BY <2>1, <2>3, Zenon
<1>3. CreditInv => TreeCoversCredit
  <2> SUFFICES ASSUME CreditInv, ~failed, up, lost = {}, \A c \in Conns : ~Busy(c),
                      NEW id \in Ids
               PROVE  Work(trees[id]) = mem.of[id].acc
    BY DEF TreeCoversCredit
  <2>1. \A s \in Shares : stage[s] # "credited"
    BY CreditingAssumption DEF Busy
  <2>2. InFlight(id) = 0
    <3> DEFINE g == Flying(stage, bound, id)
    <3>1. \A s \in Shares : g[s] = 0
      BY <2>1 DEF Flying
    <3> HIDE DEF g
    <3>2. SumOver(g, Shares) = 0
      BY <3>1, SumZeros, SharesAreFinite
    <3>3. QED
      BY <3>2 DEF InFlight, g
  <2>3. PICK w \in Nat, a \in Nat :
           /\ w = Work(EffectiveTrees[id]) /\ a = L!Effective.of[id].acc
    BY CommitNumbers, Zenon DEF CreditInv
  <2>4. Balanced(w, 0, a, lost)
    BY <2>2, <2>3, Zenon DEF CreditInv, CommitInv, CommitOK
  <2>5. w = a
    BY <2>3, <2>4 DEF Balanced
  <2>6. EffectiveTrees = trees /\ L!Effective = mem
    BY DEF EffectiveTrees, L!Effective
  <2>7. QED
    BY <2>3, <2>5, <2>6, Zenon
<1> DEFINE I == CreditInv /\ HistoryOK
<1>4. I => TreeIsTheCredit
  BY <1>1, <1>2, <1>3 DEF TreeIsTheCredit
<1>5. (Init => I) /\ (I /\ [Next]_vars => I')
  BY CreditInvKept
<1> HIDE DEF I
<1>6. QED
  BY <1>4, <1>5, PTL DEF Spec

=============================================================================
