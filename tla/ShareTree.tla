------------------------------ MODULE ShareTree ------------------------------
(***************************************************************************)
(* The share tree (hashu-core/src/share.rs) and the tree of a connection   *)
(* (stratum/committer.rs): roots, inclusion proofs and their verification. *)
(* A leaf hash is <<leaf>> and the hash of a pair <<left, right>>, so that *)
(* two hashes are equal only if what was hashed is.                        *)
(***************************************************************************)
EXTENDS Naturals, Sequences, SequencesExt

LeafHash(leaf) == <<leaf>>
HashPair(left, right) == <<left, right>>

LargestPow2LessThan(n) == CHOOSE k \in {2 ^ i : i \in 0..n} : k < n /\ 2 * k >= n

RECURSIVE MerkleTreeHash(_)
MerkleTreeHash(layer) ==
    IF Len(layer) = 1
    THEN layer[1]
    ELSE LET k == LargestPow2LessThan(Len(layer)) IN
         HashPair(MerkleTreeHash(SubSeq(layer, 1, k)),
                  MerkleTreeHash(SubSeq(layer, k + 1, Len(layer))))

\* Mutant: the siblings from the root down.
RECURSIVE AuditPathTopDown(_, _)
AuditPathTopDown(idx, layer) ==
    IF Len(layer) = 1
    THEN <<>>
    ELSE LET k == LargestPow2LessThan(Len(layer))
             left == SubSeq(layer, 1, k)
             right == SubSeq(layer, k + 1, Len(layer)) IN
         IF idx < k
         THEN <<MerkleTreeHash(right)>> \o AuditPathTopDown(idx, left)
         ELSE <<MerkleTreeHash(left)>> \o AuditPathTopDown(idx - k, right)

\* The siblings of leaf idx, counted from 0, from the leaf up.
RECURSIVE AuditPath(_, _)
AuditPath(idx, layer) ==
    IF Len(layer) = 1
    THEN <<>>
    ELSE LET k == LargestPow2LessThan(Len(layer))
             left == SubSeq(layer, 1, k)
             right == SubSeq(layer, k + 1, Len(layer)) IN
         IF idx < k
         THEN Append(AuditPath(idx, left), MerkleTreeHash(right))
         ELSE Append(AuditPath(idx - k, right), MerkleTreeHash(left))

InclusionProof(idx, layer) ==
    [leaf_index |-> idx, tree_size |-> Len(layer), siblings |-> AuditPath(idx, layer)]

Odd(n) == n % 2 = 1

\* A node at the right edge was promoted until its index is odd.
RECURSIVE Collapse(_, _)
Collapse(fn, sn) == IF Odd(fn) \/ fn = 0 THEN <<fn, sn>> ELSE Collapse(fn \div 2, sn \div 2)

\* Mutant: a node at the right edge is taken for one with a sibling there.
RECURSIVE ClimbUncollapsed(_, _, _, _)
ClimbUncollapsed(r, fn, sn, siblings) ==
    IF siblings = <<>> THEN <<r, sn>>
    ELSE LET s == Head(siblings) IN
         ClimbUncollapsed(IF Odd(fn) \/ fn = sn THEN HashPair(s, r) ELSE HashPair(r, s),
                          fn \div 2, sn \div 2, Tail(siblings))

\* The hash reached from r, and the last index left at its level.
RECURSIVE Climb(_, _, _, _)
Climb(r, fn, sn, siblings) ==
    IF siblings = <<>> THEN <<r, sn>>
    ELSE IF sn = 0 THEN <<r, 1>>        \* the proof is too long
    ELSE IF Odd(fn) \/ fn = sn
    THEN LET at == Collapse(fn, sn) IN
         Climb(HashPair(Head(siblings), r), at[1] \div 2, at[2] \div 2, Tail(siblings))
    ELSE Climb(HashPair(r, Head(siblings)), fn \div 2, sn \div 2, Tail(siblings))

\* Mutant: what is left above the last sibling does not matter.
VerifyInclusionShort(leaf, proof, root) ==
    proof.leaf_index < proof.tree_size
    /\ Climb(leaf, proof.leaf_index, proof.tree_size - 1, proof.siblings)[1] = root

VerifyInclusion(leaf, proof, root) ==
    /\ proof.leaf_index < proof.tree_size
    /\ IF proof.tree_size = 1
       THEN proof.siblings = <<>> /\ leaf = root
       ELSE Climb(leaf, proof.leaf_index, proof.tree_size - 1, proof.siblings) = <<root, 0>>

\* The order of the pushes is the order of the leaves, and a leaf's seq.
PushLeaf(tree, evidence) == Append(tree, [evidence |-> evidence, seq |-> Len(tree)])

LayerOf(tree) == [i \in DOMAIN tree |-> LeafHash(tree[i])]

-----------------------------------------------------------------------------
\* The reference: nodes are paired level by level and an odd one promoted.

NextLevel(layer) ==
    [i \in 1..((Len(layer) + 1) \div 2) |->
        IF 2 * i <= Len(layer) THEN HashPair(layer[2 * i - 1], layer[2 * i]) ELSE layer[2 * i - 1]]

RECURSIVE RootByLevels(_)
RootByLevels(layer) == IF Len(layer) = 1 THEN layer[1] ELSE RootByLevels(NextLevel(layer))

=============================================================================
