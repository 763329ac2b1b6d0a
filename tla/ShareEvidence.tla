---------------------------- MODULE ShareEvidence ----------------------------
(***************************************************************************)
(* What an accepted share is committed as: the header the proxy rebuilds   *)
(* from the lines of the job and of the submit (stratum/header.rs), and    *)
(* its difficulty in compact form (stratum/compact.rs).  Byte strings are  *)
(* sequences and the hash of a string is <<string>>; a u32 is the four     *)
(* bytes of its hex digits, and of a byte there is one bit.                *)
(***************************************************************************)
EXTENDS Integers, Sequences, SequencesExt

CONSTANTS
    Words,          \* values of a u32
    Strings,        \* values of an extranonce
    None,
    Base,           \* 256
    OneSize,        \* 29: the size byte of difficulty one
    MaxSize,        \* 255
    MaxDifficulty   \* bound: numerator and denominator of a difficulty

VARIABLE input      \* a job, as it is in the block, with a submit; or a difficulty

-----------------------------------------------------------------------------
\* header.rs

LittleEndian(word) == Reverse(word)

\* The pool sends the words of the hash with their bytes swapped.
ParsePrevHash(wire) == [i \in DOMAIN wire |-> Reverse(wire[i])]

Sha256d(data) == <<data>>

CoinbaseTxHash(coinb1, en1, en2, coinb2) == Sha256d(coinb1 \o en1 \o en2 \o coinb2)

\* The coinbase is the first leaf, so that the hash is always on the left.
MerkleRootFromBranch(coinbase, branch) ==
    FoldLeft(LAMBDA acc, sibling : Sha256d(<<acc, sibling>>), coinbase, branch)

Version(version, mask) ==
    IF mask = None THEN version ELSE [i \in DOMAIN version |-> (version[i] + mask[i]) % 2]

BuildBlockHeader(job, en1, submit) ==
    << LittleEndian(Version(job.version, submit.version_mask)),
       ParsePrevHash(job.prev_hash),
       MerkleRootFromBranch(CoinbaseTxHash(job.coinb1, en1, submit.extranonce2, job.coinb2), job.branch),
       LittleEndian(submit.ntime),
       LittleEndian(job.nbits),
       LittleEndian(submit.nonce) >>

-----------------------------------------------------------------------------
\* compact.rs, with a difficulty as numerator and denominator.

OneMantissa == Base ^ 2 - 1
MinMantissa == Base ^ 2 \div 2
MaxMantissa == Base ^ 3 \div 2 - 1

Round(n, d) == (2 * n + d) \div (2 * d)

Bits(mantissa, size) == [mantissa |-> mantissa, size |-> size]

\* The first loop scales a small mantissa n / d up, and gives up at size 3;
\* the second one scales a large one down, and gives up at the last size.
ScaledUp[n \in Nat, size \in Nat, d \in Nat] ==
    IF n >= MinMantissa * d THEN <<n, size>>
    ELSE IF size = 3 THEN <<MinMantissa * d, 3>> ELSE ScaledUp[n * Base, size - 1, d]

ScaledDown[n \in Nat, size \in Nat, d \in Nat] ==
    IF n <= MaxMantissa * d THEN Bits(Round(n, d), size)
    ELSE IF size = MaxSize THEN Bits(MaxMantissa, MaxSize) ELSE ScaledDown[n, size + 1, d * Base]

\* Mutant: the size of a mantissa scaled up is kept.
TargetBitsKeepsSize(D) ==
    IF D[1] = 0
    THEN Bits(OneMantissa, OneSize)
    ELSE LET up == ScaledUp[OneMantissa * D[2], OneSize, D[1]] IN ScaledDown[up[1], OneSize, D[1]]

TargetBitsFromDifficulty(D) ==
    IF D[1] = 0
    THEN Bits(OneMantissa, OneSize)
    ELSE LET up == ScaledUp[OneMantissa * D[2], OneSize, D[1]] IN ScaledDown[up[1], up[2], D[1]]

TargetFromCompact(bits) == bits.mantissa * Base ^ (bits.size - 3)

-----------------------------------------------------------------------------
\* The inputs, and what the pool has.

Block(version, branch) ==
    [version |-> version, prev |-> << <<0, 0, 1, 1>>, <<0, 1, 0, 0>> >>, branch |-> branch,
     coinb1 |-> <<0>>, coinb2 |-> <<1, 1>>, nbits |-> <<0, 1, 1, 1>>]

Notify(block) ==
    [version |-> Reverse(block.version), prev_hash |-> [i \in DOMAIN block.prev |-> Reverse(block.prev[i])],
     branch |-> block.branch, coinb1 |-> block.coinb1, coinb2 |-> block.coinb2,
     nbits |-> Reverse(block.nbits)]

\* Leaf 0 below the branch, the rolled bits set in the version, and all in
\* the order blocks have it.
PoolHeader(block, en1, s) ==
    LET coinbase == << block.coinb1 \o en1 \o s.extranonce2 \o block.coinb2 >>
        up[n \in 0..Len(block.branch)] ==
            IF n = 0 THEN coinbase ELSE << <<up[n - 1], block.branch[n]>> >>
        set(i) == s.version_mask # None /\ s.version_mask[5 - i] = 1 IN
    << [i \in 1..4 |-> IF set(i) THEN 1 ELSE block.version[i]],
       block.prev, up[Len(block.branch)], Reverse(s.ntime), block.nbits, Reverse(s.nonce) >>

Init ==
    \/ input \in [block : {Block(v, b) : v \in Words, b \in {<<>>, << <<1>> >>, << <<1>>, <<0>> >>}},
                  extranonce1 : Strings,
                  submit : [extranonce2 : Strings, ntime : Words, nonce : Words,
                            version_mask : Words \cup {None}]]
    \/ input \in [difficulty : (0..MaxDifficulty) \X (1..MaxDifficulty)]

Next == UNCHANGED input

Spec == Init /\ [][Next]_input

-----------------------------------------------------------------------------

IsHeader == "block" \in DOMAIN input

\* A mask only rolls bits that are clear in the version of the job.
RollsClearBits ==
    LET mask == input.submit.version_mask IN
    mask # None => \A i \in 1..4 : mask[i] + input.block.version[5 - i] < 2

\* header.rs: the header rebuilt from the lines is the one the pool judged.
HeaderIsThePools ==
    IsHeader /\ RollsClearBits =>
        BuildBlockHeader(Notify(input.block), input.extranonce1, input.submit)
            = PoolHeader(input.block, input.extranonce1, input.submit)

Exhausted(bits) == bits.size = 3 \/ bits.size = MaxSize

\* compact.rs: the encoded target has no sign bit and is within half a unit
\* of its last place of the exact one, unless the sizes are exhausted.
TargetIsNear ==
    ~IsHeader =>
        LET D == input.difficulty
            bits == TargetBitsFromDifficulty(D)
            unit == Base ^ (bits.size - 3)
            exact == OneMantissa * Base ^ (OneSize - 3) * D[2]
            off == TargetFromCompact(bits) * D[1] - exact IN
        /\ bits.mantissa \in MinMantissa..MaxMantissa
        /\ D[1] > 0 /\ ~Exhausted(bits) => 2 * off <= unit * D[1] /\ -2 * off <= unit * D[1]

\* A higher difficulty is never committed as an easier target.
HarderIsNotEasier ==
    ~IsHeader /\ input.difficulty[1] > 0 =>
        LET D == input.difficulty
            target(d) == TargetFromCompact(TargetBitsFromDifficulty(d)) IN
        target(<<D[1] + 1, D[2]>>) <= target(D)

\* A leaf holds what the pool judged by: the three together.
LeafIsWhatWasJudged == HeaderIsThePools /\ TargetIsNear /\ HarderIsNotEasier

=============================================================================
