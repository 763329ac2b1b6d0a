-------------------------- MODULE MCMeltSettlement --------------------------
\* Instances of MeltSettlement for TLC: two quotes carry one request, the
\* third carries another.
EXTENDS MeltSettlement, TLC

CONSTANTS r1, r2, q1, q2, q3

MCIds == {r1, r2}
MCTarget == (r1 :> 2) @@ (r2 :> 1)
MCQuotes == {q1, q2, q3}
MCRequestOf == (q1 :> r1) @@ (q2 :> r1) @@ (q3 :> r2)
MCShareHashes == {1}

=============================================================================
