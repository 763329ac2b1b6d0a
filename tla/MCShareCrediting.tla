-------------------------- MODULE MCShareCrediting --------------------------
\* Instances of ShareCrediting for TLC: two connections, one of which has two
\* shares in flight, and two redemptions.
EXTENDS ShareCrediting

CONSTANTS r1, r2, s1, s2, s3, c1, c2

MCIds == {r1, r2}
MCTarget == (r1 :> 2) @@ (r2 :> 1)
MCShares == {s1, s2, s3}
MCWorth == (s1 :> 1) @@ (s2 :> 2) @@ (s3 :> 1)
MCConns == {c1, c2}
MCConnOf == (s1 :> c1) @@ (s2 :> c1) @@ (s3 :> c2)

=============================================================================
