---------------------------- MODULE MCPoolRouter ----------------------------
\* Instance of PoolRouter for TLC.
EXTENDS PoolRouter, TLC

CONSTANTS r1, r2, c1, c2, c3

MCIds == {r1, r2}
MCTarget == (r1 :> 1) @@ (r2 :> 2)

=============================================================================
