------------------------- MODULE MCRedemptionLedger -------------------------
\* Instances of RedemptionLedger for TLC.
EXTENDS RedemptionLedger, TLC

CONSTANTS r1, r2

MCIds == {r1, r2}
MCTarget == (r1 :> 2) @@ (r2 :> 3)
MCShareHashes == {0, 1, 2}
MCMaxWork == 4

=============================================================================
