--------------------------- MODULE MCLedgerJournal --------------------------
\* Instances of LedgerJournal for TLC.
EXTENDS LedgerJournal

CONSTANTS r1, r2

MCIds == {r1, r2}
MCTarget == (r1 :> 2) @@ (r2 :> 2)
MCShareHashes == {1}
MCNonAsciiIds == {r2}
MCMaxWork == 2

=============================================================================
