-------------------------- MODULE MCStratumSession --------------------------
\* Instances of StratumSession for TLC.
EXTENDS StratumSession

CONSTANTS a, b

MCDifficulties == {1, 2}
OneDifficulty == {1}

=============================================================================
