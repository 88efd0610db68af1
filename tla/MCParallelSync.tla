--------------------------- MODULE MCParallelSync ---------------------------
\* ParallelSync for TLC: the constants are given in the configurations.
EXTENDS ParallelSync
=============================================================================
