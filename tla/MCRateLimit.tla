---------------------------- MODULE MCRateLimit ----------------------------
\* Instances of RateLimit for TLC.
EXTENDS RateLimit, TLC

CONSTANTS r1, r2, r3, r4

Symmetry == Permutations(Requests)
=============================================================================
