--------------------------- MODULE MCExperiments ---------------------------
\* Instances of Experiments for TLC.
EXTENDS Experiments, TLC

CONSTANTS t1, v1, v2, c1, c2, c3

Symmetry == Permutations({v1, v2}) \union Permutations({c1, c2, c3})
=============================================================================
