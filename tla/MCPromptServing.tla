--------------------------- MODULE MCPromptServing ---------------------------
\* Instances of PromptServing for TLC.
EXTENDS PromptServing, TLC

CONSTANTS r1, r2

\* Two creates of version 1 may overlap.
TwoOfOne == {<<1, 1>>, <<1, 2>>, <<2, 1>>}

Symmetry == Permutations({r1, r2})
=============================================================================
