-------------------------- MODULE MCPromptRegistry --------------------------
\* Instances of PromptRegistry for TLC.
EXTENDS PromptRegistry, TLC

CONSTANTS c1, c2, c3, k1, k2

\* Create calls and keys are interchangeable (safety runs only).
Symmetry == Permutations(Creates) \union Permutations(Keys)
=============================================================================
