------------------------------- MODULE MCPgPool -------------------------------
\* Instances of PgPool for TLC.
EXTENDS PgPool

CONSTANTS c1, c2, c3, p1, p2
=============================================================================
