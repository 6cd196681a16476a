------------------------------- MODULE MCBoot -------------------------------
\* Instances of Boot for TLC.
EXTENDS Boot

CONSTANTS s1, s2, v1

\* All programs compiled, and the documented installation: db:init from source, then the
\* compiled server.
Compiled == [p \in Programs |-> "js"]
FromSource == [p \in Programs |-> IF p \in Servers THEN "js" ELSE "ts"]
=============================================================================
