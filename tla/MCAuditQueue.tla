---------------------------- MODULE MCAuditQueue ----------------------------
\* Instances of AuditQueue for TLC.
EXTENDS AuditQueue, TLC

CONSTANTS e1, e2, e3, f1, f2, s1, s2
=============================================================================
