---------------------------- MODULE MCGithubDriver ----------------------------
\* Instances of GithubDriver for TLC.
EXTENDS GithubDriver, TLC

CONSTANTS c1, c2, c3, s1, v1, v2
=============================================================================
