---- MODULE MCIssueGraph ----
EXTENDS IssueGraph, TLC

CONSTANTS i1, i2, i3, r1, r2

\* Issues are alike, and so are requests; no run of this module checks liveness.
Alike == Permutations({i1, i2, i3}) \cup Permutations({r1, r2})
====
