---- MODULE MCCouncilRun ----
EXTENDS CouncilRun
CONSTANTS a1, a2, a3
====
