---------------------------- MODULE MCRateLimit ----------------------------
EXTENDS RateLimit

\* Callers are named for their class or their weight.
Class == [r \in Requests |-> IF r \in Classes THEN r ELSE "request"]
Weight == [r \in Requests |-> IF r = "heavy" THEN 3 ELSE 1]
=============================================================================
