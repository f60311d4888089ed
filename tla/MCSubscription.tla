--------------------------- MODULE MCSubscription ---------------------------
EXTENDS Subscription

\* One account channel and two markets of a public one
AllNames == [ch \in Channels |-> IF ch = "fills" THEN "fills" ELSE "trades"]
=============================================================================
