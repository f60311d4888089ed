\* Two streams and one token: an account socket without keepalive and a market
\* stream, whose reader closes it on a refusal.
SPECIFICATION Spec
CONSTANTS
    Streams = {"sub", "mkt"}
    Subscriptions = {"sub"}
    Pinged = {}
    Gens = {"g1"}
    NoConn = "nil"
    MaxConnections = 1
    MinDelay = 1
    MaxDelay = 1
    MaxWaits = 1
INVARIANTS SlotPerStream ConnectionsAccounted
PROPERTIES ContractHolds
