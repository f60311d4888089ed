\* Two markets, a drop and a call, and a server that serves every subscribe.
SPECIFICATION FairSpec
CONSTANTS
    Channels = {"tradesA", "tradesB"}
    NameOf <- AllNames
    MayRefuse = FALSE
    RereadAtOnce = FALSE
    Redundant = TRUE
    MaxSeq = 1
    MaxQueue = 1
    MaxDrops = 1
    MaxCalls = 1
PROPERTIES ChannelServed
\* The model stops once the Subscription is closed or every bound is reached.
CHECK_DEADLOCK FALSE
