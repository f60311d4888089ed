\* One account socket with keepalive, fair goroutines.
SPECIFICATION FairSpec
CONSTANTS
    Streams = {"sub"}
    Subscriptions = {"sub"}
    Pinged = {"sub"}
    Gens = {"g1"}
    NoConn = "nil"
    MaxConnections = 1
    MinDelay = 1
    MaxDelay = 1
    MaxWaits = 1
PROPERTIES CloseReturns CloseWakesNext SilenceEnds KeepaliveEnds
