\* One account socket with keepalive and writers, two connections: a dropped one
\* whose keepalive still runs, and its successor.
SPECIFICATION Spec
CONSTANTS
    Streams = {"sub"}
    Subscriptions = {"sub"}
    Pinged = {"sub"}
    Gens = {"g1", "g2"}
    NoConn = "nil"
    MaxConnections = 1
    MinDelay = 1
    MaxDelay = 4
    MaxWaits = 4
INVARIANTS TypeOK OneConnection NoLeakedConnection KeepaliveFollowsConn BackoffEscalates
PROPERTIES StaleIsReported ContractHolds
