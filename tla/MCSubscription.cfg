\* Two markets of one name: an out_of_sync that names no market hits both.
SPECIFICATION Spec
CONSTANTS
    Channels = {"tradesA", "tradesB"}
    NameOf <- AllNames
    MayRefuse = TRUE
    RereadAtOnce = FALSE
    Redundant = FALSE
    MaxSeq = 2
    MaxQueue = 1
    MaxDrops = 2
    MaxCalls = 2
INVARIANTS TypeOK CursorNotAhead
PROPERTIES NoSilentGap SeqIncreases
\* The model stops once the Subscription is closed or every bound is reached.
CHECK_DEADLOCK FALSE
