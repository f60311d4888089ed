SPECIFICATION Spec
CONSTANTS
    Calls = {c1, c2}
    None = None
    Ops <- Mixed
    MaxRetries = 1
    TTL = 3
    Margin = 2
    Timeout = 1
    MaxRestarts = 1
    MaxNow = 4
INVARIANTS TypeOK OnceAtMost FinalIsFinal NeverLapsed CallerKnows RefusedOnlyOverlapped OneLookup
PROPERTIES NonceIncreases
CHECK_DEADLOCK FALSE
