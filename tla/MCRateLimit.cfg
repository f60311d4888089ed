\* Callers of weight 1 and 3 on one bucket and an order writer on another, a cancel: 429s,
\* cancellations, late timers, labelled and unlabelled reports.
SPECIFICATION Spec
CONSTANTS
    Requests = {"one", "heavy", "order", "cancel"}
    ClassOf <- Class
    WeightOf <- Weight
    Labels = {"none"}
    Limits = {1, 2}
    RetryAfters = {2}
    Second = 1
    SlowLock = FALSE
    LateTimers = TRUE
    MayCancel = TRUE
    MaxNow = 3
INVARIANTS TypeOK Paced
PROPERTIES BlockHonoured
\* The model stops when the clock reaches its bound.
CHECK_DEADLOCK FALSE
