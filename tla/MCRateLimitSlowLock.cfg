\* A request waits for the lock of the bucket after it has read the clock.
SPECIFICATION Spec
CONSTANTS
    Requests = {"one", "two"}
    ClassOf <- Class
    WeightOf <- Weight
    Labels = {"key"}
    Limits = {1}
    RetryAfters = {}
    Second = 1
    SlowLock = TRUE
    LateTimers = FALSE
    MayCancel = FALSE
    MaxNow = 4
INVARIANTS Paced
\* The model stops when the clock reaches its bound.
CHECK_DEADLOCK FALSE
