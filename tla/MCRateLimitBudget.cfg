CONSTANTS
    MaxRetries = 3
    HasDb = TRUE
SPECIFICATION Spec
INVARIANTS
    RateLimitIsFree
CHECK_DEADLOCK FALSE
