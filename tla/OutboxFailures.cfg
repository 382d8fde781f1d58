SPECIFICATION FailureSpec
CONSTANTS
    Events = {e1}
    Relays = {w1, w2}
    Consumers = {c1}
    MaxAttempts = 2
    BatchSize = 1
    MaxCopies = 1
    MaxFaults = 0
    MaxRequeues = 0
INVARIANT QuarantineAfterFailures
CHECK_DEADLOCK FALSE
