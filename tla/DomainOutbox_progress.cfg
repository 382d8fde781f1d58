SPECIFICATION Spec
CONSTANTS
    e1 = e1
    e2 = e2
    w1 = w1
    w2 = w2
    c1 = c1
    c2 = c2
    Events <- TwoEvents
    Relays <- OneRelay
    Consumers <- OneConsumer
    MaxAttempts = 2
    BatchSize = 1
    MaxCopies = 1
    MaxFaults = 1
    MaxRequeues = 1
PROPERTIES
    EventuallySettled
    EventuallyReceived
    ImplementsEventChain
CHECK_DEADLOCK FALSE
