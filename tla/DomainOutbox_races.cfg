SPECIFICATION Spec
CONSTANTS
    e1 = e1
    e2 = e2
    w1 = w1
    w2 = w2
    c1 = c1
    c2 = c2
    Events <- OneEvent
    Relays <- TwoRelays
    Consumers <- TwoConsumers
    MaxAttempts = 2
    BatchSize = 2
    MaxCopies = 2
    MaxFaults = 2
    MaxRequeues = 1
INVARIANTS
    OutboxIsSound
    PublishedIsStored
    QuarantineIsEarned
PROPERTIES
    PublishedIsFinal
CHECK_DEADLOCK FALSE
