SPECIFICATION Spec
CONSTANTS
    w1 = w1
    w2 = w2
    i1 = i1
    i2 = i2
    NoOne = NoOne
    Objects <- OneObject
    MaxVersion = 2
    EventTypes <- UpsertsAndDeletes
    TypeOf <- DeletedAtTwo
    ScopeOf <- AllNeighbourhood
    Workers <- OneWorker
    Instances <- TwoInstances
    Configs <- NarrowConfigs
    InPolicies <- Changing
    MaxAttempts = 2
    BatchSize = 2
    MaxFaults = 1
    MaxBoots = 2
INVARIANTS
    PolicyIsRespected
PROPERTIES
    DeliveredIsFinal
    ReservedIsSettled
