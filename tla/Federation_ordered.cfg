SPECIFICATION Spec
CONSTANTS
    w1 = w1
    w2 = w2
    i1 = i1
    i2 = i2
    NoOne = NoOne
    Objects <- OneObject
    MaxVersion = 2
    EventTypes <- UpsertsAndDeletes
    TypeOf <- DeletedAtTwo
    ScopeOf <- AllGlobal
    Workers <- TwoWorkers
    Instances <- TwoInstances
    Configs <- OpenConfigs
    InPolicies <- AcceptingOnly
    MaxAttempts = 2
    BatchSize = 2
    MaxFaults = 2
    MaxBoots = 2
INVARIANTS
    DeliveryIsSound
    InOrderWithoutGaps
PROPERTIES
    LeaseIsExclusive
    ImplementsHistory
