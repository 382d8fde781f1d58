SPECIFICATION Spec
CONSTANTS
    r1 = r1
    r2 = r2
    NoOne = NoOne
    Requests <- TwoRequests
    MaxAttempts = 1
    MaxGen = 1
PROPERTIES
    RequestsEnd
