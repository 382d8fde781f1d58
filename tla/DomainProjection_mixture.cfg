SPECIFICATION Spec
CONSTANTS
    r1 = r1
    r2 = r2
    NoOne = NoOne
    Requests <- TwoRequests
    MaxAttempts = 2
    MaxGen = 2
INVARIANT RequestSeesOneGeneration
