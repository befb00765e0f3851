SPECIFICATION FairSpec
CONSTANTS
    MaxClients = 2
    MaxRequests = 3
    MaxCuts = 2
    Failures = {"counter", "unit", "store"}
INVARIANTS TypeOK CountersRise KeyIsOfThisRequest OwnScreen
PROPERTY ExchangeEnds
CHECK_DEADLOCK FALSE
