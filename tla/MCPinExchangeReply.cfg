SPECIFICATION Spec
CONSTANTS
    MaxClients = 2
    MaxRequests = 4
    MaxCuts = 0
    Failures = {"reencrypt"}
INVARIANT ClientIsAnswered
CHECK_DEADLOCK FALSE
