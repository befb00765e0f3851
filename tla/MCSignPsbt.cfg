SPECIFICATION Spec
CONSTANTS
    NumSlots = 2
    Policies = {"a", "b", "c"}
    ThirdKeys = {"x", "y"}
    Registered <- MCRegistered
    Inputs <- MCInputs
    Outputs <- MCOutputs
    MaxInputs = 2
    MaxOutputs = 2
    MaxPresses = 2
INVARIANTS
    TypeOK
    UnseenIsOwn
    OwnChangeIsHidden
    SignsAsAgreed
CHECK_DEADLOCK FALSE
