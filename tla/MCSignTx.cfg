SPECIFICATION Spec
CONSTANTS
    Coins <- MCCoins
    Messages <- MCMessages
    Outputs <- MCOutputs
    MaxInputs = 2
    MaxOutputs = 2
INVARIANTS
    TypeOK
    SignsWhatWasShown
    AnswersMatch
CHECK_DEADLOCK FALSE
