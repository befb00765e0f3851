SPECIFICATION FairSpec
CONSTANTS
    Directions = {1, 2}
    Keys = {8}
    Select = 5
    Delay = 3
    Interval = 2
    MaxQueued = 2
INVARIANTS
    ButtonsTypeOK
PROPERTIES
    RepeatsWhatIsHeld
    RepeatsFollowThumb
CHECK_DEADLOCK FALSE
