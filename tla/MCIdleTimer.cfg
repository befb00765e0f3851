SPECIFICATION Spec
CONSTANTS
    Threads = {input}
    Period = 3
    Warning = 1
    Forever = 50
    IdleTimeouts = {3, 5, 50}
    ScreenTimeouts = {1, 2, 50}
    Overrides = {0, 4}
    MaxTime = 9
    MaxChanges = 2
INVARIANTS
    TypeOK
    DarkWakes
    TimeoutsKept
CHECK_DEADLOCK FALSE
