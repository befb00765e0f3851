SPECIFICATION Spec
CONSTANTS
    Threads = {input, camera}
    Period = 3
    Warning = 1
    Forever = 50
    IdleTimeouts = {3, 5, 50}
    ScreenTimeouts = {2, 50}
    Overrides = {0, 4}
    MaxTime = 5
    MaxChanges = 0
INVARIANTS
    DarkWakes
CHECK_DEADLOCK FALSE
