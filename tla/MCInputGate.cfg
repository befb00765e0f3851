\* From a boot and on a running device, whose job counters wrap in the behaviour.
SPECIFICATION Spec
CONSTANTS
    Width = 8
    Timeout = 10
    Starts = {0, 7}
    MaxJobs = 2
    MaxPresses = 2
    MaxRare = 1
INVARIANTS
    TypeOK
    ActsOnScreenRead
    ActsOnWorkShown
PROPERTY
    MarkIsMet
CHECK_DEADLOCK FALSE
