SPECIFICATION FairSpec

CONSTANTS
    Codes = {"a", "b", "big", "z", "bad", "u", "v", "w", "raw"}
    Code <- MCCode
    Packed = {"ZP"}
    MAX_INPUT = 4

INVARIANTS ScanTypeOK DeliversOnePayload
PROPERTY ScanEnds
