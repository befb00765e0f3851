SPECIFICATION FairSpec
CONSTANTS
    MAX_SEED_SLOTS = 3
    Phrases = {p1, p2}
    Secrets = {s1}
INVARIANTS TypeOK SlotsSound MenuIsTrue CacheIsWallets
PROPERTIES LeaveChangesNothing EscapeArrives
