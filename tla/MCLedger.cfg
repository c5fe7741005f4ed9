\* Half-hour ticks, the day of SPENT_STALE_MS scaled down; explorers keep up.
SPECIFICATION Spec
CONSTANTS
    Deposits = {d1, d2}
    MaxTxs = 3
    MaxInputs = 2
    SETTLED = 1
    STALE = 3
    PENDING_TTL = 2
    LAG = 1
    HANDLER = 1
    AssetLocks = {1}
    FOLLOW = 1
    MaxCrashes = 0
    None = None
    d1 = d1
    d2 = d2
SYMMETRY Interchangeable
INVARIANTS
    TypeOK
    NoCompetition
PROPERTIES
    AbsenceMeansSpent
    SpentStaysSpent
    OwnChangeStays
