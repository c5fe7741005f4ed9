\* Blocks take up to an hour, as PENDING_TTL_MS allows for: LAG is PENDING_TTL.
SPECIFICATION Spec
CONSTANTS
    Deposits = {d1, d2}
    MaxTxs = 3
    MaxInputs = 2
    SETTLED = 1
    STALE = 3
    PENDING_TTL = 2
    LAG = 2
    HANDLER = 1
    AssetLocks = {1}
    FOLLOW = 1
    MaxCrashes = 0
    None = None
    d1 = d1
    d2 = d2
SYMMETRY Interchangeable
PROPERTIES AbsenceMeansSpent
