\* The object may be evicted once, at any point; a small instance, for liveness.
SPECIFICATION FairSpec
CONSTANTS
    Deposits = {d1}
    MaxTxs = 2
    MaxInputs = 2
    SETTLED = 1
    STALE = 3
    PENDING_TTL = 2
    LAG = 1
    HANDLER = 1
    AssetLocks = {1}
    FOLLOW = 1
    MaxCrashes = 1
    None = None
    d1 = d1
    d2 = d2

    
PROPERTIES
    PhantomsExpire
    CoinsComeBack
