CONSTANTS
    POOL = 2
    POOL_MIN = 2
    POOL_TARGET = 3
    COLLATERAL = 12
    COLLATERAL_COINS = 1
    MAX_INPUTS = 3
    LOOSE_MAX = 2
    HEADROOM = 1
    Deposits = {1, 3, 7, 13}
    MaxDeposits = 5
    PublicAmount = 1
    KeyAmounts = {5}
    MaxPayouts = 3
    FeeRates = {0, 1}
    None = None
SPECIFICATION FairSpec
INVARIANTS TypeOK SelectionIsBest PassesComeInTime
PROPERTY ComesToRest
