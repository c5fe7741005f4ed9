\* Half-hour ticks; the week of rateWindowMs scaled down to three of them.
SPECIFICATION Spec
CONSTANTS
    Devices = {d1, d2}
    Ips = {i1, i2}
    MaxVouchers = 2
    TARGET = 2
    MAX_PER_REQUEST = 2
    TTL = 2
    WINDOW = 3
    HANDLER = 1
    MaxRestarts = 1
    None = None
    d1 = d1
    d2 = d2
    i1 = i1
    i2 = i2
SYMMETRY Interchangeable
INVARIANTS
    TypeOK
    LockedFundsKeepKey
    ReadyIsBooked
PROPERTIES
    KeepsPromise
    NoneGivenRedeemed
    OneIssuancePerWindow
