\* The README's promise, against an unresolved broadcast.
SPECIFICATION Spec
CONSTANTS
    c1 = c1  c2 = c2  a1 = a1  a2 = a2  a3 = a3  ip1 = ip1  k1 = k1  code1 = code1
    soft = soft  hard = hard
    Callers = {c1, c2}
    Addresses = {a1}
    Ips = {ip1}
    Keys = {}
    Codes = {}
    Tiers = {soft, hard}
    RateLimit <- TwoTiers
    PayoutSats = 2
    DailyBudget = 5
    PerDay <- NoKeys
    KeyExpiry <- NoKeys
    CodeMaxima = {}
    CodeExpiries = {}
    HOUR = 2
    DAY = 2
    RETENTION = 2
    DryRun = FALSE
    MaxTime = 1
    MaxCalls = 2
    MaxPatches = 0
    MaxCrashes = 0
    Never = Never
    NoTier = NoTier
SYMMETRY Interchangeable
INVARIANTS
    PaidOncePerDay
