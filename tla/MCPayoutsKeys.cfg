\* API keys and codes: revocation, expiry, per-day limits, patches, crashes.
SPECIFICATION FairSpec
CONSTANTS
    c1 = c1  c2 = c2  a1 = a1  a2 = a2  a3 = a3  ip1 = ip1  k1 = k1  code1 = code1
    soft = soft  hard = hard
    Callers = {c1, c2}
    Addresses = {a1}
    Ips = {}
    Keys = {k1}
    Codes = {code1}
    Tiers = {soft}
    RateLimit <- OneTier
    PayoutSats = 1
    DailyBudget = 2
    PerDay <- OnePerDay
    KeyExpiry <- ExpiresAt2
    CodeMaxima = {1, 2}
    CodeExpiries = {Never, 1}
    HOUR = 1
    DAY = 2
    RETENTION = 2
    DryRun = FALSE
    MaxTime = 3
    MaxCalls = 2
    MaxPatches = 1
    MaxCrashes = 1
    Never = Never
    NoTier = NoTier
INVARIANTS
    KeyLimitHolds
    RevokedKeyStops
    CodeOncePerAddress
PROPERTIES
    ClosedCodePaysOnlyInFlight
    EveryCallAnswered
