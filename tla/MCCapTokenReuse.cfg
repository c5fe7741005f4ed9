\* The same instance, asked for more than the spent-set keeps.
SPECIFICATION Spec
CONSTANTS
    r1 = r1
    r2 = r2
    Nobody = Nobody
    Callers = {r1, r2}
    SoftWorks = {1, 2}
    HardWorks = {3, 4}
    CHALLENGE_TTL = 1
    CAP_TOKEN_GRACE = 1
    MaxTime = 3
    MaxChallenges = 2
    MaxUses = 2
SYMMETRY Interchangeable
INVARIANTS UsedOnce
