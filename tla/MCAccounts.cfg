CONSTANTS
    b1 = b1
    b2 = b2
    alice = alice
    bob = bob
    eve = eve
    None = None
    Browsers = {b1, b2}
    People = {alice, bob, eve}
    Outsiders = {eve}
    Admins = {bob}
    MAX_ACTIVE = 1
    KEY_TTL = 1
    SESSION_TTL = 1
    OAUTH_TTL = 1
    MaxTokens = 2
    MaxKeys = 2
    MaxTime = 1
    MaxDeploys = 1
    MaxWire = 2
SPECIFICATION Spec
SYMMETRY Interchangeable
CHECK_DEADLOCK FALSE
INVARIANTS CapExact WritesAreOwn
PROPERTIES DeadStaysDead
