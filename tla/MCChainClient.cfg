CONSTANTS
    hyphen = hyphen
    insight = insight
    seed = seed
    e1 = e1
    e2 = e2
    e3 = e3
    reward = reward
    payment = payment
    None = None
    Primaries <- MCPrimaries
    Fallbacks = {seed}
    NoRelay = {hyphen}
    Evonodes = {e1, e2, e3}
    Liars = {e1}
    Lists = {{e1}, {e1, e2}, {e1, e3}}
    SAMPLE = 3
    MIN_LISTED = 2
    MAX_LAG = 2
    TIP = 5
    WILD = 9
    Young <- MCYoung
    Coinbases = {reward}
    MAX_LOOKUPS = 1
SPECIFICATION Spec
SYMMETRY Interchangeable
INVARIANTS TypeOK LoneLieHarmless ReadsSoundly ImmatureSitsOut 
