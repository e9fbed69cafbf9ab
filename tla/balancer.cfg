SPECIFICATION Spec
CONSTANTS
    N = 3
    Lbs = {"round_robin", "least_conn", "consistent_hash"}
    Callers = {c1, c2}
    Keys = {"k1", "k2"}
    Hash <- MCHash
    CounterMod = 8
INVARIANTS TypeOK StableChoice StickyKey
PROPERTY RoundRobinRotation
