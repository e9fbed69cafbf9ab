SPECIFICATION PoolFairSpec
CONSTANTS
    Targets = {1, 2}
    MaxProbes = 2
    N = 2
    Lbs = {"round_robin", "least_conn", "consistent_hash"}
    Callers = {c1}
    Keys = {"k1"}
    Hash <- MCHash
    CounterMod = 2
    Upstreams = {"default", "v2"}
    Names = {"default", "v2", "v3"}
    Upstream = "default"
INVARIANT TypeOK
PROPERTIES SettledStays RequestsFollow FlagConverges DownIsLeftAlone UpIsFound
