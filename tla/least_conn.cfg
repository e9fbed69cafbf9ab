SPECIFICATION SerialSpec
CONSTANTS
    N = 3
    Lbs = {"least_conn"}
    Callers = {c1, c2}
    Keys = {"k1", "k2"}
    Hash <- MCHash
    CounterMod = 8
PROPERTY LeastConnBalances
