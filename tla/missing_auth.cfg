SPECIFICATION Spec
CONSTANTS
    Ips = {"ip1", "ip2"}
    Blocklist = {"ip2"}
    Allowlist = {}
    Capacity = 2
    RefillRate = 1
    Loadables <- AsShipped
    MaxRequests = 3
    MaxTime = 1
    Nil = Nil
INVARIANT Unauthenticated401
CHECK_DEADLOCK FALSE
