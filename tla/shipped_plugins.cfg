SPECIFICATION Spec
CONSTANTS
    Ips = {"ip1", "ip2"}
    Blocklist = {"ip2"}
    Allowlist = {}
    Capacity = 2
    RefillRate = 1
    Loadables <- SomeMissing
    MaxRequests = 3
    MaxTime = 1
    Nil = Nil
INVARIANTS TypeOK OnlyAuthorized AuthorizedPasses ApiV2Protected
CHECK_DEADLOCK FALSE
