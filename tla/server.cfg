SPECIFICATION FairSpec
CONSTANTS
    Certs = {1, 2}
    KeyOf <- MCKeyOf
    Admins = {a1, a2}
    Bad = 0
    Conns = {c1, c2}
    MaxThreads = 1
INVARIANTS TypeOK MatchedPair
PROPERTIES RotationStays RotationReachesClients AcceptedIsServed ShutdownCompletes
