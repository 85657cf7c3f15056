SPECIFICATION FairSpec
CONSTANTS
    n1 = n1
    n2 = n2
    Nonces = {n1, n2}
    TTLs = {0, 2}
    MaxTime = 3
INVARIANTS
    LiveNonceKept
PROPERTIES
    OneTime
    UnusedIsReclaimed
