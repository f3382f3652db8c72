\* Two dual runs at once over crossed pairs of fingerprints, or a dual run and a Delete.
SPECIFICATION FairSpec
CONSTANTS
    f1 = f1
    f2 = f2
    u0 = u0
    u1 = u1
    n1 = n1
    n2 = n2
    m1 = m1
    Nodes = {n1, n2}
    Managers = {m1}
    NoThread = NoThread
    Fps = {f1, f2}
    NoFp = NoFp
    Sizes = {"base", "up"}
    Users = {u0, u1}
    DefaultUser = u0
    Requests <- CrossedRequests
    MaxOps = 2
    MaxFaults = 0
PROPERTIES
    RequestsEnd
