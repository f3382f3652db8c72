\* One executor thread and one Cache Manager worker.
SPECIFICATION Spec
CONSTANTS
    f1 = f1
    f2 = f2
    u0 = u0
    u1 = u1
    n1 = n1
    n2 = n2
    m1 = m1
    Nodes = {n1}
    Managers = {m1}
    NoThread = NoThread
    Fps = {f1, f2}
    NoFp = NoFp
    Sizes = {"base", "up"}
    Users = {u0, u1}
    DefaultUser = u0
    Requests <- MixedRequests
    MaxOps = 3
    MaxFaults = 1
INVARIANTS
    TypeOK
    EditsSurvive
    NoPhantom
    DualRunsAgree
PROPERTIES
    EditsTouchNoSystem
    SidecarKeepsItsPast
