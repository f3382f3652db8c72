\* Two cases, benchmarks and reruns, three sessions, a fault and a signal.
SPECIFICATION FairSpec
CONSTANTS
    c1 = c1
    c2 = c2
    Cases = {c1, c2}
    MaxAttempts = 2
    NoFp = NoFp
    NoReport = NoReport
    NoRun = NoRun
    RerunLists <- BothCases
    MaxSessions = 3
    MaxFaults = 1
    MaxSignals = 1
CHECK_DEADLOCK FALSE
INVARIANTS
    TypeOK
    WholeReport
    MissStartsCold
PROPERTIES
    ResultsPreserved
    ServerNotLeft
    SessionsEnd
