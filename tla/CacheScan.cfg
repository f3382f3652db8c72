\* One fingerprint, two threads and the scanner.
SPECIFICATION ScanSpec
CONSTANTS
    t1 = t1
    t2 = t2
    f1 = f1
    Threads = {t1, t2}
    NoThread = NoThread
    Scanner = Scanner
    Fps = {f1}
    WrongFps = {}
    MaxOps = 3
    MaxFaults = 1
    MaxCrashes = 1
    MaxScans = 1
SYMMETRY Symmetry
INVARIANTS
    CheckIsRight
