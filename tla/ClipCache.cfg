\* Two fingerprints, one of a wrong checkpoint: races, faults and a restart.
SPECIFICATION FairSpec
CONSTANTS
    t1 = t1
    t2 = t2
    f1 = f1
    f2 = f2
    Threads = {t1, t2}
    NoThread = NoThread
    Fps = {f1, f2}
    WrongFps = {f2}
    MaxOps = 3
    MaxFaults = 2
    MaxCrashes = 1
INVARIANTS
    TypeOK
    HitIsOneEntry
    AutoEncodesOnlyMisses
    ResidentEncoderIsLoud
    SkeletonNeverAlone
    WrittenIsReadable
    TmpAccounted
    OneEncoder
    WrongNeverStored
PROPERTIES
    EntryLostOnlyByIntent
    RequestsEnd
    ImplementsAtomicCache
