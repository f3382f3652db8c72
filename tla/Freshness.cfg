\* Three runs, three changes of the world, one failing call.
SPECIFICATION Spec
CONSTANTS
    e1 = e1
    e2 = e2
    Contents = {e1, e2}
    NoEmb = NoEmb
    MaxRuns = 3
    MaxChanges = 3
    MaxFaults = 1
SYMMETRY Symmetry
INVARIANTS
    TypeOK
    NeverOlderCheckpoint
    RightImplementation
    EmbeddingWasThere
