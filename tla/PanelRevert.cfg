\* A refused favorite and what the checkbox then says.
SPECIFICATION Spec
CONSTANTS
    f1 = f1
    f2 = f2
    a = a
    b = b
    c1 = c1
    c2 = c2
    Fps = {f1, f2}
    NoFp = NoFp
    Texts = {a, b}
    NoText = a
    Calls = {c1, c2}
    MaxClicks = 2
    MaxUpsets = 1
SYMMETRY Symmetry
CHECK_DEADLOCK FALSE
INVARIANTS
    RevertMatchesReality
