\* The same references in other slots.
SPECIFICATION Spec
CONSTANTS
    pngA = pngA
    pngB = pngB
    pngC = pngC
    Me = Me
    MediaFiles = {pngA, pngB, pngC}
    NoFile = NoFile
    ImageSlots = 3
    VideoSlots = 1
    AudioSlots = 1
    Families <- MovingFamily
    Prompt <- Prompts
    NodeVariant <- Variant
    Traceable <- Moving
    Picture <- Pictures
    NoFp = NoFp
    NoEntry = NoEntry
    NoRun = NoRun
    MaxRuns = 2
    MaxClicks = 0
CHECK_DEADLOCK FALSE
INVARIANTS
    EveryReferenceNamesItsFiles
