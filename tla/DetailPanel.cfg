\* Six families of workflows, a run and four clicks.
SPECIFICATION Spec
CONSTANTS
    pngA = pngA
    pngB = pngB
    pngC = pngC
    Me = Me
    MediaFiles = {pngA, pngB, pngC}
    NoFile = NoFile
    ImageSlots = 3
    VideoSlots = 1
    AudioSlots = 1
    Families <- SmallFamilies
    Prompt <- Prompts
    NodeVariant <- Variant
    Traceable <- Given
    Picture <- Pictures
    NoFp = NoFp
    NoEntry = NoEntry
    NoRun = NoRun
    MaxRuns = 1
    MaxClicks = 4
CHECK_DEADLOCK FALSE
INVARIANTS
    TypeOK
    JoinIsRight
    ThumbsRight
    FeedbackEnds
