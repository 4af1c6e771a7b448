CONSTANTS
    ui = ui
    exporter = exporter
    c1 = c1
    c2 = c2
    f1 = f1
    f2 = f2
    f3 = f3
    NONE = NONE
    MaxEdits = 2
    Editor = ui
    kDefaultFrameCacheBytes = 4
    Renderers <- MCRenderers
    Clips <- MCClips
    Frames <- MCFrames
    FrameIndices <- MCFrameIndices
    FrameSizes <- MCFrameSizes
    Budgets <- MCBudgets
SPECIFICATION RSpec
SYMMETRY MCSymmetry
INVARIANTS
    PreviewIsValid
    MapPointsIntoList
    StaleOnlyForCause
    NoFrameLost
PROPERTIES
    PutKeepsBudget
    CacheIsUsedAsSpecified
