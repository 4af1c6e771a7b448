CONSTANTS
    ui = ui
    exporter = exporter
    c1 = c1
    c2 = c2
    f1 = f1
    f2 = f2
    f3 = f3
    NONE = NONE
    MaxEdits = 0
    Editor = ui
    kDefaultFrameCacheBytes = 2
    Renderers <- MCRenderers
    Clips <- MCClips
    Frames <- MCFrames
    FrameIndices <- MCFrameIndices
    FrameSizes <- MCFrameSizes
    Budgets <- MCOneFrame
SPECIFICATION RSpec
SYMMETRY MCSymmetry
INVARIANT LayerIsValid
