CONSTANTS
    Addresses = {c1}
    Buffers = {b1, b2}
    Sizes = {1, 2}
    CanvasSizes = {4}
    Pictures = {pic}
    Colors = {red, white}
    White = white
    Names = {title}
    Modes = {multiply}
    Places = {moved}
    Opacities = {0, 12}
    MaxLayers = 2
    MaxCalls = 6
    Effects = {blur}
    NULL = NULL
SPECIFICATION Spec
INVARIANTS PixelsHaveOneOwner ContentFitsBuffer InstancesAreUnique
PROPERTIES NewLayersStartClean LoadPaintsWhatWasSaved
CHECK_DEADLOCK FALSE
