CONSTANTS
    MaxTracks = 3
    MaxClips = 1
    MaxTime = 3
    SpeedUnit = 2
    MaxSpeed = 4
    Descriptors <- MCOneDescriptor
CHECK_DEADLOCK FALSE
SPECIFICATION Spec
INVARIANT ClipIdsAreUnique
