CONSTANTS
    MaxTracks = 2
    MaxClips = 3
    MaxTime = 3
    SpeedUnit = 2
    MaxSpeed = 3
    Descriptors <- MCDescriptors
    MaxCached = 1
SPECIFICATION ApiSpec
CONSTRAINT Followed
CHECK_DEADLOCK FALSE
INVARIANTS
    ClipsAreWhereTheySay
PROPERTIES
    OnlyPlacingOverlaps
    ClipsLast
    SourceRangeFollowsSpeed
    SplitShowsTheSame
    EditsKeepCacheFresh
