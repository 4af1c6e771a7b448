CONSTANTS
    MaxTracks = 2
    MaxClips = 2
    MaxTime = 3
    SpeedUnit = 1
    MaxSpeed = 1
    Descriptors <- MCDescriptors
    Unity = 1
    FadeUnit = 6
    Volumes <- MCVolumes
    Pans <- MCPans
    Fades <- MCFades
SPECIFICATION AudioSpec
CONSTRAINT Followed
CHECK_DEADLOCK FALSE

    
PROPERTIES
    NewClipsSoundPlain
    SplitSoundsTheSame
    OthersSoundTheSame
