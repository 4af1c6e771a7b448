SPECIFICATION Spec
CONSTANTS
    MaxSections = 2
    Libraries <- TheLibraries
    Objects <- TheObjects
    KnownLeaks <- TheLeaks
    Kept <- KeptMembers
INVARIANTS
    BodiesAreSound
    FailureChangesNothing
    TakesAlternateWithReleases
    ObjectsAreWhole
