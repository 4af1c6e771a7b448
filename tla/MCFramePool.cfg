CONSTANTS
    t1 = t1
    t2 = t2
    f1 = f1
    f2 = f2
    f3 = f3
    p1 = p1
    p2 = p2
    p3 = p3
    p4 = p4
    NULL = NULL
    kAlignment = 4
    Threads <- MCThreads
    Frames <- MCFrames
    Pointers <- MCPointers
    RequestSizes <- MCRequestSizes
SPECIFICATION Spec
SYMMETRY MCSymmetry
INVARIANTS
    ListedOnce
    ExclusiveBuffers
    NoLeak
    FrameFits
    GrowthBoundedByPeak
\* The system stops once the engine is destroyed.
CHECK_DEADLOCK FALSE
