---------------------------- MODULE MCFramePool ----------------------------
(* Model of FramePool: two threads, two buffer sizes, small address spaces. *)
EXTENDS FramePool, TLC

CONSTANTS t1, t2, f1, f2, f3, p1, p2, p3, p4

MCThreads == {t1, t2}
MCFrames == {f1, f2, f3}
MCPointers == {p1, p2, p3, p4}

\* Bytes: with an alignment of 4, requests of 1 and 4 share the smallest
\* block, and a request of 5 needs a larger one.
MCRequestSizes == {1, 4, 5}

MCSymmetry ==
    Permutations(MCThreads) \cup Permutations(MCFrames)
        \cup Permutations(MCPointers)
=============================================================================
