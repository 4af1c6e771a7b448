---------------------------- MODULE MCRenderPath ----------------------------
(* Models of RenderPath: the editing thread, joined by an exporter.         *)
EXTENDS RenderPath

CONSTANTS ui, exporter, c1, c2, f1, f2, f3

MCRenderers == {ui, exporter}
MCClips == {c1, c2}
MCFrames == {f1, f2, f3}
MCFrameIndices == {0, 1}
MCFrameSizes == {2}

\* A budget below every frame, and one of two frames: both evict.
MCBudgets == {1, 4}

\* A budget of one frame.
MCOneFrame == {2}

MCSymmetry == Permutations(MCFrames) \cup Permutations(MCClips)
=============================================================================
