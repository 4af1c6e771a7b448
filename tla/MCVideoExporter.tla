-------------------------- MODULE MCVideoExporter --------------------------
(* Models of VideoExporter: two exports and a user who seeks; one alone.    *)
EXTENDS VideoExporter

\* An empty timeline, and a timeline of two frames; for one export, of three.
MCTotals == {0, 2}
MCTotalsAlone == {0, 2, 3}

\* The user seeks.
MCPositions == {1}

NoPositions == {}
=============================================================================
