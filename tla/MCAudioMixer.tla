--------------------------- MODULE MCAudioMixer ---------------------------
(* Models of AudioMixer: two tracks, and two settings beside one clip or one *)
(* beside two.                                                              *)
EXTENDS AudioMixer, Functions

\* Below and above what the setters let through.
MCVolumes == {-1, 3}
MCPans == {2}

\* Fades of these lengths at both ends of the longest clip overlap; the shorter
\* one ends before a cut.
MCFades == {-1, 2, 3}

\* A clip of the whole of the time there is, and one of less.
MCDescriptors ==
    {[in_time |-> 0, out_time |-> n, source_in |-> 0, source_out |-> n,
      speed |-> SpeedUnit] : n \in {2, MaxTime}}

\* The fields of a record that differ from another's.
Differing(r, s) == Cardinality({f \in DOMAIN r : r[f] # s[f]})

Set ==
    FoldFunction(LAMBDA r, n : n + Differing(r, ClipDefault), 0, clip_settings)
      + FoldFunction(LAMBDA r, n : n + Differing(r, TrackDefault), 0, track_settings)

\* Steps that leave these states are checked, and not followed further.
Followed ==
    /\ Set <= 2 /\ Set + Cardinality(Clips) <= 3
    /\ ~ renumbered /\ ~ Overlapping /\ ClipsKeepTheirMedia
    /\ \A c \in Clips : SpeedMatches(c) /\ c.source_in <= 1
=============================================================================
