--------------------------- MODULE MCTimelineApi ---------------------------
(* Model of TimelineApi.  One cached frame is enough: frames are compared   *)
(* with the timeline one by one.                                            *)
EXTENDS TimelineApi

Descriptor(from, to, source_from, source_to, speed) ==
    [in_time |-> from, out_time |-> to,
     source_in |-> source_from, source_out |-> source_to, speed |-> speed]

\* A clip as it is imported, of each length ...
Imported == {Descriptor(0, n, 0, n, SpeedUnit) : n \in Lengths}

\* ... trimmed at its start; put back at half its speed, as the application
\* changes a speed; with less source than it lasts, as a freeze; and lasting no
\* time, or less.
MCDescriptors ==
    Imported \cup
    {Descriptor(1, 2, 1, 2, SpeedUnit), Descriptor(0, 2, 0, 1, SpeedUnit \div 2),
     Descriptor(0, 2, 1, 2, SpeedUnit), Descriptor(1, 1, 0, 1, SpeedUnit),
     Descriptor(2, 1, 1, 0, SpeedUnit)}

\* A clip that plays something else than its source range, or nothing.
Odd(c) == ~ SpeedMatches(c) \/ Length(c) <= 0

\* Steps that leave these states are checked, and not followed further.  A
\* third clip is made on a single track, while the cache is empty.
Followed ==
    /\ ~ renumbered /\ ~ Overlapping /\ ClipsKeepTheirMedia /\ CacheIsFresh
    /\ Cardinality({c \in Clips : Odd(c)}) <= 1
    /\ next_clip_id > 3 => TrackCount = 1 /\ cached = {}
=============================================================================
