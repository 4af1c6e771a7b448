--------------------------- MODULE TimelineModel ---------------------------
(***************************************************************************)
(* The timeline of the native engine (video/timeline_model.cpp): tracks of *)
(* clips, and the edit operations on them, each under the model's mutex.   *)
(*                                                                         *)
(* Times are ticks; a speed is counted in units of 1/SpeedUnit, and an     *)
(* edit whose result is no whole number of ticks is not an input here.     *)
(* What the caller says of a clip is copied unchecked: it may end before   *)
(* it starts, and its source range need not be what plays at its speed.    *)
(* A track is the set of its clips: the order of the vector decides nothing *)
(* but which of two equal candidates a search returns, left open here.     *)
(* Clips keep the track_index they were given, which remove_track() does   *)
(* not renumber; an edit through an index past the tracks is undefined     *)
(* behaviour, after which nothing is modelled.                             *)
(***************************************************************************)
EXTENDS Integers, FiniteSets, FiniteSetsExt

CONSTANTS
    MaxTracks,  \* bound on the tracks
    MaxClips,   \* bound on the clips ever created
    MaxTime,    \* bound on the times edits ask for and result in
    SpeedUnit,  \* speed 1.0
    MaxSpeed,   \* bound on speeds: a stretch after a trim multiplies them
    Descriptors \* the ranges and speeds the callers give clips

\* The C API takes a speed that is not positive for 1.0.
ASSUME TimelineAssumption ==
    /\ MaxTracks \in Nat /\ MaxClips \in Nat /\ MaxTime \in Nat
    /\ SpeedUnit \in Nat \ {0} /\ MaxSpeed \in Nat
    /\ Descriptors \subseteq [in_time : Int, out_time : Int, source_in : Int,
                              source_out : Int, speed : Nat \ {0}]

VARIABLES
    tracks,        \* 0 .. n-1 -> sets of clips
    next_clip_id,
    undefined,     \* an access past the tracks has happened
    renumbered     \* history: tracks above a removed one have moved down

vars == <<tracks, next_clip_id, undefined, renumbered>>

Times == 0 .. MaxTime

TrackCount == Cardinality(DOMAIN tracks)
Clips == UNION {tracks[k] : k \in DOMAIN tracks}
ClipIds == {c.id : c \in Clips}

Length(c) == c.out_time - c.in_time
SourceLength(c) == c.source_out - c.source_in
Overlap(c, from, to) == c.in_time < to /\ c.out_time > from

\* The first clip of that id, track by track, or none.
find_clip(id) ==
    LET holding == {k \in DOMAIN tracks : \E c \in tracks[k] : c.id = id}
    IN  IF holding = {} THEN {} ELSE {c \in tracks[Min(holding)] : c.id = id}

HomeOf(c) == CHOOSE k \in DOMAIN tracks :
                 c \in tracks[k] /\ \A l \in DOMAIN tracks : c \in tracks[l] => k <= l

\* A clip is changed where it was found.
Becomes(c, d) == [tracks EXCEPT ![HomeOf(c)] = (@ \ {c}) \cup {d}]

Moved(c, delta) == [c EXCEPT !.in_time = @ + delta, !.out_time = @ + delta]

NewClip(k, d) ==
    [id |-> next_clip_id, track_index |-> k,
     in_time |-> d.in_time, out_time |-> d.out_time,
     source_in |-> d.source_in, source_out |-> d.source_out,
     speed |-> d.speed, has_media |-> TRUE]

TakesId == next_clip_id <= MaxClips /\ next_clip_id' = next_clip_id + 1

\* tracks_[c->track_index] is past the end.
UsesBadIndex(c) ==
    /\ c.track_index \notin DOMAIN tracks
    /\ undefined' = TRUE
    /\ UNCHANGED <<tracks, renumbered>>

-----------------------------------------------------------------------------
Init ==
    /\ tracks = [k \in {} |-> {}]
    /\ next_clip_id = 1
    /\ undefined = FALSE
    /\ renumbered = FALSE

add_track ==
    /\ TrackCount < MaxTracks
    /\ tracks' = [k \in 0 .. TrackCount |-> IF k = TrackCount THEN {} ELSE tracks[k]]
    /\ UNCHANGED <<next_clip_id, undefined, renumbered>>

remove_track(k) ==
    /\ k \in DOMAIN tracks
    /\ tracks' = [l \in 0 .. TrackCount - 2 |->
                    IF l < k THEN tracks[l] ELSE tracks[l + 1]]
    /\ renumbered' = (renumbered \/ k # TrackCount - 1)
    /\ UNCHANGED <<next_clip_id, undefined>>

add_clip(k, d) ==
    /\ k \in DOMAIN tracks
    /\ TakesId
    /\ tracks' = [tracks EXCEPT ![k] = @ \cup {NewClip(k, d)}]
    /\ UNCHANGED <<undefined, renumbered>>

\* Fault: the id of the clip made last is given again after its removal.
remove_clip_GivesIdBack(id) ==
    /\ \E c \in find_clip(id) : tracks' = [tracks EXCEPT ![HomeOf(c)] = @ \ {c}]
    /\ next_clip_id' = IF id = next_clip_id - 1 THEN id ELSE next_clip_id
    /\ UNCHANGED <<undefined, renumbered>>

remove_clip(id) ==
    /\ \E c \in find_clip(id) : tracks' = [tracks EXCEPT ![HomeOf(c)] = @ \ {c}]
    /\ UNCHANGED <<next_clip_id, undefined, renumbered>>

\* A clip is given new ranges, and keeps its speed.
Trimmed(c, d) ==
    [c EXCEPT !.in_time = d.in_time, !.out_time = d.out_time,
              !.source_in = d.source_in, !.source_out = d.source_out]

trim_clip(id, d) ==
    /\ \E c \in find_clip(id) : tracks' = Becomes(c, Trimmed(c, d))
    /\ UNCHANGED <<next_clip_id, undefined, renumbered>>

\* The old entry is erased through the clip's track_index.
move_clip(id, k, from) ==
    /\ k \in DOMAIN tracks
    /\ \E c \in find_clip(id) :
        \/ UsesBadIndex(c)
        \/ /\ c.track_index \in DOMAIN tracks
           /\ LET d == [c EXCEPT !.track_index = k, !.in_time = from,
                                 !.out_time = from + Length(c)]
                  erased == [tracks EXCEPT ![c.track_index] = {x \in @ : x.id # id}]
              IN  /\ d.out_time \in Times
                  /\ tracks' = [erased EXCEPT ![k] = @ \cup {d}]
           /\ UNCHANGED <<undefined, renumbered>>
    /\ UNCHANGED next_clip_id

\* The two halves of a clip cut at a time within it; the source is cut in the
\* same proportion.
SourceAt(c, t) == c.source_in + ((t - c.in_time) * SourceLength(c)) \div Length(c)
CutsEvenly(c, t) == ((t - c.in_time) * SourceLength(c)) % Length(c) = 0

\* Fault: the right half starts where the source of the clip does.
RightHalf_SourceStart(c, t) ==
    [c EXCEPT !.id = next_clip_id, !.in_time = t]

LeftHalf(c, t) == [c EXCEPT !.out_time = t, !.source_out = SourceAt(c, t)]
RightHalf(c, t) ==
    [c EXCEPT !.id = next_clip_id, !.in_time = t, !.source_in = SourceAt(c, t)]

CanSplit(c, t) == c.in_time < t /\ t < c.out_time /\ CutsEvenly(c, t)

split_clip(id, t) ==
    /\ \E c \in find_clip(id) :
        /\ CanSplit(c, t)
        /\ \/ UsesBadIndex(c)
           \/ /\ c.track_index \in DOMAIN tracks
              /\ tracks' = [Becomes(c, LeftHalf(c, t))
                              EXCEPT ![c.track_index] = @ \cup {RightHalf(c, t)}]
              /\ UNCHANGED <<undefined, renumbered>>
    /\ TakesId

-----------------------------------------------------------------------------
\* ripple_delete() keeps the clips outside the range.
Survives(c, from, to) == ~ Overlap(c, from, to)

Rippled(c, from, to) == IF c.out_time > to THEN Moved(c, -(to - from)) ELSE c

ripple_delete(k, from, to) ==
    /\ k \in DOMAIN tracks /\ from < to
    /\ \E c \in tracks[k] : Overlap(c, from, to)
    /\ tracks' = [tracks EXCEPT
                    ![k] = {Rippled(c, from, to) : c \in {x \in @ : Survives(x, from, to)}}]
    /\ UNCHANGED <<next_clip_id, undefined, renumbered>>

\* Nothing overlaps: it returns false, having shifted the later clips and moved
\* every clip's data out of the track.
ripple_delete_Refused(k, from, to) ==
    /\ k \in DOMAIN tracks /\ from < to
    /\ \A c \in tracks[k] : ~ Overlap(c, from, to)
    /\ tracks' = [tracks EXCEPT
                    ![k] = {[Rippled(c, from, to) EXCEPT !.has_media = FALSE] : c \in @}]
    /\ UNCHANGED <<next_clip_id, undefined, renumbered>>

\* Fault: a clip that starts at the very time is not pushed.
Pushed_Later(c, at, len) == IF c.in_time > at THEN Moved(c, len) ELSE c

\* insert_edit() pushes the clips that start at the time or later.
Pushed(c, at, len) == IF c.in_time >= at THEN Moved(c, len) ELSE c

\* Placed at a time, as long as it is.
At(d, at) == [d EXCEPT !.in_time = at, !.out_time = at + Length(d)]

insert_edit(k, at, d) ==
    /\ k \in DOMAIN tracks /\ Length(d) > 0
    /\ \A c \in tracks[k] : Pushed(c, at, Length(d)).out_time \in Times
    /\ TakesId
    /\ tracks' = [tracks EXCEPT ![k] =
                    {Pushed(c, at, Length(d)) : c \in @} \cup {NewClip(k, At(d, at))}]
    /\ UNCHANGED <<undefined, renumbered>>

\* overwrite_edit() removes the clips that overlap, whole.
overwrite_edit(k, at, d) ==
    /\ k \in DOMAIN tracks /\ Length(d) > 0
    /\ TakesId
    /\ tracks' = [tracks EXCEPT ![k] =
                    {c \in @ : Survives(c, at, at + Length(d))} \cup {NewClip(k, At(d, at))}]
    /\ UNCHANGED <<undefined, renumbered>>

-----------------------------------------------------------------------------
\* The clips of a set that the search for the next one after c, or for the
\* previous one, may stop at.
NextClips(S, c) ==
    LET after == {x \in S : x.in_time >= c.out_time}
    IN  {x \in after : \A y \in after : x.in_time <= y.in_time}

PreviousClips(S, c) ==
    LET before == {x \in S : x.out_time <= c.in_time}
    IN  {x \in before : \A y \in before : x.out_time >= y.out_time}

OneOf(S) == IF S = {} THEN {{}} ELSE {{x} : x \in S}

\* Fault: the source of the next clip stays where it was.
RolledNext_KeepsSource(c, next, delta) ==
    [next EXCEPT !.in_time = c.out_time + delta]

\* The next clip after a roll of the cut between c and it ...
RolledNext(c, next, delta) ==
    [next EXCEPT !.in_time = c.out_time + delta,
                 !.source_in = @ + (delta * SourceLength(next)) \div Length(next)]

\* ... and c.
Rolled(c, delta) ==
    [c EXCEPT !.out_time = @ + delta, !.source_out = SourceAt(c, c.out_time + delta)]

\* Fault: the next clip may be rolled up to its very end.
CanRoll_ToTheEnd(c, next, delta) ==
    LET in_source == next.source_in + (delta * SourceLength(next)) \div Length(next)
    IN  /\ c.out_time + delta > c.in_time
        /\ Length(c) > 0 /\ Length(next) > 0
        /\ SourceAt(c, c.out_time + delta) >= c.source_in
        /\ in_source <= next.source_out /\ in_source >= next.source_in
        /\ CutsEvenly(c, c.out_time + delta)
        /\ (delta * SourceLength(next)) % Length(next) = 0

\* What roll_edit() accepts.
CanRoll(c, next, delta) ==
    LET in_source == next.source_in + (delta * SourceLength(next)) \div Length(next)
    IN  /\ c.out_time + delta > c.in_time
        /\ Length(c) > 0 /\ Length(next) > 0
        /\ SourceAt(c, c.out_time + delta) >= c.source_in
        /\ in_source < next.source_out /\ in_source >= next.source_in
        /\ CutsEvenly(c, c.out_time + delta)
        /\ (delta * SourceLength(next)) % Length(next) = 0

roll_edit(id, delta) ==
    /\ \E c \in find_clip(id) :
        \/ UsesBadIndex(c)
        \/ /\ c.track_index \in DOMAIN tracks
           /\ \E next \in NextClips(tracks[c.track_index], c) :
                /\ CanRoll(c, next, delta)
                /\ Rolled(c, delta).source_out \in Times
                /\ tracks' = [Becomes(c, Rolled(c, delta)) EXCEPT ![c.track_index] =
                                (@ \ {next}) \cup {RolledNext(c, next, delta)}]
           /\ UNCHANGED <<undefined, renumbered>>
    /\ UNCHANGED next_clip_id

\* The source range moves, and stops at the start of the media.
slip_edit(id, delta) ==
    /\ \E c \in find_clip(id) :
        LET start == Max({c.source_in + delta, 0})
            d == [c EXCEPT !.source_in = start, !.source_out = start + SourceLength(c)]
        IN  /\ SourceLength(c) > 0 /\ d.source_out \in Times
            /\ tracks' = Becomes(c, d)
    /\ UNCHANGED <<next_clip_id, undefined, renumbered>>

Others(c) == {x \in tracks[c.track_index] : x.id # c.id}

\* What slide_edit() accepts.
CanSlide(c, delta) ==
    /\ c.in_time + delta >= 0
    /\ \A p \in PreviousClips(Others(c), c) : c.in_time + delta >= p.out_time
    /\ \A n \in NextClips(Others(c), c) : c.out_time + delta <= n.in_time

\* A clip of the track after c has become d between its neighbours.
Reaching(x, previous, next, d) ==
    [x EXCEPT !.out_time = IF x \in previous THEN d.in_time ELSE @,
              !.in_time = IF x \in next THEN d.out_time ELSE @]

\* The clip moves; the timeline ranges of its neighbours reach up to it.
slide_edit(id, delta) ==
    /\ \E c \in find_clip(id) :
        \/ UsesBadIndex(c)
        \/ /\ c.track_index \in DOMAIN tracks
           /\ CanSlide(c, delta)
           /\ LET d == Moved(c, delta)
              IN  /\ d.out_time \in Times
                  /\ \E previous \in OneOf(PreviousClips(Others(c), c)),
                        next \in OneOf(NextClips(Others(c), c)) :
                       tracks' = [Becomes(c, d) EXCEPT ![c.track_index] =
                                    {Reaching(x, previous, next, d) : x \in @}]
           /\ UNCHANGED <<undefined, renumbered>>
    /\ UNCHANGED next_clip_id

rate_stretch(id, len) ==
    /\ len > 0
    /\ \E c \in find_clip(id) :
        /\ Length(c) > 0
        /\ (c.speed * Length(c)) % len = 0
        /\ c.speed * Length(c) <= MaxSpeed * len
        /\ c.in_time + len \in Times
        /\ tracks' = Becomes(c, [c EXCEPT !.speed = (@ * Length(c)) \div len,
                                          !.out_time = c.in_time + len])
    /\ UNCHANGED <<next_clip_id, undefined, renumbered>>

duplicate_clip(id) ==
    /\ \E c \in find_clip(id) :
        \/ UsesBadIndex(c)
        \/ /\ c.track_index \in DOMAIN tracks
           /\ LET d == [Moved(c, Length(c)) EXCEPT !.id = next_clip_id]
              IN  /\ d.out_time \in Times
                  /\ tracks' = [tracks EXCEPT ![c.track_index] = @ \cup {d}]
           /\ UNCHANGED <<undefined, renumbered>>
    /\ TakesId

\* Fault: the clips are not renumbered.
Reordered_NotRenumbered(order) == [k \in DOMAIN tracks |-> tracks[order[k]]]

\* reorder_tracks() does renumber the clips.
Reordered(order) ==
    [k \in DOMAIN tracks |-> {[c EXCEPT !.track_index = k] : c \in tracks[order[k]]}]

Orders == {f \in [DOMAIN tracks -> DOMAIN tracks] :
             \A k, l \in DOMAIN tracks : f[k] = f[l] => k = l}

reorder_tracks(order) ==
    /\ tracks' = Reordered(order)
    /\ UNCHANGED <<next_clip_id, undefined, renumbered>>
-----------------------------------------------------------------------------
Ids == 1 .. next_clip_id - 1
Lengths == 1 .. MaxTime
Deltas == -MaxTime .. MaxTime

\* Edits that put a clip where they are told to, whatever is there.
Place ==
    \/ \E k \in DOMAIN tracks, d \in Descriptors : add_clip(k, d)
    \/ \E id \in Ids, d \in Descriptors : trim_clip(id, d)
    \/ \E id \in Ids, k \in DOMAIN tracks, from \in Times : move_clip(id, k, from)
    \/ \E id \in Ids, len \in Lengths : rate_stretch(id, len)
    \/ \E id \in Ids : duplicate_clip(id)

InsertEdit ==
    \E k \in DOMAIN tracks, at \in Times, d \in Descriptors :
        at + Length(d) \in Times /\ insert_edit(k, at, d)

OverwriteEdit ==
    \E k \in DOMAIN tracks, at \in Times, d \in Descriptors :
        at + Length(d) \in Times /\ overwrite_edit(k, at, d)

\* Edits that mind the clips around.
Fit ==
    \/ add_track
    \/ \E k \in DOMAIN tracks : remove_track(k)
    \/ \E id \in Ids : remove_clip(id)
    \/ \E id \in Ids, t \in Times : split_clip(id, t)
    \/ \E k \in DOMAIN tracks, from, to \in Times : ripple_delete(k, from, to)
    \/ \E k \in DOMAIN tracks, from, to \in Times : ripple_delete_Refused(k, from, to)
    \/ OverwriteEdit
    \/ \E id \in Ids, delta \in Deltas : roll_edit(id, delta)
    \/ \E id \in Ids, delta \in Deltas : slip_edit(id, delta)
    \/ \E id \in Ids, delta \in Deltas : slide_edit(id, delta)
    \/ \E order \in Orders : reorder_tracks(order)

Next == ~ undefined /\ (Place \/ InsertEdit \/ Fit)

Spec == Init /\ [][Next]_vars

-----------------------------------------------------------------------------
\* No two clips have one id, each clip is in the track its track_index names,
\* and so no edit goes past the tracks, as long as no track below another was
\* removed: the operations look clips up by id and then use track_index.
ClipsAreWhereTheySay ==
    ~ renumbered =>
        /\ ~ undefined
        /\ \A k \in DOMAIN tracks : \A c \in tracks[k] :
            c.track_index = k /\ c.id < next_clip_id
        /\ \A c, d \in Clips : c.id = d.id => c = d

Overlapping ==
    \E k \in DOMAIN tracks : \E c, d \in tracks[k] :
        c # d /\ Overlap(c, d.in_time, d.out_time)

InsertInside ==
    \E k \in DOMAIN tracks, at \in Times, d \in Descriptors :
        /\ at + Length(d) \in Times /\ insert_edit(k, at, d)
        /\ \E c \in tracks[k] : c.in_time < at /\ at < c.out_time

\* The clips of a set all last.
AllLast(S) == \A c \in S : Length(c) > 0

\* Clips of a track that all last come to overlap only through the edits that
\* place a clip at a given time, and an insertion inside a clip: a split, a ripple
\* delete, an overwrite, a roll, a slip, a slide and any other insertion never do
\* it.
OnlyPlacingOverlaps ==
    [][~ renumbered /\ AllLast(Clips) /\ ~ Overlapping /\ Overlapping' =>
        Place \/ InsertInside]_vars

\* No sequence of cuts, rolls, slides, stretches and ripples leaves a clip that
\* ends before it starts or lasts no time, and so is never seen: only a caller
\* that asks for such a clip gets one.
ClipsLast ==
    [][AllLast(Clips) =>
        \/ AllLast(Clips')
        \/ \E d \in Descriptors :
            /\ Length(d) <= 0
            /\ \/ \E k \in DOMAIN tracks : add_clip(k, d)
               \/ \E id \in Ids : trim_clip(id, d)]_vars

SpeedMatches(c) == SourceLength(c) * SpeedUnit = c.speed * Length(c)

\* The source range of a clip is what plays in its timeline range at its speed
\* (the evaluator goes by the speed, the editor by the range), until a caller
\* gives a clip ranges that do not match its speed, a slide stretches a clip's
\* neighbours, or a roll closes a gap.
SourceRangeFollowsSpeed ==
    [][~ renumbered /\ (\A c \in Clips : SpeedMatches(c)) =>
        \/ \A c \in Clips' : SpeedMatches(c)
        \/ \E d \in Descriptors :
            /\ ~ SpeedMatches(d)
            /\ \/ \E k \in DOMAIN tracks : add_clip(k, d)
               \/ \E k \in DOMAIN tracks, at \in Times :
                    insert_edit(k, at, d) \/ overwrite_edit(k, at, d)
        \/ \E id \in Ids, d \in Descriptors :
            /\ \E c \in find_clip(id) : ~ SpeedMatches(Trimmed(c, d))
            /\ trim_clip(id, d)
        \/ \E id \in Ids, delta \in Deltas : slide_edit(id, delta)
        \/ \E id \in Ids, delta \in Deltas :
            /\ \E c \in find_clip(id) :
                \A d \in tracks[c.track_index] : d.in_time # c.out_time
            /\ roll_edit(id, delta)]_vars

Plays(c, t) == c.in_time <= t /\ t < c.out_time

\* The frame of source a clip shows, in units of 1/SpeedUnit.
ShownBy(c, t) == c.source_in * SpeedUnit + (t - c.in_time) * c.speed

\* What a track shows at a time.
Shows(k, t) == {ShownBy(c, t) : c \in {x \in tracks[k] : Plays(x, t)}}

\* A split changes nothing that is seen: each half shows what the clip showed.
SplitShowsTheSame ==
    [][\A id \in Ids, t \in Times :
        /\ ~ renumbered /\ split_clip(id, t)
        /\ \A c \in find_clip(id) : SpeedMatches(c)
        => \A k \in DOMAIN tracks, u \in Times : Shows(k, u)' = Shows(k, u)]_vars

-----------------------------------------------------------------------------
\* What the constraints of the models go by: no clip has lost its data to a refused
\* ripple delete.
ClipsKeepTheirMedia == \A c \in Clips : c.has_media

\* "move_clip between tracks": a clip moved is one clip still.
ClipIdsAreUnique == \A c, d \in Clips : c.id = d.id => c = d
=============================================================================
