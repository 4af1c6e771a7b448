---------------------------- MODULE TimelineApi ----------------------------
(***************************************************************************)
(* The timeline functions of the C API (video/video_engine.cpp): each      *)
(* calls the model and then invalidates frames of the cache, whose keys    *)
(* are a frame index and a clip id.  The cache is here the set of frames   *)
(* in it (FrameCache has its details): what a clip showed at a time when   *)
(* the frame was rendered.  One thread calls; RenderPath has the others.   *)
(***************************************************************************)
EXTENDS TimelineModel

CONSTANT MaxCached  \* bound on the frames cached

VARIABLE cached     \* entries [clip_id, time, shows]

apiVars == <<vars, cached>>

ApiInit == Init /\ cached = {}

\* A clip that plays is rendered, and not in the cache.
Render(c, t) ==
    /\ Cardinality(cached) < MaxCached
    /\ Plays(c, t) /\ c.has_media
    /\ \A e \in cached : e.clip_id # c.id \/ e.time # t
    /\ cached' = cached \cup {[clip_id |-> c.id, time |-> t, shows |-> ShownBy(c, t)]}
    /\ UNCHANGED vars

invalidate_clips(ids) == cached' = {e \in cached : e.clip_id \notin ids}
invalidate_all == cached' = {}

EditOfClip(id) ==
    \/ remove_clip(id)
    \/ \E d \in Descriptors : trim_clip(id, d)
    \/ \E k \in DOMAIN tracks, from \in Times : move_clip(id, k, from)
    \/ \E delta \in Deltas : roll_edit(id, delta) \/ slip_edit(id, delta)
    \/ \E len \in Lengths : rate_stretch(id, len)

\* Fault: an edit of a clip does not invalidate it.
ClipEdited_KeepsFrames(id) == EditOfClip(id) /\ UNCHANGED cached

ClipEdited(id) == EditOfClip(id) /\ invalidate_clips({id})

ClipSplit(id, t) == split_clip(id, t) /\ invalidate_clips({id, next_clip_id})

\* Edits of a whole track.
TracksEdited ==
    /\ \/ \E k \in DOMAIN tracks, from, to \in Times : ripple_delete(k, from, to)
       \/ \E id \in Ids, delta \in Deltas : slide_edit(id, delta)
       \/ \E order \in Orders : reorder_tracks(order)
    /\ invalidate_all

\* Edits that make clips, and those that invalidate nothing.
ClipsMade ==
    /\ \/ add_track
       \/ \E k \in DOMAIN tracks : remove_track(k)
       \/ \E k \in DOMAIN tracks, d \in Descriptors : add_clip(k, d)
       \/ OverwriteEdit
       \/ \E id \in Ids : duplicate_clip(id)
    /\ UNCHANGED cached

Inserted == InsertEdit /\ UNCHANGED cached

\* An error of the model is returned before the cache is touched.
RippleRefused ==
    /\ \E k \in DOMAIN tracks, from, to \in Times : ripple_delete_Refused(k, from, to)
    /\ UNCHANGED cached

ApiNext ==
    /\ ~ undefined
    /\ \/ \E c \in Clips, t \in Times : Render(c, t)
       \/ \E id \in Ids : ClipEdited(id)
       \/ \E id \in Ids, t \in Times : ClipSplit(id, t)
       \/ TracksEdited
       \/ ClipsMade
       \/ Inserted
       \/ RippleRefused

ApiSpec == ApiInit /\ [][ApiNext]_apiVars

-----------------------------------------------------------------------------
\* A frame found in the cache is the one that would be rendered.
CacheIsFresh ==
    \A c \in Clips, e \in cached :
        e.clip_id = c.id /\ Plays(c, e.time) => e.shows = ShownBy(c, e.time)

\* A roll moves the next clip, which is not invalidated: harmless if it starts
\* where the clip rolled ends, and plays its source at its speed.
HarmlessRoll(id) ==
    \A c \in find_clip(id) : \A n \in NextClips(tracks[c.track_index], c) :
        n.in_time = c.out_time /\ SpeedMatches(n)

\* Edits keep the cache fresh though they invalidate no more than the clip they
\* name, ids being never reused, but for insertions, refused ripple deletes and
\* rolls over a gap, which move other clips.
EditsKeepCacheFresh ==
    [][~ renumbered /\ CacheIsFresh =>
        \/ CacheIsFresh'
        \/ InsertEdit
        \/ RippleRefused
        \/ \E id \in Ids, delta \in Deltas : ~ HarmlessRoll(id) /\ roll_edit(id, delta)]_apiVars
=============================================================================
