----------------------------- MODULE RenderPath -----------------------------
(***************************************************************************)
(* Rendering a frame of the timeline (video/timeline_evaluator.cpp) over   *)
(* the frame cache, by the threads that do it: the thread that edits and   *)
(* previews, and the worker of an export (video/video_exporter.cpp), which *)
(* renders the same timeline through the same cache.                       *)
(*                                                                         *)
(* A render takes the cache's mutex for each lookup and each put, and no   *)
(* lock in between: the frame it composites is a bare pointer.  What a     *)
(* clip shows (its ranges, speed and effects) is a version number here,    *)
(* read when the source time is computed.  An edit changes it, under the   *)
(* model's mutex or through a bare pointer to the clip, and only then      *)
(* tells the cache; some edits tell it of fewer clips than they change,    *)
(* or of none.                                                             *)
(***************************************************************************)
EXTENDS FrameCache

CONSTANTS
    Renderers,   \* threads that render
    Editor,      \* the renderer that also edits
    MaxEdits,    \* bound on the edits, counted once for each clip they change
    kDefaultFrameCacheBytes, \* the budget of a new timeline's cache
    NONE

ASSUME RenderAssumption ==
    /\ Editor \in Renderers
    /\ MaxEdits \in Nat
    /\ kDefaultFrameCacheBytes \in Budgets
    /\ NONE \notin FrameIndices

VARIABLES
    pc,        \* where each renderer is
    index,     \* the frame index it renders
    todo,      \* the active clips it has not composited yet
    clip,      \* the clip it is at
    seen,      \* the content of that clip when its source time was computed
    layer,     \* the frame of that clip
    content,   \* what each clip shows now
    payload,   \* what each frame was decoded from: [key, content], and
               \* (history) whether its clip changed before it was put: late
    untold     \* history: clips changed since the cache was last told of them

threadVars == <<pc, index, todo, clip, seen, layer>>
vars == <<cacheVars, threadVars, content, payload, untold>>

KeyOf(r) == [frame_index |-> index[r], clip_id |-> clip[r]]

\* A released buffer is zeroed by the pool.
AfterReleases == [f \in Frames |-> IF f \in live' THEN payload[f] ELSE NONE]
ReleasedAreZeroed == payload' = AfterReleases

\* The renderer goes on to its next clip, or has returned.
NextClip(r, rest) ==
    /\ todo' = [todo EXCEPT ![r] = rest]
    /\ pc' = [pc EXCEPT ![r] = IF rest = {} THEN "idle" ELSE "lookup"]
    /\ clip' = [clip EXCEPT ![r] = NONE]
    /\ layer' = [layer EXCEPT ![r] = NONE]

-----------------------------------------------------------------------------
RInit ==
    /\ Init
    /\ max_bytes = kDefaultFrameCacheBytes
    /\ pc = [r \in Renderers |-> "idle"]
    /\ index = [r \in Renderers |-> NONE]
    /\ todo = [r \in Renderers |-> {}]
    /\ clip = [r \in Renderers |-> NONE]
    /\ seen = [r \in Renderers |-> 0]
    /\ layer = [r \in Renderers |-> NONE]
    /\ content = [c \in Clips |-> 0]
    /\ payload = [f \in Frames |-> NONE]
    /\ untold = {}

\* render_frame(): read the playhead, collect the clips active there.
Begin(r, i, active) ==
    /\ pc[r] = "idle"
    /\ index' = [index EXCEPT ![r] = i]
    /\ todo' = [todo EXCEPT ![r] = active]
    /\ pc' = [pc EXCEPT ![r] = "lookup"]
    /\ UNCHANGED <<cacheVars, clip, seen, layer, content, payload, untold>>

\* Fault: keys are compared by their clip only.
Hit_IgnoresIndex(r, c) ==
    /\ pc[r] = "lookup" /\ c \in todo[r]
    /\ \E k \in DOMAIN map :
        /\ k.clip_id = c
        /\ Get(k)
        /\ layer' = [layer EXCEPT ![r] = map[k]]
    /\ clip' = [clip EXCEPT ![r] = c]
    /\ pc' = [pc EXCEPT ![r] = "composite"]
    /\ UNCHANGED <<index, todo, seen, content, payload, untold>>

\* Fault: a frame found in the cache is put again to refresh it.
Hit_PutsAgain(r, c) ==
    /\ pc[r] = "lookup" /\ c \in todo[r]
    /\ \E k \in DOMAIN map, size \in FrameSizes :
        /\ k = [frame_index |-> index[r], clip_id |-> c]
        /\ Put(k, map[k], size)
        /\ layer' = [layer EXCEPT ![r] = map[k]]
    /\ clip' = [clip EXCEPT ![r] = c]
    /\ pc' = [pc EXCEPT ![r] = "composite"]
    /\ UNCHANGED <<index, todo, seen, content, payload, untold>>

\* get_clip_frame_at(): compute the source time, ask the cache.
Hit(r, c) ==
    /\ pc[r] = "lookup" /\ c \in todo[r]
    /\ LET k == [frame_index |-> index[r], clip_id |-> c]
       IN  /\ Get(k)
           /\ layer' = [layer EXCEPT ![r] = map[k]]
    /\ clip' = [clip EXCEPT ![r] = c]
    /\ pc' = [pc EXCEPT ![r] = "composite"]
    /\ UNCHANGED <<index, todo, seen, content, payload, untold>>

Miss(r, c) ==
    /\ pc[r] = "lookup" /\ c \in todo[r]
    /\ [frame_index |-> index[r], clip_id |-> c] \notin DOMAIN map
    /\ clip' = [clip EXCEPT ![r] = c]
    /\ seen' = [seen EXCEPT ![r] = content[c]]
    /\ pc' = [pc EXCEPT ![r] = "decode"]
    /\ UNCHANGED <<cacheVars, index, todo, layer, content, payload, untold>>

\* decode_frame_at() and apply_clip_effects() into a frame from the engine.
Decode(r, f) ==
    /\ pc[r] = "decode"
    /\ f \notin live
    /\ live' = live \cup {f}
    /\ payload' = [payload EXCEPT ![f] = [key |-> KeyOf(r), content |-> seen[r],
                                           late |-> FALSE]]
    /\ seen' = [seen EXCEPT ![r] = 0]
    /\ layer' = [layer EXCEPT ![r] = f]
    /\ pc' = [pc EXCEPT ![r] = "put"]
    /\ UNCHANGED <<lru_list, map, current_bytes, max_bytes, index, todo, clip,
                   content, untold>>

\* No decoder, or no frame: the clip is skipped.
DecodeFails(r) ==
    /\ pc[r] = "decode"
    /\ NextClip(r, todo[r] \ {clip[r]})
    /\ seen' = [seen EXCEPT ![r] = 0]
    /\ UNCHANGED <<cacheVars, index, content, payload, untold>>

\* Fault: a frame is put only if its key is still absent, else forgotten.
PutDecoded_SkipsPresent(r, size) ==
    /\ pc[r] = "put"
    /\ IF KeyOf(r) \in DOMAIN map THEN UNCHANGED cacheVars
                                 ELSE Put(KeyOf(r), layer[r], size)
    /\ ReleasedAreZeroed
    /\ pc' = [pc EXCEPT ![r] = "composite"]
    /\ UNCHANGED <<index, todo, clip, seen, layer, content, untold>>

\* The decoded frame goes into the cache, and is used after that.
PutDecoded(r, size) ==
    /\ pc[r] = "put"
    /\ Put(KeyOf(r), layer[r], size)
    /\ payload' = [AfterReleases EXCEPT
                        ![layer[r]].late = payload[layer[r]].content # content[clip[r]]]
    /\ pc' = [pc EXCEPT ![r] = "composite"]
    /\ UNCHANGED <<index, todo, clip, seen, layer, content, untold>>

\* The layer is blended into the output; the next clip, or the end.
Composite(r) ==
    /\ pc[r] = "composite"
    /\ NextClip(r, todo[r] \ {clip[r]})
    /\ UNCHANGED <<cacheVars, index, seen, content, payload, untold>>

\* The blend fails: the render gives up with an error.
CompositeFails(r) ==
    /\ pc[r] = "composite"
    /\ NextClip(r, {})
    /\ UNCHANGED <<cacheVars, index, seen, content, payload, untold>>

\* The clips an edit has changed and is about to tell the cache of.
BeingEdited ==
    CASE pc[Editor] = "invalidate" -> {clip[Editor]}
      [] pc[Editor] = "invalidate_all" -> Clips
      [] OTHER -> {}

Changed(clips) ==
    /\ pc[Editor] = "idle"
    /\ content' = [c \in Clips |-> IF c \in clips THEN content[c] + 1 ELSE content[c]]
    /\ FoldFunction(+, 0, content') <= MaxEdits

\* Trim, move, split, slip, rate stretch, remove and the setters of a clip
\* change one clip; a roll changes its neighbour as well ...
EditClip(c, neighbours) ==
    /\ Changed({c} \cup neighbours)
    /\ untold' = untold \cup neighbours
    /\ clip' = [clip EXCEPT ![Editor] = c]
    /\ pc' = [pc EXCEPT ![Editor] = "invalidate"]
    /\ UNCHANGED <<cacheVars, index, todo, seen, layer, payload>>

\* Fault: the handler of an edit forgets to invalidate.
InvalidateEdited_Forgotten ==
    /\ pc[Editor] = "invalidate"
    /\ NextClip(Editor, {})
    /\ UNCHANGED <<cacheVars, index, seen, content, payload, untold>>

\* ... and then the clip's frames are invalidated, not the neighbour's.
InvalidateEdited ==
    /\ pc[Editor] = "invalidate"
    /\ invalidate_clip(clip[Editor])
    /\ ReleasedAreZeroed
    /\ untold' = untold \ BeingEdited
    /\ NextClip(Editor, {})
    /\ UNCHANGED <<index, seen, content>>

\* Ripple delete, slide and track orders change any clips of a track ...
EditTrack(changed) ==
    /\ Changed(changed)
    /\ pc' = [pc EXCEPT ![Editor] = "invalidate_all"]
    /\ UNCHANGED <<cacheVars, index, todo, clip, seen, layer, payload, untold>>

\* ... and then all frames are invalidated.
InvalidateAll ==
    /\ pc[Editor] = "invalidate_all"
    /\ invalidate_all
    /\ ReleasedAreZeroed
    /\ untold' = untold \ BeingEdited
    /\ NextClip(Editor, {})
    /\ UNCHANGED <<index, seen, content>>

\* Insert, overwrite and a ripple delete that is refused after it has shifted
\* clips tell the cache nothing.
EditUntold(changed) ==
    /\ Changed(changed)
    /\ untold' = untold \cup changed
    /\ UNCHANGED <<cacheVars, threadVars, payload>>

\* gopost_timeline_set_frame_cache_size_bytes(): 0 asks for the default.
SetCacheSize(n) ==
    /\ pc[Editor] = "idle"
    /\ set_max_bytes(IF n > 0 THEN n ELSE kDefaultFrameCacheBytes)
    /\ UNCHANGED <<threadVars, content, payload, untold>>

Render(r) ==
    \/ \E i \in FrameIndices, active \in SUBSET Clips \ {{}} : Begin(r, i, active)
    \/ \E c \in Clips : Hit(r, c) \/ Miss(r, c)
    \/ \E f \in Frames : Decode(r, f)
    \/ DecodeFails(r)
    \/ \E size \in FrameSizes : PutDecoded(r, size)
    \/ Composite(r)
    \/ CompositeFails(r)

Edit ==
    \/ \E c \in Clips : \E neighbours \in SUBSET (Clips \ {c}) : EditClip(c, neighbours)
    \/ InvalidateEdited
    \/ \E changed \in SUBSET Clips \ {{}} : EditTrack(changed) \/ EditUntold(changed)
    \/ InvalidateAll
    \/ \E n \in {0} \cup Budgets : SetCacheSize(n)

RNext == (\E r \in Renderers : Render(r)) \/ Edit

RSpec == RInit /\ [][RNext]_vars

-----------------------------------------------------------------------------
\* The frame a render is about to blend has not been released since it was
\* looked up or put, and its buffer still holds the clip and frame index asked
\* for.  frame_cache.hpp: "Caller must not use frame after put (cache owns
\* reference)"; the evaluator does, and the cache pins nothing.
LayerIsValid ==
    \A r \in Renderers : pc[r] = "composite" =>
        layer[r] \in live /\ payload[layer[r]].key = KeyOf(r)

\* No export has rendered yet.
Alone == \A r \in Renderers \ {Editor} : index[r] = NONE

\* Until an export renders, the preview blends live frames of the right clip,
\* however small the budget: its own puts and edits free no layer it holds.
PreviewIsValid == Alone => LayerIsValid

\* A lookup that returns a frame older than its clip's last edit has one of
\* three causes: the edit has yet to invalidate, it told the cache nothing of
\* that clip, or the frame was put after the invalidation by a render that had
\* begun before the edit.
StaleFramesHaveACause ==
    \A k \in DOMAIN map : payload[map[k]].content # content[k.clip_id] =>
        k.clip_id \in BeingEdited \cup untold \/ payload[map[k]].late

\* Until an export renders, no frame is put late: the thread that edits is the
\* one that renders.
NothingIsPutLate == Alone => \A k \in DOMAIN map : ~ payload[map[k]].late

\* An edit's invalidation reaches every frame of its clip that a lookup could
\* find, whatever was evicted, put over and looked up before, by the preview
\* and by an export: what is stale in the cache is stale for a reason that is
\* not the cache's, and the last of the reasons takes a second renderer.
StaleOnlyForCause == StaleFramesHaveACause /\ NothingIsPutLate

\* Every frame decoded is in the cache or about to be put there, whatever the
\* threads do: none is lost between a decoder and the cache.
NoFrameLost ==
    /\ live = EntryFrames(lru_list) \cup {layer[r] : r \in {q \in Renderers : pc[q] = "put"}}
    /\ \A r \in Renderers : pc[r] = "put" => layer[r] \notin EntryFrames(lru_list)

-----------------------------------------------------------------------------
\* The cache alone, which owns the frames in its list.
Cache == INSTANCE FrameCache WITH live <- EntryFrames(lru_list)

\* Whatever its callers interleave, each of their steps is to the cache one of
\* its own operations, or nothing: above all, no frame the cache holds is put
\* again, which it would release twice.
CacheIsUsedAsSpecified == Cache!Spec
=============================================================================
