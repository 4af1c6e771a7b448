----------------------------- MODULE FrameCache -----------------------------
(***************************************************************************)
(* The LRU cache of decoded frames of a timeline (video/frame_cache.cpp).  *)
(* lru_list_ runs from the most to the least recently used entry; map_     *)
(* finds the list entry of a key.  An entry is named by its frame: a frame *)
(* is put once.  Every method runs under the cache's mutex.                *)
(*                                                                         *)
(* Two threads that miss on the same key both decode and both put, so put  *)
(* may find the key present: the older entry then stays in the list, out   *)
(* of reach of the map.  The specification lets callers do that.           *)
(***************************************************************************)
EXTENDS Naturals, Sequences, FiniteSetsExt, Sublists

CONSTANTS
    Clips,       \* clip ids
    FrameIndices,\* floor(position * fps) of the frames rendered
    Frames,      \* addresses of GopostFrame wrappers
    FrameSizes,  \* frame_byte_size() of the frames decoded
    Budgets      \* values of max_bytes

ASSUME CacheAssumption ==
    /\ FrameIndices \subseteq Nat
    /\ FrameSizes \subseteq Nat \ {0}
    /\ Budgets \subseteq Nat

VARIABLES
    lru_list,       \* entries [key, frame, byte_size], front first
    map,            \* key -> frame naming the list entry it points to
    current_bytes,  \* what the cache believes it holds
    max_bytes,      \* its budget
    live            \* frames acquired from the engine and not yet released

\* FrameCacheKey; effect_hash never changes during a clip's life.
Keys == [frame_index : FrameIndices, clip_id : Clips]

cacheVars == <<lru_list, map, current_bytes, max_bytes, live>>

-----------------------------------------------------------------------------
EntryKeys(entries) == {e.key : e \in ToSet(entries)}
EntryFrames(entries) == {e.frame : e \in ToSet(entries)}

\* The bytes of the frames of some entries, which are frames of their own.
Bytes(entries) ==
    Cardinality(UNION {{e.frame} \X (1 .. e.byte_size) : e \in ToSet(entries)})

Without(f, keys) == [k \in DOMAIN f \ keys |-> f[k]]
With(f, key, value) == [k \in DOMAIN f \cup {key} |-> IF k = key THEN value ELSE f[k]]

Oldest(n) == SubSeq(lru_list, n + 1, Len(lru_list))
Newest(n) == SubSeq(lru_list, 1, n)

\* Fault: eviction stops one entry too early.
KeptUntil_TooMany(target) ==
    Max({0} \cup {n \in 1 .. Len(lru_list) :
                    current_bytes - Bytes(Oldest(n - 1)) <= target})

\* evict_until() stops at the first entry, from the back, where the bytes that
\* remain are within the target.
KeptUntil(target) ==
    Max({0} \cup {n \in 0 .. Len(lru_list) :
                    current_bytes - Bytes(Oldest(n)) <= target})

\* The list entry the key points to, spliced to the front.
MovedToFront(k) ==
    LET hit == CHOOSE i \in DOMAIN lru_list : lru_list[i].frame = map[k]
    IN  <<lru_list[hit]>> \o Select(lru_list, DOMAIN lru_list \ {hit})

Init ==
    /\ lru_list = <<>>
    /\ map = <<>>
    /\ current_bytes = 0
    /\ max_bytes \in Budgets
    /\ live = {}

\* get() of a key that is present.  (A miss changes nothing.)
Get(k) ==
    /\ k \in DOMAIN map
    /\ lru_list' = MovedToFront(k)
    /\ UNCHANGED <<map, current_bytes, max_bytes, live>>

\* Fault: put() leaves the map entries of what it evicts.
Put_KeepsMap(k, f, size) ==
    LET target == IF max_bytes > size THEN max_bytes - size ELSE 0
        n == KeptUntil(target)
        evicted == Oldest(n)
    IN  /\ lru_list' = <<[key |-> k, frame |-> f, byte_size |-> size]>> \o Newest(n)
        /\ map' = With(map, k, f)
        /\ current_bytes' = (current_bytes - Bytes(evicted)) + size
        /\ live' = (live \ EntryFrames(evicted)) \cup {f}
        /\ UNCHANGED max_bytes

\* put(): make room, drop what the evicted entries' keys point to, push front.
Put(k, f, size) ==
    LET target == IF max_bytes > size THEN max_bytes - size ELSE 0
        n == KeptUntil(target)
        evicted == Oldest(n)
    IN  /\ lru_list' = <<[key |-> k, frame |-> f, byte_size |-> size]>> \o Newest(n)
        /\ map' = With(Without(map, EntryKeys(evicted)), k, f)
        /\ current_bytes' = (current_bytes - Bytes(evicted)) + size
        /\ live' = (live \ EntryFrames(evicted)) \cup {f}
        /\ UNCHANGED max_bytes

invalidate_all ==
    /\ lru_list' = <<>>
    /\ map' = <<>>
    /\ current_bytes' = 0
    /\ live' = live \ EntryFrames(lru_list)
    /\ UNCHANGED max_bytes

\* invalidate_clip() finds a clip's entries through the map.
invalidate_clip(c) ==
    LET keys == {k \in DOMAIN map : k.clip_id = c}
        found == {map[k] : k \in keys}
        hits == {i \in DOMAIN lru_list : lru_list[i].frame \in found}
        dropped == Select(lru_list, hits)
    IN  /\ lru_list' = Select(lru_list, DOMAIN lru_list \ hits)
        /\ map' = Without(map, keys)
        /\ current_bytes' = current_bytes - Bytes(dropped)
        /\ live' = live \ EntryFrames(dropped)
        /\ UNCHANGED max_bytes

\* set_max_bytes() evicts nothing.
set_max_bytes(n) ==
    /\ max_bytes' = n
    /\ UNCHANGED <<lru_list, map, current_bytes, live>>

\* Callers put frames they have just acquired.
Next ==
    \/ \E k \in Keys : Get(k)
    \/ \E k \in Keys, f \in Frames \ live, size \in FrameSizes : Put(k, f, size)
    \/ invalidate_all
    \/ \E c \in Clips : invalidate_clip(c)
    \/ \E n \in Budgets : set_max_bytes(n)

Spec == Init /\ [][Next]_cacheVars

-----------------------------------------------------------------------------
\* map_ never holds a dangling iterator: it points into the list, to an entry
\* of that very key, even after put() overwrote the mapping of a listed entry
\* and eviction of that older entry erased the newer entry's mapping.
MapPointsIntoList ==
    \A k \in DOMAIN map :
        \E e \in ToSet(lru_list) : e.frame = map[k] /\ e.key = k

\* A step that inserts a frame leaves what is in the list within the budget, or
\* that frame only, also when the budget was lowered since the last put: the
\* byte count eviction goes by has not drifted from the list, entries that
\* were put over and are out of the map's reach included.
PutKeepsBudget ==
    [][EntryFrames(lru_list') \ EntryFrames(lru_list) # {} =>
        Bytes(lru_list') <= max_bytes' \/ Len(lru_list') = 1]_cacheVars
=============================================================================
