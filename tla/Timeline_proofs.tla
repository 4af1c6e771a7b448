-------------------------- MODULE Timeline_proofs --------------------------
(***************************************************************************)
(* Proofs about TimelineModel: until a lower track is removed, ids are     *)
(* unique and every clip is on the track it names, for any number of       *)
(* tracks, clips, times and speeds.  Then about what stands on the         *)
(* timeline and is not told of its edits otherwise: the frame cache behind *)
(* the C API (TimelineApi) and the settings of the audio mixer             *)
(* (AudioMixer).                                                           *)
(***************************************************************************)
EXTENDS AudioMixer, TimelineApi, FiniteSetTheorems, WellFoundedInduction, TLAPS

Fields == {"id", "track_index", "in_time", "out_time", "source_in", "source_out",
           "speed", "has_media"}
HasFields(c) == c = [x \in Fields |-> c[x]]
IsClip(c) == HasFields(c) /\ c.in_time \in Int /\ c.out_time \in Int

\* Two clips that are one to the operations: they are found by id, and by track.
Alike(c, d) == IsClip(d) /\ d.id = c.id /\ d.track_index = c.track_index

LEMMA MovedIsAlike ==
  ASSUME NEW c, IsClip(c), NEW delta \in Int
  PROVE  Alike(c, Moved(c, delta))
  <1>1. HasFields(Moved(c, delta))
    BY DEF IsClip, HasFields, Fields, Moved
  <1>2. /\ Moved(c, delta).id = c.id /\ Moved(c, delta).track_index = c.track_index
        /\ Moved(c, delta).in_time = c.in_time + delta
        /\ Moved(c, delta).out_time = c.out_time + delta
    BY DEF IsClip, HasFields, Fields, Moved
  <1> QED
    BY <1>1, <1>2 DEF IsClip, Alike

LEMMA DescriptorFields ==
  ASSUME NEW d \in Descriptors
  PROVE  /\ d.in_time \in Int /\ d.out_time \in Int /\ Length(d) \in Int
         /\ d.source_in \in Int /\ d.source_out \in Int /\ d.speed \in Nat \ {0}
  BY TimelineAssumption DEF Length

LEMMA AtFields ==
  ASSUME NEW d \in Descriptors, NEW at \in Int
  PROVE  /\ At(d, at).in_time = at /\ At(d, at).out_time = at + Length(d)
         /\ At(d, at).source_in = d.source_in /\ At(d, at).source_out = d.source_out
         /\ At(d, at).speed = d.speed
         /\ At(d, at).in_time \in Int /\ At(d, at).out_time \in Int
  BY DescriptorFields, TimelineAssumption DEF At

LEMMA NewClipIsClip ==
  ASSUME NEW k, NEW d, d.in_time \in Int, d.out_time \in Int
  PROVE  /\ IsClip(NewClip(k, d))
         /\ NewClip(k, d).id = next_clip_id
         /\ NewClip(k, d).track_index = k
  BY DEF IsClip, HasFields, Fields, NewClip

\* A new clip, for an edit that adds none.
SomeClip(k) ==
    NewClip(k, [in_time |-> 0, out_time |-> 1, source_in |-> 0, source_out |-> 1,
                speed |-> SpeedUnit])

LEMMA SomeClipIsClip ==
  ASSUME NEW k
  PROVE  /\ IsClip(SomeClip(k))
         /\ SomeClip(k).id = next_clip_id /\ SomeClip(k).track_index = k
  BY NewClipIsClip DEF SomeClip

LEMMA HalvesAreClips ==
  ASSUME NEW c, IsClip(c), NEW t \in Int
  PROVE  /\ Alike(c, LeftHalf(c, t))
         /\ IsClip(RightHalf(c, t))
         /\ RightHalf(c, t).id = next_clip_id
         /\ RightHalf(c, t).track_index = c.track_index
  BY DEF IsClip, HasFields, Fields, Alike, LeftHalf, RightHalf

LEMMA RolledAreAlike ==
  ASSUME NEW c, IsClip(c), NEW n, IsClip(n), NEW delta \in Int
  PROVE  Alike(c, Rolled(c, delta)) /\ Alike(n, RolledNext(c, n, delta))
  <1> DEFINE d == Rolled(c, delta)
             e == RolledNext(c, n, delta)
  <1>1. HasFields(d) /\ HasFields(e)
    BY DEF IsClip, HasFields, Fields, Rolled, RolledNext
  <1>2. /\ d.id = c.id /\ d.track_index = c.track_index
        /\ d.in_time = c.in_time /\ d.out_time = c.out_time + delta
        /\ e.id = n.id /\ e.track_index = n.track_index
        /\ e.in_time = c.out_time + delta /\ e.out_time = n.out_time
    BY DEF IsClip, HasFields, Fields, Rolled, RolledNext
  <1> HIDE DEF d, e
  <1>3. Alike(c, d) /\ Alike(n, e)
    BY <1>1, <1>2 DEF IsClip, Alike
  <1> QED
    BY <1>3 DEF d, e

-----------------------------------------------------------------------------
(* What becomes of a clip in an edit of it alone.                           *)

Slipped(c, delta) ==
    LET start == Max({c.source_in + delta, 0})
    IN  [c EXCEPT !.source_in = start, !.source_out = start + SourceLength(c)]
Stretched(c, len) ==
    [c EXCEPT !.speed = (@ * Length(c)) \div len, !.out_time = c.in_time + len]
MovedTo(c, k, from) ==
    [c EXCEPT !.track_index = k, !.in_time = from, !.out_time = from + Length(c)]
Duplicate(c) == [Moved(c, Length(c)) EXCEPT !.id = next_clip_id]

LEMMA TrimmedIsAlike ==
  ASSUME NEW c, NEW d \in Descriptors
  PROVE  IsClip(c) => Alike(c, Trimmed(c, d))
  BY DescriptorFields DEF IsClip, HasFields, Fields, Alike, Trimmed

LEMMA SlippedIsAlike ==
  ASSUME NEW c, NEW delta
  PROVE  IsClip(c) => Alike(c, Slipped(c, delta))
  <1> DEFINE start == Max({c.source_in + delta, 0})
  <1>1. Slipped(c, delta) = [c EXCEPT !.source_in = start, !.source_out = start + SourceLength(c)]
    BY DEF Slipped
  <1> HIDE DEF start
  <1> QED
    BY <1>1 DEF IsClip, HasFields, Fields, Alike

LEMMA StretchedIsAlike ==
  ASSUME NEW c, NEW len \in Int
  PROVE  IsClip(c) => Alike(c, Stretched(c, len))
  <1> DEFINE d == Stretched(c, len)
  <1>1. IsClip(c) => HasFields(d)
    BY DEF IsClip, HasFields, Fields, Stretched
  <1>2. IsClip(c) => /\ d.id = c.id /\ d.track_index = c.track_index
                     /\ d.in_time = c.in_time /\ d.out_time = c.in_time + len
    BY DEF IsClip, HasFields, Fields, Stretched
  <1> HIDE DEF d
  <1>3. IsClip(c) => Alike(c, d)
    BY <1>1, <1>2 DEF IsClip, Alike
  <1> QED
    BY <1>3 DEF d

LEMMA MovedToIsClip ==
  ASSUME NEW c, IsClip(c), NEW k, NEW from \in Int
  PROVE  /\ IsClip(MovedTo(c, k, from))
         /\ MovedTo(c, k, from).id = c.id
         /\ MovedTo(c, k, from).track_index = k
  <1> DEFINE e == MovedTo(c, k, from)
  <1>1. HasFields(e) /\ e.in_time = from /\ e.out_time = from + Length(c)
        /\ e.id = c.id /\ e.track_index = k
    BY DEF IsClip, HasFields, Fields, MovedTo
  <1>2. from + Length(c) \in Int
    BY DEF IsClip, Length
  <1> HIDE DEF e
  <1>3. IsClip(e) /\ e.id = c.id /\ e.track_index = k
    BY <1>1, <1>2 DEF IsClip
  <1> QED
    BY <1>3 DEF e

LEMMA DuplicateIsClip ==
  ASSUME NEW c, IsClip(c)
  PROVE  /\ IsClip(Duplicate(c))
         /\ Duplicate(c).id = next_clip_id
         /\ Duplicate(c).track_index = c.track_index
  <1> DEFINE m == Moved(c, Length(c))
             r == Duplicate(c)
  <1>1. IsClip(m) /\ m.track_index = c.track_index
    <2>1. Length(c) \in Int
      BY DEF IsClip, Length
    <2>2. Alike(c, m)
      BY <2>1, MovedIsAlike
    <2> QED
      BY <2>2 DEF Alike
  <1>2. r = [m EXCEPT !.id = next_clip_id]
    BY DEF Duplicate
  <1> HIDE DEF m, r
  <1>3. HasFields(r) /\ r.in_time = m.in_time /\ r.out_time = m.out_time
        /\ r.id = next_clip_id /\ r.track_index = m.track_index
    BY <1>1, <1>2 DEF IsClip, HasFields, Fields
  <1>4. IsClip(r) /\ r.id = next_clip_id /\ r.track_index = c.track_index
    BY <1>1, <1>3 DEF IsClip
  <1> QED
    BY <1>4 DEF r

-----------------------------------------------------------------------------
(* The invariant.                                                           *)

Placed ==
    \A k \in DOMAIN tracks : \A c \in tracks[k] :
        IsClip(c) /\ c.track_index = k /\ c.id \in Nat /\ c.id < next_clip_id

Unique ==
    \A k, l \in DOMAIN tracks : \A c \in tracks[k], d \in tracks[l] :
        c.id = d.id => c = d

Shape ==
    /\ \E n \in Nat : DOMAIN tracks = 0 .. n - 1
    /\ next_clip_id \in Nat
    /\ undefined \in BOOLEAN /\ renumbered \in BOOLEAN

TInv == Shape /\ (~ renumbered => ~ undefined /\ Placed /\ Unique)

\* The tracks are numbered from 0, as many as there are.
LEMMA CountTracks ==
  ASSUME Shape
  PROVE  TrackCount \in Nat /\ DOMAIN tracks = 0 .. TrackCount - 1
  <1>1. PICK n \in Nat : DOMAIN tracks = 0 .. n - 1
    BY DEF Shape
  <1>2. Cardinality(0 .. n - 1) = n
    <2>1. Cardinality(0 .. n - 1) = IF 0 > n - 1 THEN 0 ELSE (n - 1) - 0 + 1
      BY FS_Interval
    <2> QED
      BY <2>1
  <1> QED
    BY <1>1, <1>2 DEF TrackCount

\* While nothing was renumbered, a clip found by its id is on the track it
\* names, and nowhere else.
LEMMA Found ==
  ASSUME TInv, ~ renumbered, NEW id, NEW c \in find_clip(id)
  PROVE  /\ c.track_index \in DOMAIN tracks /\ c \in tracks[c.track_index]
         /\ HomeOf(c) = c.track_index
         /\ IsClip(c) /\ c.id = id
  <1> DEFINE holding == {k \in DOMAIN tracks : \E x \in tracks[k] : x.id = id}
  <1>1. holding # {} /\ c \in tracks[Min(holding)] /\ c.id = id
    BY DEF find_clip
  <1>2. PICK k \in DOMAIN tracks : \E x \in tracks[k] : x.id = id
    BY <1>1
  <1>3. PICK x \in tracks[k] : x.id = id
    BY <1>2
  <1>4. \A l \in DOMAIN tracks : l \in Nat
    BY DEF TInv, Shape
  <1>5. ASSUME NEW l \in DOMAIN tracks, NEW y \in tracks[l], y.id = id PROVE l = k
    BY <1>3, <1>5 DEF TInv, Unique, Placed
  <1>6. holding = {k}
    BY <1>2, <1>5
  <1>7. Min({k}) = k
    BY <1>4 DEF Min
  <1> HIDE DEF holding
  <1>8. c \in tracks[k] /\ c.track_index = k /\ IsClip(c)
    BY <1>1, <1>6, <1>7 DEF TInv, Placed
  <1>9. HomeOf(c) = k
    <2>1. \A l \in DOMAIN tracks : c \in tracks[l] => l = k
      BY <1>1, <1>5
    <2> QED
      BY <1>4, <1>8, <2>1 DEF HomeOf
  <1> QED
    BY <1>1, <1>8, <1>9

\* An edit of one track: its clips are clips it had, by their ids, and one new
\* clip at most.
LEMMA OneTrackEdited ==
  ASSUME TInv, ~ renumbered,
         NEW k \in DOMAIN tracks, NEW S,
         tracks' = [tracks EXCEPT ![k] = S],
         next_clip_id' \in {next_clip_id, next_clip_id + 1},
         \A x \in S : /\ IsClip(x) /\ x.track_index = k
                      /\ \/ \E y \in tracks[k] : y.id = x.id
                         \/ x.id = next_clip_id /\ next_clip_id' = next_clip_id + 1,
         \A x, y \in S : x.id = y.id => x = y,
         UNCHANGED <<undefined, renumbered>>
  PROVE  TInv'
  <1>1. DOMAIN tracks' = DOMAIN tracks /\ tracks'[k] = S
        /\ \A l \in DOMAIN tracks : l # k => tracks'[l] = tracks[l]
    OBVIOUS
  <1>2. next_clip_id \in Nat /\ Placed /\ Unique
    BY DEF TInv, Shape
  <1>3. Shape'
    BY <1>1, <1>2 DEF TInv, Shape
  <1>4. ASSUME NEW x \in S PROVE x.id \in Nat /\ x.id < next_clip_id'
    BY <1>2 DEF Placed
  <1>5. Placed'
    <2> SUFFICES ASSUME NEW l \in DOMAIN tracks, NEW c \in tracks'[l]
                 PROVE  IsClip(c) /\ c.track_index = l /\ c.id \in Nat /\ c.id < next_clip_id'
      BY <1>1 DEF Placed
    <2>1. CASE l = k
      BY <1>1, <1>4, <2>1
    <2>2. CASE l # k
      BY <1>1, <1>2, <2>2 DEF Placed
    <2> QED
      BY <2>1, <2>2
  <1>6. ASSUME NEW l \in DOMAIN tracks, l # k, NEW c \in tracks[l], NEW x \in S PROVE c.id # x.id
    <2>1. c.id < next_clip_id /\ c.id \in Nat /\ c.track_index = l
      BY <1>2 DEF Placed
    <2>2. ASSUME NEW y \in tracks[k] PROVE y.id # c.id
      BY <1>2, <1>6, <2>1 DEF Placed, Unique
    <2> QED
      BY <1>2, <2>1, <2>2
  <1>7. Unique'
    <2> SUFFICES ASSUME NEW l \in DOMAIN tracks, NEW m \in DOMAIN tracks,
                        NEW c \in tracks'[l], NEW d \in tracks'[m], c.id = d.id
                 PROVE  c = d
      BY <1>1 DEF Unique
    <2>1. CASE l = k /\ m = k
      BY <1>1, <2>1
    <2>2. CASE l # k /\ m # k
      BY <1>1, <1>2, <2>2 DEF Unique
    <2>3. CASE l = k /\ m # k
      BY <1>1, <1>6, <2>3
    <2>4. CASE l # k /\ m = k
      BY <1>1, <1>6, <2>4
    <2> QED
      BY <2>1, <2>2, <2>3, <2>4
  <1> QED
    BY <1>3, <1>5, <1>7 DEF TInv

\* While tracks are renumbered, only the shape is kept.
LEMMA ShapeIsEnough ==
  ASSUME Shape', renumbered'
  PROVE  TInv'
  BY DEF TInv

\* An edit of some clips of a track, through any index.
LEMMA EditKeepsShape ==
  ASSUME TInv, renumbered,
         DOMAIN tracks' = DOMAIN tracks,
         next_clip_id' \in {next_clip_id, next_clip_id + 1},
         undefined' \in BOOLEAN, renumbered' = renumbered
  PROVE  TInv'
  BY DEF TInv, Shape

\* Some clips of a track are kept, each as one alike, and one new clip is added
\* at most.
LEMMA TrackEdited ==
  ASSUME TInv, NEW k \in DOMAIN tracks, NEW f, NEW T \in SUBSET tracks[k],
         NEW new, NEW N \in SUBSET {new},
         \A y \in tracks[k] : IsClip(y) => Alike(y, f[y]),
         IsClip(new), new.id = next_clip_id, new.track_index = k,
         tracks' = [tracks EXCEPT ![k] = {f[y] : y \in T} \cup N],
         \/ next_clip_id' = next_clip_id + 1
         \/ N = {} /\ next_clip_id' = next_clip_id,
         UNCHANGED <<undefined, renumbered>>
  PROVE  TInv'
  <1>1. CASE renumbered
    BY <1>1, EditKeepsShape DEF TInv, Shape
  <1>2. CASE ~ renumbered
    <2> DEFINE S == {f[y] : y \in T} \cup N
    <2>1. \A y \in tracks[k] : /\ IsClip(y) /\ y.track_index = k /\ y.id # next_clip_id
                               /\ Alike(y, f[y])
      BY <1>2 DEF TInv, Shape, Placed
    <2>2. \A x \in S : (\E y \in tracks[k] : x = f[y]) \/ (x = new /\ N # {})
      OBVIOUS
    <2>3. \A x \in S : /\ IsClip(x) /\ x.track_index = k
                       /\ \/ \E y \in tracks[k] : y.id = x.id
                          \/ x.id = next_clip_id /\ next_clip_id' = next_clip_id + 1
      <3> SUFFICES ASSUME NEW x \in S
                   PROVE  /\ IsClip(x) /\ x.track_index = k
                          /\ \/ \E y \in tracks[k] : y.id = x.id
                             \/ x.id = next_clip_id /\ next_clip_id' = next_clip_id + 1
        OBVIOUS
      <3> HIDE DEF S
      <3>1. CASE \E y \in tracks[k] : x = f[y]
        BY <2>1, <3>1 DEF Alike
      <3>2. CASE x = new /\ N # {}
        BY <3>2
      <3> QED
        BY <2>2, <3>1, <3>2
    <2>4. \A x, y \in S : x.id = y.id => x = y
      <3> SUFFICES ASSUME NEW x \in S, NEW y \in S, x.id = y.id
                   PROVE  x = y
        OBVIOUS
      <3> HIDE DEF S
      <3>1. CASE (\E a \in tracks[k] : x = f[a]) /\ (\E b \in tracks[k] : y = f[b])
        BY <1>2, <2>1, <3>1 DEF Alike, TInv, Unique
      <3>2. CASE x = new \/ y = new
        BY <2>1, <2>2, <3>2 DEF Alike
      <3> QED
        BY <2>2, <3>1, <3>2
    <2>5. tracks' = [tracks EXCEPT ![k] = S] /\ next_clip_id' \in {next_clip_id, next_clip_id + 1}
      OBVIOUS
    <2> HIDE DEF S
    <2> QED
      BY <1>2, <2>3, <2>4, <2>5, OneTrackEdited
  <1> QED
    BY <1>1, <1>2 DEF TInv, Shape

-----------------------------------------------------------------------------
(* Edits of one clip.                                                       *)

\* A clip becomes one that is alike.
LEMMA OneClipEdited ==
  ASSUME TInv, NEW id, NEW c \in find_clip(id), NEW d, IsClip(c) => Alike(c, d),
         tracks' = Becomes(c, d), UNCHANGED <<next_clip_id, undefined, renumbered>>
  PROVE  TInv'
  <1>1. CASE renumbered
    BY <1>1, EditKeepsShape DEF Becomes, TInv, Shape
  <1>2. CASE ~ renumbered
    <2> DEFINE k == c.track_index
               f == [y \in tracks[k] |-> IF y = c THEN d ELSE y]
               T == tracks[k]
               new == SomeClip(k)
    <2>1. k \in DOMAIN tracks /\ c \in tracks[k] /\ HomeOf(c) = k /\ IsClip(c)
      BY <1>2, Found
    <2>2. tracks' = [tracks EXCEPT ![k] = {f[y] : y \in T} \cup {}]
      <3>1. tracks' = [tracks EXCEPT ![k] = (tracks[k] \ {c}) \cup {d}]
        BY <2>1 DEF Becomes
      <3>2. (tracks[k] \ {c}) \cup {d} = {f[y] : y \in T} \cup {}
        BY <2>1
      <3> QED
        BY <3>1, <3>2
    <2>3. \A y \in tracks[k] : IsClip(y) => Alike(y, f[y])
      BY <2>1 DEF Alike
    <2>4. IsClip(new) /\ new.id = next_clip_id /\ new.track_index = k
      BY SomeClipIsClip
    <2>5. T \in SUBSET tracks[k] /\ {} \in SUBSET {new}
      OBVIOUS
    <2> HIDE DEF f, T, new, k
    <2> QED
      BY <2>1, <2>2, <2>3, <2>4, <2>5, TrackEdited
  <1> QED
    BY <1>1, <1>2 DEF TInv, Shape

LEMMA TrimInv ==
  ASSUME TInv, NEW id, NEW d \in Descriptors, trim_clip(id, d)
  PROVE  TInv'
  <1>1. PICK c \in find_clip(id) : tracks' = Becomes(c, Trimmed(c, d))
    BY DEF trim_clip
  <1>2. UNCHANGED <<next_clip_id, undefined, renumbered>>
    BY DEF trim_clip
  <1> QED
    BY <1>1, <1>2, TrimmedIsAlike, OneClipEdited

LEMMA SlipInv ==
  ASSUME TInv, NEW id, NEW delta, slip_edit(id, delta)
  PROVE  TInv'
  <1>1. PICK c \in find_clip(id) : tracks' = Becomes(c, Slipped(c, delta))
    BY DEF slip_edit, Slipped
  <1>2. UNCHANGED <<next_clip_id, undefined, renumbered>>
    BY DEF slip_edit
  <1> QED
    BY <1>1, <1>2, SlippedIsAlike, OneClipEdited

LEMMA StretchInv ==
  ASSUME TInv, NEW id, NEW len \in Int, rate_stretch(id, len)
  PROVE  TInv'
  <1>1. PICK c \in find_clip(id) : tracks' = Becomes(c, Stretched(c, len))
    BY DEF rate_stretch, Stretched
  <1>2. UNCHANGED <<next_clip_id, undefined, renumbered>>
    BY DEF rate_stretch
  <1> QED
    BY <1>1, <1>2, StretchedIsAlike, OneClipEdited

LEMMA RemoveClipInv ==
  ASSUME TInv, NEW id, remove_clip(id)
  PROVE  TInv'
  <1>1. CASE renumbered
    BY <1>1, EditKeepsShape DEF remove_clip, TInv, Shape
  <1>2. CASE ~ renumbered
    <2>1. PICK c \in find_clip(id) : tracks' = [tracks EXCEPT ![HomeOf(c)] = @ \ {c}]
      BY DEF remove_clip
    <2> DEFINE k == c.track_index
               f == [y \in tracks[k] |-> y]
               T == tracks[k] \ {c}
               new == SomeClip(k)
    <2>2. k \in DOMAIN tracks /\ HomeOf(c) = k
      BY <1>2, Found
    <2>3. tracks' = [tracks EXCEPT ![k] = {f[y] : y \in T} \cup {}]
      <3>1. {f[y] : y \in T} \cup {} = T
        OBVIOUS
      <3> QED
        BY <2>1, <2>2, <3>1
    <2>4. \A y \in tracks[k] : IsClip(y) => Alike(y, f[y])
      BY DEF Alike
    <2>5. IsClip(new) /\ new.id = next_clip_id /\ new.track_index = k
      BY SomeClipIsClip
    <2>6. T \in SUBSET tracks[k] /\ {} \in SUBSET {new}
          /\ UNCHANGED <<next_clip_id, undefined, renumbered>>
      BY DEF remove_clip
    <2> HIDE DEF f, T, new, k
    <2> QED
      BY <2>2, <2>3, <2>4, <2>5, <2>6, TrackEdited
  <1> QED
    BY <1>1, <1>2 DEF TInv, Shape

\* The right half of a split has the new id and is on the same track.
LEMMA SplitInv ==
  ASSUME TInv, NEW id, NEW t \in Int, split_clip(id, t)
  PROVE  TInv'
  <1>1. next_clip_id' = next_clip_id + 1
    BY DEF split_clip, TakesId
  <1>2. CASE renumbered
    <2>1. undefined' \in BOOLEAN /\ renumbered' = renumbered /\ DOMAIN tracks' = DOMAIN tracks
      BY DEF split_clip, UsesBadIndex, Becomes, TInv, Shape
    <2> QED
      BY <1>1, <1>2, <2>1, EditKeepsShape
  <1>3. CASE ~ renumbered
    <2>1. PICK c \in find_clip(id) :
            \/ UsesBadIndex(c)
            \/ /\ tracks' = [Becomes(c, LeftHalf(c, t))
                               EXCEPT ![c.track_index] = @ \cup {RightHalf(c, t)}]
               /\ UNCHANGED <<undefined, renumbered>>
      BY DEF split_clip
    <2> DEFINE k == c.track_index
               l == LeftHalf(c, t)
               r == RightHalf(c, t)
               S == (tracks[k] \ {c}) \cup {l, r}
    <2>2. k \in DOMAIN tracks /\ c \in tracks[k] /\ HomeOf(c) = k /\ IsClip(c)
      BY <1>3, Found
    <2>3. Alike(c, l) /\ IsClip(r) /\ r.id = next_clip_id /\ r.track_index = k
      BY <2>2, HalvesAreClips
    <2> HIDE DEF l, r
    <2>4. tracks' = [tracks EXCEPT ![k] = S] /\ UNCHANGED <<undefined, renumbered>>
      BY <2>1, <2>2 DEF Becomes, UsesBadIndex, l, r
    <2>5. \A y \in tracks[k] : IsClip(y) /\ y.track_index = k /\ y.id # next_clip_id
      BY <1>3, <2>2 DEF TInv, Shape, Placed
    <2>6. \A x \in S : /\ IsClip(x) /\ x.track_index = k
                       /\ \/ \E y \in tracks[k] : y.id = x.id
                          \/ x.id = next_clip_id /\ next_clip_id' = next_clip_id + 1
      BY <1>1, <2>2, <2>3, <2>5 DEF Alike
    <2>7. \A x, y \in S : x.id = y.id => x = y
      BY <1>3, <2>2, <2>3, <2>5 DEF Alike, TInv, Unique
    <2> HIDE DEF S, k
    <2> QED
      BY <1>1, <1>3, <2>2, <2>4, <2>6, <2>7, OneTrackEdited
  <1> QED
    BY <1>2, <1>3 DEF TInv, Shape

\* A copy has the new id and is on the same track.
LEMMA DuplicateInv ==
  ASSUME TInv, NEW id, duplicate_clip(id)
  PROVE  TInv'
  <1>1. next_clip_id' = next_clip_id + 1
    BY DEF duplicate_clip, TakesId
  <1>2. CASE renumbered
    <2>1. undefined' \in BOOLEAN /\ renumbered' = renumbered /\ DOMAIN tracks' = DOMAIN tracks
      BY DEF duplicate_clip, UsesBadIndex, TInv, Shape
    <2> QED
      BY <1>1, <1>2, <2>1, EditKeepsShape
  <1>3. CASE ~ renumbered
    <2>1. PICK c \in find_clip(id) :
            \/ UsesBadIndex(c)
            \/ /\ tracks' = [tracks EXCEPT ![c.track_index] = @ \cup {Duplicate(c)}]
               /\ UNCHANGED <<undefined, renumbered>>
      BY DEF duplicate_clip, Duplicate
    <2> DEFINE k == c.track_index
               r == Duplicate(c)
               S == tracks[k] \cup {r}
    <2>2. k \in DOMAIN tracks /\ IsClip(c)
      BY <1>3, Found
    <2>3. IsClip(r) /\ r.id = next_clip_id /\ r.track_index = k
      BY <2>2, DuplicateIsClip
    <2> HIDE DEF r
    <2>4. tracks' = [tracks EXCEPT ![k] = S] /\ UNCHANGED <<undefined, renumbered>>
      BY <2>1, <2>2 DEF UsesBadIndex, r
    <2>5. \A y \in tracks[k] : IsClip(y) /\ y.track_index = k /\ y.id # next_clip_id
      BY <1>3, <2>2 DEF TInv, Shape, Placed
    <2>6. \A x \in S : /\ IsClip(x) /\ x.track_index = k
                       /\ \/ \E y \in tracks[k] : y.id = x.id
                          \/ x.id = next_clip_id /\ next_clip_id' = next_clip_id + 1
      BY <1>1, <2>3, <2>5
    <2>7. \A x, y \in S : x.id = y.id => x = y
      BY <1>3, <2>2, <2>3, <2>5 DEF TInv, Unique
    <2> HIDE DEF S, k
    <2> QED
      BY <1>1, <1>3, <2>2, <2>4, <2>6, <2>7, OneTrackEdited
  <1> QED
    BY <1>2, <1>3 DEF TInv, Shape

-----------------------------------------------------------------------------
(* Edits of the clips of a track.                                           *)

LEMMA AddClipInv ==
  ASSUME TInv, NEW k, NEW d \in Descriptors, add_clip(k, d)
  PROVE  TInv'
  <1> DEFINE f == [y \in tracks[k] |-> y]
             new == NewClip(k, d)
             T == tracks[k]
             N == {new}
  <1>1. k \in DOMAIN tracks /\ next_clip_id' = next_clip_id + 1 /\ UNCHANGED <<undefined, renumbered>>
    BY DEF add_clip, TakesId
  <1>2. tracks' = [tracks EXCEPT ![k] = {f[y] : y \in T} \cup N]
    BY DEF add_clip
  <1>3. \A y \in tracks[k] : IsClip(y) => Alike(y, f[y])
    BY DEF Alike
  <1>4. IsClip(new) /\ new.id = next_clip_id /\ new.track_index = k
    BY DescriptorFields, NewClipIsClip
  <1>5. T \in SUBSET tracks[k] /\ N \in SUBSET {new}
    OBVIOUS
  <1> HIDE DEF f, new, T, N
  <1> QED
    BY <1>1, <1>2, <1>3, <1>4, <1>5, TrackEdited

LEMMA InsertInv ==
  ASSUME TInv, NEW k, NEW at \in Int, NEW d \in Descriptors, insert_edit(k, at, d)
  PROVE  TInv'
  <1> DEFINE f == [y \in tracks[k] |-> Pushed(y, at, Length(d))]
             new == NewClip(k, At(d, at))
             T == tracks[k]
             N == {new}
  <1>1. k \in DOMAIN tracks /\ next_clip_id' = next_clip_id + 1 /\ UNCHANGED <<undefined, renumbered>>
    BY DEF insert_edit, TakesId
  <1>2. tracks' = [tracks EXCEPT ![k] = {f[y] : y \in T} \cup N]
    BY DEF insert_edit
  <1>3. \A y \in tracks[k] : IsClip(y) => Alike(y, f[y])
    BY MovedIsAlike, DescriptorFields DEF Alike, Pushed
  <1>4. IsClip(new) /\ new.id = next_clip_id /\ new.track_index = k
    BY AtFields, NewClipIsClip
  <1>5. T \in SUBSET tracks[k] /\ N \in SUBSET {new}
    OBVIOUS
  <1> HIDE DEF f, new, T, N
  <1> QED
    BY <1>1, <1>2, <1>3, <1>4, <1>5, TrackEdited

LEMMA OverwriteInv ==
  ASSUME TInv, NEW k, NEW at \in Int, NEW d \in Descriptors, overwrite_edit(k, at, d)
  PROVE  TInv'
  <1> DEFINE f == [y \in tracks[k] |-> y]
             new == NewClip(k, At(d, at))
             T == {y \in tracks[k] : Survives(y, at, at + Length(d))}
             N == {new}
  <1>1. k \in DOMAIN tracks /\ next_clip_id' = next_clip_id + 1 /\ UNCHANGED <<undefined, renumbered>>
    BY DEF overwrite_edit, TakesId
  <1>2. tracks' = [tracks EXCEPT ![k] = {f[y] : y \in T} \cup N]
    <2>1. {f[y] : y \in T} = T
      OBVIOUS
    <2> QED
      BY <2>1 DEF overwrite_edit
  <1>3. \A y \in tracks[k] : IsClip(y) => Alike(y, f[y])
    BY DEF Alike
  <1>4. IsClip(new) /\ new.id = next_clip_id /\ new.track_index = k
    BY AtFields, NewClipIsClip
  <1>5. T \in SUBSET tracks[k] /\ N \in SUBSET {new}
    OBVIOUS
  <1> HIDE DEF f, new, T, N
  <1> QED
    BY <1>1, <1>2, <1>3, <1>4, <1>5, TrackEdited

\* Both outcomes of a ripple delete keep some clips, moved or without media.
LEMMA RippleInv ==
  ASSUME TInv, NEW k, NEW from \in Int, NEW to \in Int,
         ripple_delete(k, from, to) \/ ripple_delete_Refused(k, from, to)
  PROVE  TInv'
  <1> DEFINE f == [y \in tracks[k] |-> Rippled(y, from, to)]
             g == [y \in tracks[k] |-> [Rippled(y, from, to) EXCEPT !.has_media = FALSE]]
             new == SomeClip(k)
             T == {y \in tracks[k] : Survives(y, from, to)}
  <1>1. k \in DOMAIN tracks /\ UNCHANGED <<next_clip_id, undefined, renumbered>>
    BY DEF ripple_delete, ripple_delete_Refused
  <1>2. \A y \in tracks[k] : IsClip(y) => Alike(y, f[y])
    BY MovedIsAlike DEF Alike, Rippled
  <1>3. \A y \in tracks[k] : IsClip(y) => Alike(y, g[y])
    <2> SUFFICES ASSUME NEW y \in tracks[k], IsClip(y)
                 PROVE  Alike(y, [f[y] EXCEPT !.has_media = FALSE])
      OBVIOUS
    <2>1. Alike(y, f[y])
      BY <1>2
    <2> HIDE DEF f
    <2> QED
      BY <2>1 DEF Alike, IsClip, HasFields, Fields
  <1>4. IsClip(new) /\ new.id = next_clip_id /\ new.track_index = k
    BY SomeClipIsClip
  <1>5. CASE ripple_delete(k, from, to)
    <2>1. tracks' = [tracks EXCEPT ![k] = {f[y] : y \in T} \cup {}]
      BY <1>5 DEF ripple_delete
    <2>2. T \in SUBSET tracks[k] /\ {} \in SUBSET {new}
      OBVIOUS
    <2> HIDE DEF f, g, new, T
    <2> QED
      BY <1>1, <1>2, <1>4, <2>1, <2>2, TrackEdited
  <1>6. CASE ripple_delete_Refused(k, from, to)
    <2>1. tracks' = [tracks EXCEPT ![k] = {g[y] : y \in tracks[k]} \cup {}]
      BY <1>6 DEF ripple_delete_Refused
    <2>2. tracks[k] \in SUBSET tracks[k] /\ {} \in SUBSET {new}
      OBVIOUS
    <2> HIDE DEF f, g, new, T
    <2> QED
      BY <1>1, <1>3, <1>4, <2>1, <2>2, TrackEdited
  <1> QED
    BY <1>5, <1>6

-----------------------------------------------------------------------------
(* Edits of a clip and its neighbours: each of them becomes one alike.      *)

\* The clip after c begins where c ends, so it is another one.
LEMMA RollInv ==
  ASSUME TInv, NEW id, NEW delta \in Int, roll_edit(id, delta)
  PROVE  TInv'
  <1>1. CASE renumbered
    <2>1. /\ undefined' \in BOOLEAN /\ renumbered' = renumbered
          /\ DOMAIN tracks' = DOMAIN tracks /\ next_clip_id' = next_clip_id
      BY DEF roll_edit, UsesBadIndex, Becomes, TInv, Shape
    <2> QED
      BY <1>1, <2>1, EditKeepsShape
  <1>2. CASE ~ renumbered
    <2>1. PICK c \in find_clip(id) :
            \/ UsesBadIndex(c)
            \/ /\ \E n \in NextClips(tracks[c.track_index], c) :
                    /\ CanRoll(c, n, delta)
                    /\ tracks' = [Becomes(c, Rolled(c, delta)) EXCEPT ![c.track_index] =
                                    (@ \ {n}) \cup {RolledNext(c, n, delta)}]
               /\ UNCHANGED <<undefined, renumbered>>
      BY DEF roll_edit
    <2> DEFINE k == c.track_index
               d == Rolled(c, delta)
    <2>2. k \in DOMAIN tracks /\ c \in tracks[k] /\ HomeOf(c) = k /\ IsClip(c)
      BY <1>2, Found
    <2>3. PICK n \in NextClips(tracks[k], c) :
            /\ CanRoll(c, n, delta)
            /\ tracks' = [Becomes(c, d) EXCEPT ![k] =
                            (@ \ {n}) \cup {RolledNext(c, n, delta)}]
            /\ UNCHANGED <<undefined, renumbered>>
      BY <2>1, <2>2 DEF UsesBadIndex
    <2> DEFINE e == RolledNext(c, n, delta)
               f == [y \in tracks[k] |-> IF y = c THEN d ELSE IF y = n THEN e ELSE y]
               T == tracks[k]
               new == SomeClip(k)
    <2>4. n \in tracks[k] /\ IsClip(n)
      BY <1>2, <2>2 DEF NextClips, TInv, Placed
    <2>5. n # c
      <3>1. n.in_time >= c.out_time /\ c.out_time - c.in_time > 0
        BY <2>3 DEF NextClips, CanRoll, Length
      <3> QED
        BY <2>2, <3>1 DEF IsClip
    <2>6. Alike(c, d) /\ Alike(n, e)
      BY <2>2, <2>4, RolledAreAlike
    <2> HIDE DEF d, e
    <2>7. d # n
      BY <1>2, <2>2, <2>4, <2>5, <2>6 DEF Alike, TInv, Unique
    <2>8. tracks' = [tracks EXCEPT ![k] = {f[y] : y \in T} \cup {}]
      <3>1. tracks' = [tracks EXCEPT ![k] = ((((tracks[k] \ {c}) \cup {d}) \ {n}) \cup {e})]
        BY <2>2, <2>3 DEF Becomes, e
      <3>2. (((tracks[k] \ {c}) \cup {d}) \ {n}) \cup {e} = {f[y] : y \in T} \cup {}
        BY <2>2, <2>4, <2>5, <2>7
      <3> QED
        BY <3>1, <3>2
    <2>9. \A y \in tracks[k] : IsClip(y) => Alike(y, f[y])
      BY <2>6 DEF Alike
    <2>10. IsClip(new) /\ new.id = next_clip_id /\ new.track_index = k
      BY SomeClipIsClip
    <2>11. T \in SUBSET tracks[k] /\ {} \in SUBSET {new} /\ next_clip_id' = next_clip_id
      BY DEF roll_edit
    <2> HIDE DEF f, T, new, k
    <2> QED
      BY <2>2, <2>3, <2>8, <2>9, <2>10, <2>11, TrackEdited
  <1> QED
    BY <1>1, <1>2 DEF TInv, Shape

LEMMA SlideInv ==
  ASSUME TInv, NEW id, NEW delta \in Int, slide_edit(id, delta)
  PROVE  TInv'
  <1>1. CASE renumbered
    <2>1. /\ undefined' \in BOOLEAN /\ renumbered' = renumbered
          /\ DOMAIN tracks' = DOMAIN tracks /\ next_clip_id' = next_clip_id
      BY DEF slide_edit, UsesBadIndex, Becomes, TInv, Shape
    <2> QED
      BY <1>1, <2>1, EditKeepsShape
  <1>2. CASE ~ renumbered
    <2>1. PICK c \in find_clip(id) :
            \/ UsesBadIndex(c)
            \/ /\ \E p, n \in SUBSET Others(c) :
                    tracks' = [Becomes(c, Moved(c, delta)) EXCEPT ![c.track_index] =
                                 {Reaching(x, p, n, Moved(c, delta)) : x \in @}]
               /\ UNCHANGED <<undefined, renumbered>>
      <3>1. \A c : OneOf(PreviousClips(Others(c), c)) \subseteq SUBSET Others(c)
                   /\ OneOf(NextClips(Others(c), c)) \subseteq SUBSET Others(c)
        BY DEF OneOf, PreviousClips, NextClips
      <3> QED
        BY <3>1 DEF slide_edit
    <2> DEFINE k == c.track_index
               d == Moved(c, delta)
    <2>2. k \in DOMAIN tracks /\ c \in tracks[k] /\ HomeOf(c) = k /\ IsClip(c)
      BY <1>2, Found
    <2>3. PICK p, n \in SUBSET Others(c) :
            tracks' = [Becomes(c, d) EXCEPT ![k] = {Reaching(x, p, n, d) : x \in @}]
            /\ UNCHANGED <<undefined, renumbered>>
      BY <2>1, <2>2 DEF UsesBadIndex
    <2> DEFINE f == [y \in tracks[k] |-> Reaching(IF y = c THEN d ELSE y, p, n, d)]
               T == tracks[k]
               new == SomeClip(k)
    <2>4. Alike(c, d)
      BY <2>2, MovedIsAlike
    <2> HIDE DEF d
    <2>5. tracks' = [tracks EXCEPT ![k] = {f[y] : y \in T} \cup {}]
      <3>1. tracks' = [tracks EXCEPT ![k] = {Reaching(x, p, n, d) : x \in (tracks[k] \ {c}) \cup {d}}]
        BY <2>2, <2>3 DEF Becomes
      <3>2. {Reaching(x, p, n, d) : x \in (tracks[k] \ {c}) \cup {d}} = {f[y] : y \in T} \cup {}
        BY <2>2
      <3> QED
        BY <3>1, <3>2
    <2>6. \A y \in tracks[k] : IsClip(y) => Alike(y, f[y])
      <3>1. ASSUME NEW x, IsClip(x) PROVE Alike(x, Reaching(x, p, n, d))
        BY <2>2, <2>4, <3>1 DEF Alike, IsClip, HasFields, Fields, Reaching
      <3> QED
        BY <2>4, <3>1 DEF Alike
    <2>7. IsClip(new) /\ new.id = next_clip_id /\ new.track_index = k
      BY SomeClipIsClip
    <2>8. T \in SUBSET tracks[k] /\ {} \in SUBSET {new} /\ next_clip_id' = next_clip_id
      BY DEF slide_edit
    <2> HIDE DEF f, T, new, k
    <2> QED
      BY <2>2, <2>3, <2>5, <2>6, <2>7, <2>8, TrackEdited
  <1> QED
    BY <1>1, <1>2 DEF TInv, Shape

-----------------------------------------------------------------------------
(* Edits of several tracks.                                                 *)

\* The clip leaves the track it names, where it is found, for track k.
LEMMA MoveInv ==
  ASSUME TInv, NEW id, NEW k, NEW from \in Int, move_clip(id, k, from)
  PROVE  TInv'
  <1>1. CASE renumbered
    <2>1. /\ undefined' \in BOOLEAN /\ renumbered' = renumbered
          /\ DOMAIN tracks' = DOMAIN tracks /\ next_clip_id' = next_clip_id
      BY DEF move_clip, UsesBadIndex, TInv, Shape
    <2> QED
      BY <1>1, <2>1, EditKeepsShape
  <1>2. CASE ~ renumbered
    <2> DEFINE erased(c) == [tracks EXCEPT ![c.track_index] = {x \in @ : x.id # id}]
    <2>1. PICK c \in find_clip(id) :
            \/ UsesBadIndex(c)
            \/ /\ tracks' = [erased(c) EXCEPT ![k] = @ \cup {MovedTo(c, k, from)}]
               /\ UNCHANGED <<undefined, renumbered>>
      BY DEF move_clip, MovedTo
    <2> DEFINE e == MovedTo(c, k, from)
    <2>2. /\ c.track_index \in DOMAIN tracks /\ c \in tracks[c.track_index]
          /\ IsClip(c) /\ c.id = id
      BY <1>2, Found
    <2>3. k \in DOMAIN tracks /\ next_clip_id' = next_clip_id
      BY DEF move_clip
    <2>4. IsClip(e) /\ e.id = id /\ e.track_index = k
      BY <2>2, MovedToIsClip
    <2> HIDE DEF e
    <2>5. tracks' = [erased(c) EXCEPT ![k] = @ \cup {e}] /\ UNCHANGED <<undefined, renumbered>>
      BY <2>1, <2>2 DEF UsesBadIndex, e
    <2>6. Placed /\ Unique /\ next_clip_id \in Nat
      BY <1>2 DEF TInv, Shape
    <2>7. DOMAIN tracks' = DOMAIN tracks
      BY <2>5
    <2>8. ASSUME NEW l \in DOMAIN tracks, NEW x \in tracks'[l]
          PROVE  (x \in tracks[l] /\ x.id # id) \/ (x = e /\ l = k)
      <3>1. x \in erased(c)[l] \/ (x = e /\ l = k)
        BY <2>3, <2>5
      <3>2. ASSUME x \in erased(c)[l] PROVE x \in tracks[l] /\ x.id # id
        <4>1. CASE l = c.track_index
          BY <2>2, <3>2, <4>1
        <4>2. CASE l # c.track_index
          <5>1. x \in tracks[l] /\ x.track_index = l
            BY <2>6, <3>2, <4>2 DEF Placed
          <5> QED
            BY <2>2, <2>6, <4>2, <5>1 DEF Unique
        <4> QED
          BY <4>1, <4>2
      <3> QED
        BY <3>1, <3>2
    <2>9. Placed'
      <3>1. id \in Nat /\ id < next_clip_id
        BY <2>2, <2>6 DEF Placed
      <3> QED
        BY <2>3, <2>4, <2>6, <2>7, <2>8, <3>1 DEF Placed
    <2>10. Unique'
      BY <2>4, <2>6, <2>7, <2>8 DEF Unique
    <2>11. Shape'
      BY <2>3, <2>5, <2>7 DEF TInv, Shape
    <2> QED
      BY <1>2, <2>5, <2>9, <2>10, <2>11 DEF TInv
  <1> QED
    BY <1>1, <1>2 DEF TInv, Shape

LEMMA AddTrackInv ==
  ASSUME TInv, add_track
  PROVE  TInv'
  <1>1. TrackCount \in Nat /\ DOMAIN tracks = 0 .. TrackCount - 1
    BY CountTracks DEF TInv
  <1>2. DOMAIN tracks' = 0 .. (TrackCount + 1) - 1 /\ TrackCount + 1 \in Nat
    BY <1>1 DEF add_track
  <1>3. Shape'
    BY <1>2 DEF TInv, Shape, add_track
  <1>4. ASSUME NEW k \in DOMAIN tracks', NEW c \in tracks'[k]
        PROVE  k \in DOMAIN tracks /\ c \in tracks[k]
    BY <1>1, <1>4 DEF add_track
  <1>5. UNCHANGED <<next_clip_id, undefined, renumbered>>
    BY DEF add_track
  <1>6. ASSUME ~ renumbered PROVE Placed' /\ Unique'
    <2>1. Placed'
      BY <1>4, <1>5, <1>6 DEF TInv, Placed
    <2>2. Unique'
      BY <1>4, <1>5, <1>6 DEF TInv, Unique
    <2> QED
      BY <2>1, <2>2
  <1> QED
    BY <1>3, <1>5, <1>6 DEF TInv

\* Nothing moves down when the top track is the one removed.
LEMMA RemoveTrackInv ==
  ASSUME TInv, NEW k, remove_track(k)
  PROVE  TInv'
  <1>1. TrackCount \in Nat /\ DOMAIN tracks = 0 .. TrackCount - 1
    BY CountTracks DEF TInv
  <1>2. k \in DOMAIN tracks /\ UNCHANGED <<next_clip_id, undefined>>
        /\ renumbered' = (renumbered \/ k # TrackCount - 1)
    BY DEF remove_track
  <1>3. DOMAIN tracks' = 0 .. (TrackCount - 1) - 1 /\ TrackCount - 1 \in Nat
    BY <1>1, <1>2 DEF remove_track
  <1>4. Shape'
    BY <1>2, <1>3 DEF TInv, Shape
  <1>5. ASSUME ~ renumbered' PROVE ~ undefined' /\ Placed' /\ Unique'
    <2>1. ~ renumbered /\ k = TrackCount - 1
      BY <1>2, <1>5 DEF TInv, Shape
    <2>2. \A l \in DOMAIN tracks' : l \in DOMAIN tracks /\ tracks'[l] = tracks[l]
      BY <1>1, <2>1 DEF remove_track
    <2>3. Placed'
      BY <1>2, <2>1, <2>2 DEF TInv, Placed
    <2>4. Unique'
      BY <2>1, <2>2 DEF TInv, Unique
    <2> QED
      BY <1>2, <2>1, <2>3, <2>4 DEF TInv
  <1> QED
    BY <1>4, <1>5 DEF TInv

\* Each clip is told its new track.
LEMMA ReorderInv ==
  ASSUME TInv, NEW order \in Orders, reorder_tracks(order)
  PROVE  TInv'
  <1> DEFINE at(c, k) == [c EXCEPT !.track_index = k]
  <1>1. UNCHANGED <<next_clip_id, undefined, renumbered>> /\ DOMAIN tracks' = DOMAIN tracks
        /\ \A k \in DOMAIN tracks : tracks'[k] = {at(c, k) : c \in tracks[order[k]]}
    BY DEF reorder_tracks, Reordered
  <1>2. Shape'
    BY <1>1 DEF TInv, Shape
  <1>3. \A k \in DOMAIN tracks : order[k] \in DOMAIN tracks
    BY DEF Orders
  <1>4. \A k, l \in DOMAIN tracks : order[k] = order[l] => k = l
    BY DEF Orders
  <1>5. ASSUME NEW c, IsClip(c), NEW k PROVE IsClip(at(c, k)) /\ at(c, k).id = c.id
                                             /\ at(c, k).track_index = k
    BY <1>5 DEF IsClip, HasFields, Fields
  <1> HIDE DEF at
  <1>6. ASSUME ~ renumbered PROVE Placed' /\ Unique'
    <2>1. Placed'
      BY <1>1, <1>3, <1>5, <1>6 DEF TInv, Placed
    <2>2. Unique'
      <3> SUFFICES ASSUME NEW k \in DOMAIN tracks, NEW l \in DOMAIN tracks,
                          NEW x \in tracks'[k], NEW y \in tracks'[l], x.id = y.id
                   PROVE  x = y
        BY <1>1 DEF Unique
      <3>1. PICK c \in tracks[order[k]], d \in tracks[order[l]] : x = at(c, k) /\ y = at(d, l)
        BY <1>1
      <3>2. c.track_index = order[k] /\ d.track_index = order[l] /\ c.id = d.id
        BY <1>3, <1>5, <1>6, <3>1 DEF TInv, Placed
      <3>3. order[k] \in DOMAIN tracks /\ order[l] \in DOMAIN tracks
        BY <1>3
      <3>4. Unique
        BY <1>6 DEF TInv
      <3>5. c = d
        BY ONLY <3>1, <3>2, <3>3, <3>4 DEF Unique
      <3> QED
        BY <1>4, <3>1, <3>2, <3>5
    <2> QED
      BY <2>1, <2>2
  <1> QED
    BY <1>1, <1>2, <1>6 DEF TInv

-----------------------------------------------------------------------------
LEMMA TimesAreInts == Times \subseteq Int /\ Lengths \subseteq Int /\ Deltas \subseteq Int
  BY TimelineAssumption DEF Times, Lengths, Deltas

LEMMA InitInv == Init => TInv
  <1> SUFFICES ASSUME Init PROVE TInv
    OBVIOUS
  <1>1. DOMAIN tracks = 0 .. 0 - 1
    BY DEF Init
  <1> QED
    BY <1>1 DEF Init, TInv, Shape, Placed, Unique

LEMMA PlaceInv == TInv /\ (Place \/ InsertEdit) => TInv'
  <1> SUFFICES ASSUME TInv, Place \/ InsertEdit PROVE TInv'
    OBVIOUS
  <1>1. CASE \E k \in DOMAIN tracks, d \in Descriptors : add_clip(k, d)
    BY <1>1, AddClipInv
  <1>2. CASE \E id \in Ids, d \in Descriptors : trim_clip(id, d)
    BY <1>2, TrimInv
  <1>3. CASE \E id \in Ids, k \in DOMAIN tracks, from \in Times : move_clip(id, k, from)
    BY <1>3, MoveInv, TimesAreInts
  <1>4. CASE \E id \in Ids, len \in Lengths : rate_stretch(id, len)
    BY <1>4, StretchInv, TimesAreInts
  <1>5. CASE \E id \in Ids : duplicate_clip(id)
    BY <1>5, DuplicateInv
  <1>6. CASE InsertEdit
    BY <1>6, InsertInv, TimesAreInts DEF InsertEdit
  <1> QED
    BY <1>1, <1>2, <1>3, <1>4, <1>5, <1>6 DEF Place

LEMMA FitInv == TInv /\ Fit => TInv'
  <1> SUFFICES ASSUME TInv, Fit PROVE TInv'
    OBVIOUS
  <1>1. CASE add_track
    BY <1>1, AddTrackInv
  <1>2. CASE \E k \in DOMAIN tracks : remove_track(k)
    BY <1>2, RemoveTrackInv
  <1>3. CASE \E id \in Ids : remove_clip(id)
    BY <1>3, RemoveClipInv
  <1>4. CASE \E id \in Ids, t \in Times : split_clip(id, t)
    BY <1>4, SplitInv, TimesAreInts
  <1>5. CASE \E k \in DOMAIN tracks, from, to \in Times :
               ripple_delete(k, from, to) \/ ripple_delete_Refused(k, from, to)
    BY <1>5, RippleInv, TimesAreInts
  <1>6. CASE OverwriteEdit
    BY <1>6, OverwriteInv, TimesAreInts DEF OverwriteEdit
  <1>7. CASE \E id \in Ids, delta \in Deltas : roll_edit(id, delta)
    BY <1>7, RollInv, TimesAreInts
  <1>8. CASE \E id \in Ids, delta \in Deltas : slip_edit(id, delta)
    BY <1>8, SlipInv
  <1>9. CASE \E id \in Ids, delta \in Deltas : slide_edit(id, delta)
    BY <1>9, SlideInv, TimesAreInts
  <1>10. CASE \E order \in Orders : reorder_tracks(order)
    BY <1>10, ReorderInv
  <1> QED
    BY <1>1, <1>2, <1>3, <1>4, <1>5, <1>6, <1>7, <1>8, <1>9, <1>10 DEF Fit

\* The invariant holds in every state of every behaviour.
THEOREM TInvAlways == Spec => []TInv
  <1>1. TInv /\ [Next]_vars => TInv'
    <2> SUFFICES ASSUME TInv, [Next]_vars PROVE TInv'
      OBVIOUS
    <2>1. CASE Next
      BY <2>1, PlaceInv, FitInv DEF Next
    <2>2. CASE UNCHANGED vars
      BY <2>2 DEF vars, TInv, Shape, Placed, Unique
    <2> QED
      BY <2>1, <2>2
  <1> QED
    BY InitInv, <1>1, PTL DEF Spec

\* No two clips have one id, each clip is on the track it names, and no edit
\* indexes past the tracks, until a track below another is removed.
THEOREM ClipsAreFound == Spec => []ClipsAreWhereTheySay
  <1>1. TInv => ClipsAreWhereTheySay
    BY DEF TInv, Placed, Unique, ClipsAreWhereTheySay, Clips
  <1> QED
    BY <1>1, TInvAlways, PTL

-----------------------------------------------------------------------------
(* What an edit leaves, after tracks were renumbered as well: clips with the *)
(* ids there were and one new id at most, which last if all the clips did    *)
(* and no caller asked for one that does not.                                *)

\* A clip whose times and speed are numbers and that, if of the kind "lasting",
\* ends after it starts.
Fine(c, kind) ==
    /\ IsClip(c)
    /\ c.source_in \in Int /\ c.source_out \in Int /\ c.speed \in Int
    /\ kind = "lasting" => c.in_time < c.out_time

Forward(c) == Fine(c, "lasting")

\* d is what became of c.
Heir(c, d, kind) == Fine(d, kind) /\ d.id = c.id

LEMMA ForwardLength ==
  ASSUME NEW c, Forward(c)
  PROVE  Length(c) \in Nat \ {0} /\ SourceLength(c) \in Int
  BY DEF Forward, Fine, IsClip, Length, SourceLength

LEMMA LastingIsForward ==
  ASSUME NEW kind, NEW c, Fine(c, kind), c.in_time < c.out_time \/ Length(c) > 0
  PROVE  Forward(c)
  BY DEF Forward, Fine, IsClip, Length

LEMMA ForwardIsFine ==
  ASSUME NEW kind, NEW c, Forward(c)
  PROVE  Fine(c, kind)
  BY DEF Forward, Fine

\* Where a cut falls in the source is a number.
LEMMA SourceAtIsInt ==
  ASSUME NEW c, Forward(c), NEW t \in Int
  PROVE  SourceAt(c, t) \in Int
  <1>1. Length(c) \in Nat \ {0} /\ SourceLength(c) \in Int
    BY ForwardLength
  <1>2. (t - c.in_time) * SourceLength(c) \in Int
    BY <1>1 DEF Forward, Fine, IsClip
  <1>3. ((t - c.in_time) * SourceLength(c)) \div Length(c) \in Int
    BY <1>1, <1>2
  <1> QED
    BY <1>3 DEF SourceAt, Forward, Fine

LEMMA MovedIsHeir ==
  ASSUME NEW kind, NEW c, Fine(c, kind), NEW delta \in Int
  PROVE  Heir(c, Moved(c, delta), kind)
  <1> DEFINE d == Moved(c, delta)
  <1>1. HasFields(d)
    BY DEF Fine, IsClip, HasFields, Fields, Moved
  <1>2. /\ d.id = c.id /\ d.in_time = c.in_time + delta /\ d.out_time = c.out_time + delta
        /\ d.source_in = c.source_in /\ d.source_out = c.source_out /\ d.speed = c.speed
    BY DEF Fine, IsClip, HasFields, Fields, Moved
  <1> HIDE DEF d
  <1>3. Heir(c, d, kind)
    BY <1>1, <1>2 DEF Heir, Fine, IsClip
  <1> QED
    BY <1>3 DEF d

\* A clip made from ranges that are numbers.
LEMMA NewClipIsFine ==
  ASSUME NEW kind, NEW k, NEW d,
         d.in_time \in Int, d.out_time \in Int, d.source_in \in Int, d.source_out \in Int,
         d.speed \in Int, kind = "lasting" => d.in_time < d.out_time
  PROVE  Fine(NewClip(k, d), kind) /\ NewClip(k, d).id = next_clip_id
  <1> DEFINE e == NewClip(k, d)
  <1>1. HasFields(e)
    BY DEF HasFields, Fields, NewClip
  <1>2. /\ e.id = next_clip_id /\ e.in_time = d.in_time /\ e.out_time = d.out_time
        /\ e.source_in = d.source_in /\ e.source_out = d.source_out /\ e.speed = d.speed
    BY DEF NewClip
  <1> HIDE DEF e
  <1>3. Fine(e, kind) /\ e.id = next_clip_id
    BY <1>1, <1>2 DEF Fine, IsClip
  <1> QED
    BY <1>3 DEF e

\* A caller's clip, where it is said to be or placed at a time.
LEMMA DescribedIsFine ==
  ASSUME NEW kind, NEW k, NEW d \in Descriptors, kind = "lasting" => Length(d) > 0
  PROVE  Fine(NewClip(k, d), kind) /\ NewClip(k, d).id = next_clip_id
  <1>1. kind = "lasting" => d.in_time < d.out_time
    BY DescriptorFields DEF Length
  <1> QED
    BY <1>1, DescriptorFields, NewClipIsFine

LEMMA PlacedIsFine ==
  ASSUME NEW kind, NEW k, NEW d \in Descriptors, Length(d) > 0, NEW at \in Int
  PROVE  Fine(NewClip(k, At(d, at)), kind) /\ NewClip(k, At(d, at)).id = next_clip_id
  <1>1. at < at + Length(d)
    BY DescriptorFields
  <1> DEFINE e == At(d, at)
  <1>2. /\ e.in_time = at /\ e.out_time = at + Length(d)
        /\ e.in_time \in Int /\ e.out_time \in Int
        /\ e.source_in \in Int /\ e.source_out \in Int /\ e.speed \in Int
    BY DescriptorFields, AtFields
  <1> HIDE DEF e
  <1>3. e.in_time < e.out_time
    BY <1>1, <1>2
  <1>4. Fine(NewClip(k, e), kind) /\ NewClip(k, e).id = next_clip_id
    BY <1>2, <1>3, NewClipIsFine
  <1> QED
    BY <1>4 DEF e

LEMMA TrimmedIsHeir ==
  ASSUME NEW kind, NEW c, Fine(c, kind), NEW d \in Descriptors, kind = "lasting" => Length(d) > 0
  PROVE  Heir(c, Trimmed(c, d), kind)
  <1> DEFINE e == Trimmed(c, d)
  <1>1. HasFields(e)
    BY DEF Fine, IsClip, HasFields, Fields, Trimmed
  <1>2. /\ e.id = c.id /\ e.in_time = d.in_time /\ e.out_time = d.out_time
        /\ e.speed = c.speed
        /\ e.source_in = d.source_in /\ e.source_out = d.source_out
    BY DEF Fine, IsClip, HasFields, Fields, Trimmed
  <1> HIDE DEF e
  <1>3. kind = "lasting" => d.in_time < d.out_time
    BY DescriptorFields DEF Length
  <1>4. Heir(c, e, kind)
    BY <1>1, <1>2, <1>3, DescriptorFields DEF Heir, Fine, IsClip
  <1> QED
    BY <1>4 DEF e

LEMMA SlippedIsHeir ==
  ASSUME NEW kind, NEW c, Fine(c, kind), NEW delta \in Int
  PROVE  Heir(c, Slipped(c, delta), kind)
  <1> DEFINE start == Max({c.source_in + delta, 0})
             d == Slipped(c, delta)
  <1>1. start \in Int
    <2>1. c.source_in + delta \in Int
      BY DEF Fine
    <2>2. start = IF c.source_in + delta >= 0 THEN c.source_in + delta ELSE 0
      BY <2>1 DEF Max
    <2> QED
      BY <2>1, <2>2
  <1>2. d = [c EXCEPT !.source_in = start, !.source_out = start + SourceLength(c)]
    BY DEF Slipped
  <1> HIDE DEF start, d
  <1>3. HasFields(d)
    BY <1>2 DEF Fine, IsClip, HasFields, Fields
  <1>4. /\ d.id = c.id /\ d.in_time = c.in_time /\ d.out_time = c.out_time /\ d.speed = c.speed
        /\ d.source_in = start /\ d.source_out = start + SourceLength(c)
    BY <1>2 DEF Fine, IsClip, HasFields, Fields
  <1>5. Heir(c, d, kind)
    BY <1>1, <1>3, <1>4 DEF Heir, Fine, IsClip, SourceLength
  <1> QED
    BY <1>5 DEF d

LEMMA StretchedIsHeir ==
  ASSUME NEW kind, NEW c, Fine(c, kind), NEW len \in Nat \ {0}
  PROVE  Heir(c, Stretched(c, len), kind)
  <1> DEFINE d == Stretched(c, len)
  <1>1. HasFields(d)
    BY DEF Fine, IsClip, HasFields, Fields, Stretched
  <1>2. /\ d.id = c.id /\ d.in_time = c.in_time /\ d.out_time = c.in_time + len
        /\ d.source_in = c.source_in /\ d.source_out = c.source_out
        /\ d.speed = (c.speed * Length(c)) \div len
    BY DEF Fine, IsClip, HasFields, Fields, Stretched
  <1> HIDE DEF d
  <1>3. c.speed * Length(c) \in Int
    BY DEF Fine, IsClip, Length
  <1>4. (c.speed * Length(c)) \div len \in Int
    BY <1>3
  <1>5. Heir(c, d, kind)
    BY <1>1, <1>2, <1>4 DEF Heir, Fine, IsClip
  <1> QED
    BY <1>5 DEF d

LEMMA MovedToIsHeir ==
  ASSUME NEW kind, NEW c, Fine(c, kind), NEW k, NEW from \in Int
  PROVE  Heir(c, MovedTo(c, k, from), kind)
  <1> DEFINE d == MovedTo(c, k, from)
  <1>1. HasFields(d)
    BY DEF Fine, IsClip, HasFields, Fields, MovedTo
  <1>2. /\ d.id = c.id /\ d.in_time = from /\ d.out_time = from + Length(c)
        /\ d.source_in = c.source_in /\ d.source_out = c.source_out /\ d.speed = c.speed
    BY DEF Fine, IsClip, HasFields, Fields, MovedTo
  <1> HIDE DEF d
  <1>3. Heir(c, d, kind)
    BY <1>1, <1>2 DEF Heir, Fine, IsClip, Length
  <1> QED
    BY <1>3 DEF d

LEMMA DuplicateIsFine ==
  ASSUME NEW kind, NEW c, Fine(c, kind)
  PROVE  Fine(Duplicate(c), kind) /\ Duplicate(c).id = next_clip_id
  <1> DEFINE m == Moved(c, Length(c))
             r == Duplicate(c)
  <1>1. Fine(m, kind)
    <2>1. Length(c) \in Int
      BY DEF Fine, IsClip, Length
    <2> QED
      BY <2>1, MovedIsHeir DEF Heir
  <1>2. r = [m EXCEPT !.id = next_clip_id]
    BY DEF Duplicate
  <1> HIDE DEF m, r
  <1>3. /\ HasFields(r) /\ r.in_time = m.in_time /\ r.out_time = m.out_time
        /\ r.id = next_clip_id /\ r.source_in = m.source_in /\ r.source_out = m.source_out
        /\ r.speed = m.speed
    BY <1>1, <1>2 DEF Fine, IsClip, HasFields, Fields
  <1>4. Fine(r, kind) /\ r.id = next_clip_id
    BY <1>1, <1>3 DEF Fine, IsClip
  <1> QED
    BY <1>4 DEF r

LEMMA HalvesAreFine ==
  ASSUME NEW kind, NEW c, Fine(c, kind), NEW t \in Int, CanSplit(c, t)
  PROVE  /\ Heir(c, LeftHalf(c, t), kind)
         /\ Fine(RightHalf(c, t), kind) /\ RightHalf(c, t).id = next_clip_id
  <1> DEFINE l == LeftHalf(c, t)
             r == RightHalf(c, t)
  <1>1. SourceAt(c, t) \in Int
    <2>1. c.in_time < c.out_time
      BY DEF CanSplit, Fine, IsClip
    <2> QED
      BY <2>1, LastingIsForward, SourceAtIsInt
  <1>2. HasFields(l) /\ HasFields(r)
    BY DEF Fine, IsClip, HasFields, Fields, LeftHalf, RightHalf
  <1>3. /\ l.id = c.id /\ l.in_time = c.in_time /\ l.out_time = t
        /\ l.source_in = c.source_in /\ l.source_out = SourceAt(c, t) /\ l.speed = c.speed
        /\ r.id = next_clip_id /\ r.in_time = t /\ r.out_time = c.out_time
        /\ r.source_in = SourceAt(c, t) /\ r.source_out = c.source_out /\ r.speed = c.speed
    BY DEF Fine, IsClip, HasFields, Fields, LeftHalf, RightHalf
  <1> HIDE DEF l, r
  <1>4. Heir(c, l, kind) /\ Fine(r, kind) /\ r.id = next_clip_id
    BY <1>1, <1>2, <1>3 DEF Heir, Fine, IsClip, CanSplit
  <1> QED
    BY <1>4 DEF l, r

LEMMA Products ==
  ASSUME NEW a \in Nat, NEW b \in Nat, NEW c \in Nat, NEW d \in Nat, a <= b, c <= d
  PROVE  a * c <= b * d
  <1>1. a * c <= b * c
    OBVIOUS
  <1>2. b * c <= b * d
    OBVIOUS
  <1>3. a * c \in Nat /\ b * c \in Nat /\ b * d \in Nat
    OBVIOUS
  <1> QED
    BY <1>1, <1>2, <1>3

LEMMA ExactQuotient ==
  ASSUME NEW a \in Int, NEW n \in Nat \ {0}, a % n = 0
  PROVE  a = n * (a \div n) /\ a \div n \in Int
  OBVIOUS

\* A roll that is accepted takes no more than the next clip has.
LEMMA RollStaysInside ==
  ASSUME NEW c, Forward(c), NEW n, Forward(n), NEW delta \in Int, CanRoll(c, n, delta)
  PROVE  0 <= delta /\ delta < Length(n)
  <1> DEFINE L == Length(n)
             S == SourceLength(n)
             q == (delta * S) \div L
  <1>1. L \in Nat \ {0} /\ S \in Int
    BY ForwardLength
  <1>2. delta * S \in Int /\ (delta * S) % L = 0
    BY <1>1 DEF CanRoll
  <1>3. delta * S = L * q /\ q \in Int
    BY <1>1, <1>2, ExactQuotient
  <1>4. n.source_in + q < n.source_out /\ n.source_in + q >= n.source_in
    BY DEF CanRoll
  <1>5. q >= 0 /\ q < S
    BY <1>3, <1>4 DEF Forward, Fine, SourceLength
  <1> HIDE DEF L, S, q
  <1>6. L * q >= 0 /\ L * q < L * S /\ L * q \in Int /\ L * S \in Int
    BY <1>1, <1>3, <1>5
  <1>7. delta >= 0
    <2>1. CASE delta < 0
      <3>1. S \in Nat \ {0} /\ -delta \in Nat \ {0}
        BY <1>1, <1>3, <1>5, <2>1
      <3>2. (-delta) * S >= 1 * 1
        BY <3>1, Products
      <3>3. delta * S < 0
        BY <3>1, <3>2
      <3> QED
        BY <1>3, <1>6, <3>3
    <2> QED
      BY <2>1
  <1>8. delta < L
    <2>1. CASE delta >= L
      <3>1. S \in Nat /\ L \in Nat /\ delta \in Nat
        BY <1>1, <1>3, <1>5, <1>7
      <3>2. L * S <= delta * S /\ delta * S \in Int
        BY <2>1, <3>1, Products
      <3> QED
        BY <1>3, <1>6, <3>2
    <2> QED
      BY <1>1, <2>1
  <1> QED
    BY <1>7, <1>8 DEF L

LEMMA RolledAreHeirs ==
  ASSUME NEW kind, NEW c, Fine(c, kind), NEW n, Fine(n, kind), NEW delta \in Int,
         CanRoll(c, n, delta),
         n.in_time >= c.out_time
  PROVE  Heir(c, Rolled(c, delta), kind) /\ Heir(n, RolledNext(c, n, delta), kind)
  <1> DEFINE d == Rolled(c, delta)
             e == RolledNext(c, n, delta)
             s == SourceAt(c, c.out_time + delta)
             u == n.source_in + (delta * SourceLength(n)) \div Length(n)
  <1>1. HasFields(d) /\ HasFields(e)
    BY DEF Fine, IsClip, HasFields, Fields, Rolled, RolledNext
  <1>2. /\ d.id = c.id /\ d.in_time = c.in_time /\ d.out_time = c.out_time + delta
        /\ d.source_in = c.source_in /\ d.source_out = s /\ d.speed = c.speed
    BY DEF Fine, IsClip, HasFields, Fields, Rolled
  <1>3. /\ e.id = n.id /\ e.in_time = c.out_time + delta /\ e.out_time = n.out_time
        /\ e.source_in = u /\ e.source_out = n.source_out /\ e.speed = n.speed
    BY DEF Fine, IsClip, HasFields, Fields, RolledNext
  <1>0. Forward(c) /\ Forward(n)
    BY LastingIsForward DEF CanRoll
  <1>4. s \in Int
    BY <1>0, SourceAtIsInt DEF Fine, IsClip
  <1>5. u \in Int
    <2>1. Length(n) \in Nat \ {0} /\ SourceLength(n) \in Int
      BY <1>0, ForwardLength
    <2>2. delta * SourceLength(n) \in Int
      BY <2>1
    <2>3. (delta * SourceLength(n)) \div Length(n) \in Int
      BY <2>1, <2>2
    <2> QED
      BY <2>3 DEF Fine
  <1> HIDE DEF d, e, s, u
  <1>6. 0 <= delta /\ delta < Length(n)
    BY <1>0, RollStaysInside
  <1>7. Heir(c, d, kind)
    <2>1. d.in_time < d.out_time
      BY <1>0, <1>2, <1>6 DEF Forward, Fine, IsClip
    <2> QED
      BY <1>1, <1>2, <1>4, <2>1 DEF Heir, Fine, IsClip
  <1>8. Heir(n, e, kind)
    <2>1. e.in_time < e.out_time
      BY <1>0, <1>3, <1>6 DEF Forward, Fine, IsClip, Length
    <2> QED
      BY <1>1, <1>3, <1>5, <2>1 DEF Heir, Fine, IsClip, Length
  <1> QED
    BY <1>7, <1>8 DEF d, e

LEMMA PushedIsHeir ==
  ASSUME NEW kind, NEW c, Fine(c, kind), NEW at, NEW len \in Int
  PROVE  Heir(c, Pushed(c, at, len), kind)
  BY MovedIsHeir DEF Pushed, Heir

LEMMA RippledIsHeir ==
  ASSUME NEW kind, NEW c, Fine(c, kind), NEW from \in Int, NEW to \in Int
  PROVE  /\ Heir(c, Rippled(c, from, to), kind)
         /\ Heir(c, [Rippled(c, from, to) EXCEPT !.has_media = FALSE], kind)
  <1> DEFINE d == Rippled(c, from, to)
             e == [d EXCEPT !.has_media = FALSE]
  <1>1. -(to - from) \in Int
    OBVIOUS
  <1>2. Heir(c, d, kind)
    BY <1>1, MovedIsHeir DEF Rippled, Heir
  <1> HIDE DEF d
  <1>3. HasFields(e)
    BY <1>2 DEF Heir, Fine, IsClip, HasFields, Fields
  <1>4. /\ e.id = d.id /\ e.in_time = d.in_time /\ e.out_time = d.out_time
        /\ e.source_in = d.source_in /\ e.source_out = d.source_out /\ e.speed = d.speed
    BY <1>2 DEF Heir, Fine, IsClip, HasFields, Fields
  <1> HIDE DEF e
  <1>5. Heir(c, e, kind)
    BY <1>2, <1>3, <1>4 DEF Heir, Fine, IsClip
  <1> QED
    BY <1>2, <1>5 DEF d, e

\* Clips with ids of I: of a set, and of some tracks.
Known(S, I, kind) == \A c \in S : Fine(c, kind) /\ c.id \in I
Owned(T, I, kind) == \A k \in DOMAIN T : Known(T[k], I, kind)
\* If there is a track k, S may be put there.
Fills(S, k, T, I, kind) == k \in DOMAIN T => Known(S, I, kind)

\* An edit of one track.
LEMMA OwnedExcept ==
  ASSUME NEW kind, NEW T, NEW I, Owned(T, I, kind), NEW k, NEW S, Fills(S, k, T, I, kind)
  PROVE  Owned([T EXCEPT ![k] = S], I, kind)
  BY DEF Owned, Fills

LEMMA OwnedWider ==
  ASSUME NEW kind, NEW T, NEW I, Owned(T, I, kind), NEW J, I \subseteq J
  PROVE  Owned(T, J, kind)
  BY DEF Owned, Known

\* Some numbers have a least one.
LEMMA LeastOf ==
  ASSUME NEW K \in SUBSET Nat, K # {}
  PROVE  \E m \in K : \A k \in K : m <= k
  <1>1. PICK m \in K : \A k \in K : <<k, m>> \notin OpToRel(<, Nat)
    BY WFMin, NatLessThanWellFounded, Zenon
  <1>2. \A k \in K : ~ (k < m)
    BY <1>1, Zenon DEF OpToRel
  <1> QED
    BY <1>2

\* The first of some tracks.
LEMMA FirstOf ==
  ASSUME NEW K \in SUBSET Nat, K # {}
  PROVE  Min(K) \in K
  BY LeastOf DEF Min

\* A clip that is found is one of a track's.
LEMMA FoundSomewhere ==
  ASSUME Shape, NEW id, NEW c \in find_clip(id)
  PROVE  \E k \in DOMAIN tracks : c \in tracks[k]
  <1> DEFINE holding == {k \in DOMAIN tracks : \E x \in tracks[k] : x.id = id}
  <1>1. holding # {} /\ c \in tracks[Min(holding)]
    BY DEF find_clip
  <1>2. holding \in SUBSET Nat
    BY DEF Shape
  <1>3. Min(holding) \in holding
    <2> HIDE DEF holding
    <2> QED
      BY <1>1, <1>2, FirstOf
  <1> QED
    BY <1>1, <1>3

\* So it is a clip with a known id.
LEMMA FoundIsKnown ==
  ASSUME NEW kind, Shape, NEW I, Owned(tracks, I, kind), NEW id, NEW c \in find_clip(id)
  PROVE  Fine(c, kind) /\ c.id \in I
  BY FoundSomewhere DEF Owned, Known

\* A clip becomes one alike.
LEMMA OwnedBecomes ==
  ASSUME NEW kind, Shape, NEW I, Owned(tracks, I, kind), NEW id, NEW c \in find_clip(id), NEW d,
         Heir(c, d, kind)
  PROVE  Owned(Becomes(c, d), I, kind)
  <1> DEFINE k == HomeOf(c)
             S == (tracks[k] \ {c}) \cup {d}
  <1>1. Fine(d, kind) /\ d.id \in I
    BY FoundIsKnown DEF Heir
  <1>2. Fills(S, k, tracks, I, kind)
    BY <1>1 DEF Fills, Owned, Known
  <1>3. Becomes(c, d) = [tracks EXCEPT ![k] = S]
    BY DEF Becomes
  <1> HIDE DEF k, S
  <1>4. Owned([tracks EXCEPT ![k] = S], I, kind)
    BY <1>2, OwnedExcept
  <1> QED
    BY <1>3, <1>4

-----------------------------------------------------------------------------
(* What each edit leaves: clips with the ids there were, and one new id at  *)
(* most.                                                                    *)

\* Clips of a set and one more.
LEMMA KnownMore ==
  ASSUME NEW kind, NEW S, NEW I, Known(S, I, kind), NEW x, NEW i, Fine(x, kind), x.id = i
  PROVE  Known(S \cup {x}, I \cup {i}, kind)
  BY DEF Known

LEMMA AddClipOwns ==
  ASSUME NEW kind, NEW I, Owned(tracks, I, kind), NEW k,
         NEW d \in Descriptors, add_clip(k, d), kind = "lasting" => Length(d) > 0
  PROVE  Owned(tracks', I \cup {next_clip_id}, kind)
  <1> DEFINE new == NewClip(k, d)
             S == tracks[k] \cup {new}
             J == I \cup {next_clip_id}
  <1>1. Fine(new, kind) /\ new.id = next_clip_id
    BY DescribedIsFine
  <1>2. k \in DOMAIN tracks /\ tracks' = [tracks EXCEPT ![k] = S]
    BY DEF add_clip
  <1> HIDE DEF new
  <1>3. Fills(S, k, tracks, J, kind)
    BY <1>1, <1>2, KnownMore DEF Owned, Fills
  <1> HIDE DEF S, J
  <1>4. Owned(tracks, J, kind)
    BY OwnedWider DEF J
  <1> QED
    BY <1>2, <1>3, <1>4, OwnedExcept DEF J

LEMMA RemoveClipOwns ==
  ASSUME NEW kind, NEW I, Owned(tracks, I, kind), NEW id, remove_clip(id)
  PROVE  Owned(tracks', I, kind)
  <1>1. PICK c \in find_clip(id) : tracks' = [tracks EXCEPT ![HomeOf(c)] = @ \ {c}]
    BY DEF remove_clip
  <1> DEFINE k == HomeOf(c)
             S == tracks[k] \ {c}
  <1>2. Fills(S, k, tracks, I, kind)
    BY DEF Fills, Owned, Known
  <1>3. tracks' = [tracks EXCEPT ![k] = S]
    BY <1>1
  <1> HIDE DEF k, S
  <1> QED
    BY <1>2, <1>3, OwnedExcept

LEMMA TrimOwns ==
  ASSUME NEW kind, Shape, NEW I, Owned(tracks, I, kind), NEW id,
         NEW d \in Descriptors, trim_clip(id, d), kind = "lasting" => Length(d) > 0
  PROVE  Owned(tracks', I, kind)
  <1>1. PICK c \in find_clip(id) : tracks' = Becomes(c, Trimmed(c, d))
    BY DEF trim_clip
  <1>2. Fine(c, kind)
    BY FoundIsKnown
  <1> QED
    BY <1>1, <1>2, TrimmedIsHeir, OwnedBecomes

LEMMA SlipOwns ==
  ASSUME NEW kind, Shape, NEW I, Owned(tracks, I, kind), NEW id, NEW delta \in Int, slip_edit(id, delta)
  PROVE  Owned(tracks', I, kind)
  <1>1. PICK c \in find_clip(id) : tracks' = Becomes(c, Slipped(c, delta))
    BY DEF slip_edit, Slipped
  <1>2. Fine(c, kind)
    BY FoundIsKnown
  <1> QED
    BY <1>1, <1>2, SlippedIsHeir, OwnedBecomes

LEMMA StretchOwns ==
  ASSUME NEW kind, Shape, NEW I, Owned(tracks, I, kind), NEW id, NEW len \in Nat \ {0}, rate_stretch(id, len)
  PROVE  Owned(tracks', I, kind)
  <1>1. PICK c \in find_clip(id) : tracks' = Becomes(c, Stretched(c, len))
    BY DEF rate_stretch, Stretched
  <1>2. Fine(c, kind)
    BY FoundIsKnown
  <1> QED
    BY <1>1, <1>2, StretchedIsHeir, OwnedBecomes

LEMMA MoveOwns ==
  ASSUME NEW kind, Shape, NEW I, Owned(tracks, I, kind), NEW id, NEW k, NEW from \in Int, move_clip(id, k, from)
  PROVE  Owned(tracks', I, kind)
  <1>1. PICK c \in find_clip(id) :
          \/ UsesBadIndex(c)
          \/ tracks' = [[tracks EXCEPT ![c.track_index] = {x \in @ : x.id # id}]
                          EXCEPT ![k] = @ \cup {MovedTo(c, k, from)}]
    BY DEF move_clip, MovedTo
  <1>2. Fine(c, kind) /\ c.id \in I
    BY FoundIsKnown
  <1>3. CASE UsesBadIndex(c)
    BY <1>3 DEF UsesBadIndex
  <1>4. CASE ~ UsesBadIndex(c)
    <2> DEFINE d == MovedTo(c, k, from)
               j == c.track_index
               left == {x \in tracks[j] : x.id # id}
               erased == [tracks EXCEPT ![j] = left]
               S == erased[k] \cup {d}
    <2>1. Fine(d, kind) /\ d.id = c.id
      BY <1>2, MovedToIsHeir DEF Heir
    <2>2. Fills(left, j, tracks, I, kind)
      BY DEF Fills, Owned, Known
    <2>3. tracks' = [erased EXCEPT ![k] = S]
      BY <1>1, <1>4
    <2> HIDE DEF d, left, j
    <2>4. Owned(erased, I, kind)
      BY <2>2, OwnedExcept
    <2> HIDE DEF erased
    <2>5. Fills(S, k, erased, I, kind)
      BY <1>2, <2>1, <2>4 DEF Fills, Owned, Known
    <2> HIDE DEF S
    <2> QED
      BY <2>3, <2>4, <2>5, OwnedExcept
  <1> QED
    BY <1>3, <1>4

LEMMA DuplicateOwns ==
  ASSUME NEW kind, Shape, NEW I, Owned(tracks, I, kind), NEW id, duplicate_clip(id)
  PROVE  Owned(tracks', I \cup {next_clip_id}, kind)
  <1> DEFINE J == I \cup {next_clip_id}
  <1>1. PICK c \in find_clip(id) :
          \/ UsesBadIndex(c)
          \/ /\ c.track_index \in DOMAIN tracks
             /\ tracks' = [tracks EXCEPT ![c.track_index] = @ \cup {Duplicate(c)}]
    BY DEF duplicate_clip, Duplicate
  <1>2. Fine(c, kind)
    BY FoundIsKnown
  <1>3. Owned(tracks, J, kind)
    BY OwnedWider
  <1>4. CASE UsesBadIndex(c)
    BY <1>3, <1>4 DEF UsesBadIndex
  <1>5. CASE ~ UsesBadIndex(c)
    <2> DEFINE k == c.track_index
               d == Duplicate(c)
               S == tracks[k] \cup {d}
    <2>1. Fine(d, kind) /\ d.id = next_clip_id
      BY <1>2, DuplicateIsFine
    <2>2. k \in DOMAIN tracks /\ tracks' = [tracks EXCEPT ![k] = S]
      BY <1>1, <1>5
    <2> HIDE DEF d
    <2>3. Fills(S, k, tracks, J, kind)
      BY <2>1, <2>2, KnownMore DEF Owned, Fills
    <2> HIDE DEF S, J, k
    <2>4. Owned([tracks EXCEPT ![k] = S], J, kind)
      BY <1>3, <2>3, OwnedExcept
    <2> HIDE DEF S, J, k
    <2>5. Owned(tracks', J, kind)
      BY <2>2, <2>4
    <2> QED
      BY <2>5 DEF J
  <1> QED
    BY <1>4, <1>5

\* The clips of a track, each as one alike.
LEMMA KnownImage ==
  ASSUME NEW kind, NEW S, NEW I, Known(S, I, kind), NEW f, DOMAIN f = S, NEW R, R \subseteq S,
         \A y \in S : Fine(y, kind) => Heir(y, f[y], kind)
  PROVE  Known({f[y] : y \in R}, I, kind)
  BY DEF Known, Heir

LEMMA SplitOwns ==
  ASSUME NEW kind, Shape, NEW I, Owned(tracks, I, kind), NEW id, NEW t \in Int, split_clip(id, t)
  PROVE  Owned(tracks', I \cup {next_clip_id}, kind)
  <1> DEFINE J == I \cup {next_clip_id}
  <1>1. PICK c \in find_clip(id) :
          /\ CanSplit(c, t)
          /\ \/ UsesBadIndex(c)
             \/ tracks' = [Becomes(c, LeftHalf(c, t))
                             EXCEPT ![c.track_index] = @ \cup {RightHalf(c, t)}]
    BY DEF split_clip
  <1>2. Fine(c, kind) /\ c.id \in I
    BY FoundIsKnown
  <1>3. CASE UsesBadIndex(c)
    BY <1>3, OwnedWider DEF UsesBadIndex
  <1>4. CASE ~ UsesBadIndex(c)
    <2> DEFINE k == c.track_index
               l == LeftHalf(c, t)
               r == RightHalf(c, t)
               T == Becomes(c, l)
               S == T[k] \cup {r}
    <2>1. Heir(c, l, kind) /\ Fine(r, kind) /\ r.id = next_clip_id
      BY <1>1, <1>2, HalvesAreFine
    <2>2. tracks' = [T EXCEPT ![k] = S]
      BY <1>1, <1>4
    <2> HIDE DEF l, r
    <2>3. Owned(T, I, kind)
      BY <2>1, OwnedBecomes
    <2> HIDE DEF T, k
    <2>4. Fills(S, k, T, J, kind)
      BY <2>1, <2>3 DEF Fills, Owned, Known
    <2> HIDE DEF S
    <2>5. Owned(T, J, kind)
      BY <2>3, OwnedWider
    <2> HIDE DEF J
    <2>6. Owned(tracks', J, kind)
      BY <2>2, <2>4, <2>5, OwnedExcept
    <2> QED
      BY <2>6 DEF J
  <1> QED
    BY <1>3, <1>4

LEMMA InsertOwns ==
  ASSUME NEW kind, NEW I, Owned(tracks, I, kind), NEW k, NEW at \in Int,
         NEW d \in Descriptors, insert_edit(k, at, d)
  PROVE  Owned(tracks', I \cup {next_clip_id}, kind)
  <1> DEFINE new == NewClip(k, At(d, at))
             f == [y \in tracks[k] |-> Pushed(y, at, Length(d))]
             R == tracks[k]
             pushed == {f[y] : y \in R}
             S == pushed \cup {new}
             J == I \cup {next_clip_id}
  <1>1. Fine(new, kind) /\ new.id = next_clip_id
    BY PlacedIsFine DEF insert_edit
  <1>2. k \in DOMAIN tracks /\ tracks' = [tracks EXCEPT ![k] = S]
    BY DEF insert_edit
  <1>3. \A y \in tracks[k] : Fine(y, kind) => Heir(y, f[y], kind)
    BY DescriptorFields, PushedIsHeir
  <1>4. DOMAIN f = tracks[k] /\ R \subseteq tracks[k]
    OBVIOUS
  <1>5. Known(tracks[k], I, kind)
    BY <1>2 DEF Owned
  <1> HIDE DEF new, f, R
  <1>6. Known(pushed, I, kind)
    BY <1>3, <1>4, <1>5, KnownImage
  <1> HIDE DEF pushed
  <1>7. Fills(S, k, tracks, J, kind)
    BY <1>1, <1>6, KnownMore DEF Fills
  <1> HIDE DEF S, J
  <1>8. Owned(tracks, J, kind)
    BY OwnedWider DEF J
  <1>9. Owned(tracks', J, kind)
    BY <1>2, <1>7, <1>8, OwnedExcept
  <1> QED
    BY <1>9 DEF J

LEMMA OverwriteOwns ==
  ASSUME NEW kind, NEW I, Owned(tracks, I, kind), NEW k, NEW at \in Int,
         NEW d \in Descriptors, overwrite_edit(k, at, d)
  PROVE  Owned(tracks', I \cup {next_clip_id}, kind)
  <1> DEFINE new == NewClip(k, At(d, at))
             kept == {c \in tracks[k] : Survives(c, at, at + Length(d))}
             S == kept \cup {new}
             J == I \cup {next_clip_id}
  <1>1. Fine(new, kind) /\ new.id = next_clip_id
    BY PlacedIsFine DEF overwrite_edit
  <1>2. k \in DOMAIN tracks /\ tracks' = [tracks EXCEPT ![k] = S]
    BY DEF overwrite_edit
  <1>3. Known(kept, I, kind)
    BY <1>2 DEF Owned, Known
  <1> HIDE DEF new, kept
  <1>4. Fills(S, k, tracks, J, kind)
    BY <1>1, <1>3, KnownMore DEF Fills
  <1> HIDE DEF S, J
  <1>5. Owned(tracks, J, kind)
    BY OwnedWider DEF J
  <1>6. Owned(tracks', J, kind)
    BY <1>2, <1>4, <1>5, OwnedExcept
  <1> QED
    BY <1>6 DEF J

LEMMA RippleOwns ==
  ASSUME NEW kind, NEW I, Owned(tracks, I, kind), NEW k, NEW from \in Int, NEW to \in Int,
         ripple_delete(k, from, to) \/ ripple_delete_Refused(k, from, to)
  PROVE  Owned(tracks', I, kind)
  <1> DEFINE f == [y \in tracks[k] |-> Rippled(y, from, to)]
             g == [y \in tracks[k] |-> [Rippled(y, from, to) EXCEPT !.has_media = FALSE]]
             R == {y \in tracks[k] : Survives(y, from, to)}
             S == {f[y] : y \in R}
             Q == tracks[k]
             U == {g[y] : y \in Q}
  <1>1. k \in DOMAIN tracks /\ Known(tracks[k], I, kind)
    BY DEF ripple_delete, ripple_delete_Refused, Owned
  <1>2. \A y \in tracks[k] : Fine(y, kind) => Heir(y, f[y], kind)
    BY RippledIsHeir
  <1>3. \A y \in tracks[k] : Fine(y, kind) => Heir(y, g[y], kind)
    BY RippledIsHeir
  <1>4. /\ DOMAIN f = tracks[k] /\ DOMAIN g = tracks[k]
        /\ R \subseteq tracks[k] /\ Q \subseteq tracks[k]
    OBVIOUS
  <1>5. tracks' = [tracks EXCEPT ![k] = S] \/ tracks' = [tracks EXCEPT ![k] = U]
    BY DEF ripple_delete, ripple_delete_Refused
  <1> HIDE DEF f, g, R, Q
  <1>6. Known(S, I, kind)
    BY <1>1, <1>2, <1>4, KnownImage
  <1>7. Known(U, I, kind)
    BY <1>1, <1>3, <1>4, KnownImage
  <1>8. Fills(S, k, tracks, I, kind) /\ Fills(U, k, tracks, I, kind)
    BY <1>6, <1>7 DEF Fills
  <1> HIDE DEF S, U
  <1>9. Owned([tracks EXCEPT ![k] = S], I, kind) /\ Owned([tracks EXCEPT ![k] = U], I, kind)
    BY <1>8, OwnedExcept
  <1> QED
    BY <1>5, <1>9

LEMMA RollOwns ==
  ASSUME NEW kind, Shape, NEW I, Owned(tracks, I, kind), NEW id, NEW delta \in Int, roll_edit(id, delta)
  PROVE  Owned(tracks', I, kind)
  <1>1. PICK c \in find_clip(id) :
          \/ UsesBadIndex(c)
          \/ /\ c.track_index \in DOMAIN tracks
             /\ \E n \in NextClips(tracks[c.track_index], c) :
                  /\ CanRoll(c, n, delta)
                  /\ tracks' = [Becomes(c, Rolled(c, delta)) EXCEPT ![c.track_index] =
                                  (@ \ {n}) \cup {RolledNext(c, n, delta)}]
    BY DEF roll_edit
  <1>2. Fine(c, kind) /\ c.id \in I
    BY FoundIsKnown
  <1>3. CASE UsesBadIndex(c)
    BY <1>3 DEF UsesBadIndex
  <1>4. CASE ~ UsesBadIndex(c)
    <2> DEFINE k == c.track_index
               d == Rolled(c, delta)
               T == Becomes(c, d)
    <2>1. k \in DOMAIN tracks
      BY <1>1, <1>4
    <2>2. PICK n \in NextClips(tracks[k], c) :
            /\ CanRoll(c, n, delta)
            /\ tracks' = [T EXCEPT ![k] = (@ \ {n}) \cup {RolledNext(c, n, delta)}]
      BY <1>1, <1>4
    <2> DEFINE e == RolledNext(c, n, delta)
               S == (T[k] \ {n}) \cup {e}
    <2>3. Fine(n, kind) /\ n.id \in I /\ n.in_time >= c.out_time
      BY <2>1 DEF NextClips, Owned, Known
    <2>4. Heir(c, d, kind) /\ Heir(n, e, kind)
      BY <1>2, <2>2, <2>3, RolledAreHeirs
    <2>5. tracks' = [T EXCEPT ![k] = S]
      BY <2>2
    <2> HIDE DEF d, e
    <2>6. Owned(T, I, kind)
      BY <2>4, OwnedBecomes
    <2> HIDE DEF T, k
    <2>7. Fills(S, k, T, I, kind)
      BY <2>3, <2>4, <2>6 DEF Fills, Owned, Known, Heir
    <2> HIDE DEF S
    <2> QED
      BY <2>5, <2>6, <2>7, OwnedExcept
  <1> QED
    BY <1>3, <1>4

\* The neighbours of a clip that slides reach up to it, and no further.
LEMMA ReachingIsHeir ==
  ASSUME NEW kind, NEW c, Fine(c, kind), NEW delta \in Int, CanSlide(c, delta),
         NEW previous, previous \subseteq PreviousClips(Others(c), c),
         NEW next, next \subseteq NextClips(Others(c), c),
         NEW x, Fine(x, kind)
  PROVE  Heir(x, Reaching(x, previous, next, Moved(c, delta)), kind)
  <1> DEFINE d == Moved(c, delta)
             y == Reaching(x, previous, next, d)
  <1>1. d.in_time = c.in_time + delta /\ d.out_time = c.out_time + delta
    BY DEF Fine, IsClip, HasFields, Fields, Moved
  <1> HIDE DEF d
  <1>2. HasFields(y)
    BY DEF Fine, IsClip, HasFields, Fields, Reaching
  <1>3. /\ y.id = x.id /\ y.source_in = x.source_in /\ y.source_out = x.source_out
        /\ y.speed = x.speed
        /\ y.in_time = (IF x \in next THEN d.out_time ELSE x.in_time)
        /\ y.out_time = (IF x \in previous THEN d.in_time ELSE x.out_time)
    BY DEF Fine, IsClip, HasFields, Fields, Reaching
  <1> HIDE DEF y
  <1>4. x \in previous => x.out_time <= c.in_time /\ x.out_time <= c.in_time + delta
    BY DEF PreviousClips, CanSlide
  <1>5. x \in next => x.in_time >= c.out_time /\ c.out_time + delta <= x.in_time
    BY DEF NextClips, CanSlide
  <1>6. y.in_time \in Int /\ y.out_time \in Int /\ (kind = "lasting" => y.in_time < y.out_time)
    BY <1>1, <1>3, <1>4, <1>5 DEF Fine, IsClip
  <1>7. Heir(x, y, kind)
    BY <1>2, <1>3, <1>6 DEF Heir, Fine, IsClip
  <1> QED
    BY <1>7 DEF y, d

LEMMA SlideOwns ==
  ASSUME NEW kind, Shape, NEW I, Owned(tracks, I, kind), NEW id, NEW delta \in Int, slide_edit(id, delta)
  PROVE  Owned(tracks', I, kind)
  <1>1. PICK c \in find_clip(id) :
          \/ UsesBadIndex(c)
          \/ /\ CanSlide(c, delta)
             /\ \E previous \in OneOf(PreviousClips(Others(c), c)),
                   next \in OneOf(NextClips(Others(c), c)) :
                  tracks' = [Becomes(c, Moved(c, delta)) EXCEPT ![c.track_index] =
                               {Reaching(x, previous, next, Moved(c, delta)) : x \in @}]
    BY DEF slide_edit
  <1>2. Fine(c, kind) /\ c.id \in I
    BY FoundIsKnown
  <1>3. CASE UsesBadIndex(c)
    BY <1>3 DEF UsesBadIndex
  <1>4. CASE ~ UsesBadIndex(c)
    <2> DEFINE k == c.track_index
               d == Moved(c, delta)
               T == Becomes(c, d)
    <2>0. /\ OneOf(PreviousClips(Others(c), c)) \subseteq SUBSET PreviousClips(Others(c), c)
          /\ OneOf(NextClips(Others(c), c)) \subseteq SUBSET NextClips(Others(c), c)
      BY DEF OneOf
    <2>1. PICK previous \in SUBSET PreviousClips(Others(c), c),
               next \in SUBSET NextClips(Others(c), c) :
            tracks' = [T EXCEPT ![k] = {Reaching(x, previous, next, d) : x \in @}]
      BY <1>1, <1>4, <2>0
    <2> DEFINE f == [x \in T[k] |-> Reaching(x, previous, next, d)]
               R == T[k]
               S == {f[x] : x \in R}
    <2>2. Heir(c, d, kind)
      BY <1>2, MovedIsHeir
    <2>3. \A x \in T[k] : Fine(x, kind) => Heir(x, f[x], kind)
      BY <1>1, <1>2, <1>4, ReachingIsHeir
    <2> HIDE DEF d
    <2>4. DOMAIN f = T[k] /\ R \subseteq T[k] /\ tracks' = [T EXCEPT ![k] = S]
      BY <2>1
    <2>5. Owned(T, I, kind)
      BY <2>2, OwnedBecomes
    <2> HIDE DEF T, k, f, R
    <2>6. ASSUME k \in DOMAIN T PROVE Known(S, I, kind)
      <3>1. Known(T[k], I, kind)
        BY <2>5, <2>6 DEF Owned
      <3> QED
        BY <2>3, <2>4, <3>1, KnownImage
    <2>7. Fills(S, k, T, I, kind)
      BY <2>6 DEF Fills
    <2> HIDE DEF S
    <2> QED
      BY <2>4, <2>5, <2>7, OwnedExcept
  <1> QED
    BY <1>3, <1>4

LEMMA TracksOwn ==
  ASSUME NEW kind, Shape, NEW I, Owned(tracks, I, kind),
         \/ add_track
         \/ \E k \in DOMAIN tracks : remove_track(k)
         \/ \E order \in Orders : reorder_tracks(order)
  PROVE  Owned(tracks', I, kind)
  <1>1. TrackCount \in Nat /\ DOMAIN tracks = 0 .. TrackCount - 1
    BY CountTracks
  <1>2. CASE add_track
    BY <1>1, <1>2 DEF add_track, Owned, Known
  <1>3. CASE \E k \in DOMAIN tracks : remove_track(k)
    <2>1. PICK k \in DOMAIN tracks : remove_track(k)
      BY <1>3
    <2>2. \A l \in DOMAIN tracks' : \E m \in DOMAIN tracks : tracks'[l] = tracks[m]
      <3> SUFFICES ASSUME NEW l \in 0 .. TrackCount - 2
                   PROVE  \E m \in DOMAIN tracks : tracks'[l] = tracks[m]
        BY <2>1 DEF remove_track
      <3>1. tracks'[l] = IF l < k THEN tracks[l] ELSE tracks[l + 1]
        BY <2>1 DEF remove_track
      <3>2. l \in DOMAIN tracks /\ l + 1 \in DOMAIN tracks
        BY <1>1
      <3> QED
        BY <3>1, <3>2
    <2> QED
      BY <2>2 DEF Owned
  <1>4. CASE \E order \in Orders : reorder_tracks(order)
    <2> DEFINE at(c, k) == [c EXCEPT !.track_index = k]
    <2>1. PICK order \in Orders : reorder_tracks(order)
      BY <1>4
    <2>2. /\ DOMAIN tracks' = DOMAIN tracks
          /\ \A k \in DOMAIN tracks : tracks'[k] = {at(c, k) : c \in tracks[order[k]]}
          /\ \A k \in DOMAIN tracks : order[k] \in DOMAIN tracks
      BY <2>1 DEF reorder_tracks, Reordered, Orders
    <2>3. ASSUME NEW c, Fine(c, kind), NEW k PROVE Fine(at(c, k), kind) /\ at(c, k).id = c.id
      BY <2>3 DEF Fine, IsClip, HasFields, Fields
    <2> HIDE DEF at
    <2> QED
      BY <2>2, <2>3 DEF Owned, Known
  <1> QED
    BY <1>2, <1>3, <1>4

LEMMA TimesAreNats == Times \subseteq Nat /\ Lengths \subseteq Nat \ {0} /\ Deltas \subseteq Int
  BY TimelineAssumption DEF Times, Lengths, Deltas


\* A caller asks for a clip that lasts no time.
AsksForNothing ==
    \E d \in Descriptors :
        /\ Length(d) <= 0
        /\ \/ \E k \in DOMAIN tracks : add_clip(k, d)
           \/ \E id \in Ids : trim_clip(id, d)

\* No edit but these five takes an id, and no edit gives a clip one that is not
\* among the ids there were but the id it takes.
LEMMA EditOwns ==
  ASSUME NEW kind, Shape, NEW I, Owned(tracks, I, kind), Next,
         kind = "lasting" => ~ AsksForNothing
  PROVE  \/ next_clip_id' = next_clip_id /\ Owned(tracks', I, kind)
         \/ TakesId /\ Owned(tracks', I \cup {next_clip_id}, kind)
  <1>0. ASSUME NEW d \in Descriptors,
               \/ \E k \in DOMAIN tracks : add_clip(k, d)
               \/ \E id \in Ids : trim_clip(id, d)
        PROVE  kind = "lasting" => Length(d) > 0
    BY <1>0, DescriptorFields DEF AsksForNothing
  <1>1. CASE \E k \in DOMAIN tracks, d \in Descriptors : add_clip(k, d)
    <2>1. PICK k \in DOMAIN tracks, d \in Descriptors : add_clip(k, d)
      BY <1>1
    <2>2. TakesId /\ (kind = "lasting" => Length(d) > 0)
      BY <1>0, <2>1 DEF add_clip
    <2> QED
      BY <2>1, <2>2, AddClipOwns
  <1>2. CASE \E id \in Ids, d \in Descriptors : trim_clip(id, d)
    <2>1. PICK id \in Ids, d \in Descriptors : trim_clip(id, d)
      BY <1>2
    <2>2. next_clip_id' = next_clip_id /\ (kind = "lasting" => Length(d) > 0)
      BY <1>0, <2>1 DEF trim_clip
    <2> QED
      BY <2>1, <2>2, TrimOwns
  <1>3. CASE \E id \in Ids, k \in DOMAIN tracks, from \in Times : move_clip(id, k, from)
    <2>1. PICK id \in Ids, k \in DOMAIN tracks, from \in Times : move_clip(id, k, from)
      BY <1>3
    <2>2. from \in Int /\ next_clip_id' = next_clip_id
      BY <2>1, TimesAreInts DEF move_clip
    <2> QED
      BY <2>1, <2>2, MoveOwns
  <1>4. CASE \E id \in Ids, len \in Lengths : rate_stretch(id, len)
    <2>1. PICK id \in Ids, len \in Lengths : rate_stretch(id, len)
      BY <1>4
    <2>2. len \in Nat \ {0} /\ next_clip_id' = next_clip_id
      BY <2>1, TimesAreNats DEF rate_stretch
    <2> QED
      BY <2>1, <2>2, StretchOwns
  <1>5. CASE \E id \in Ids : duplicate_clip(id)
    BY <1>5, DuplicateOwns DEF duplicate_clip
  <1>6. CASE InsertEdit
    <2>1. PICK k \in DOMAIN tracks, at \in Times, d \in Descriptors : insert_edit(k, at, d)
      BY <1>6 DEF InsertEdit
    <2>2. at \in Int /\ TakesId
      BY <2>1, TimesAreNats DEF insert_edit
    <2> QED
      BY <2>1, <2>2, InsertOwns
  <1>7. CASE \/ add_track
             \/ \E k \in DOMAIN tracks : remove_track(k)
             \/ \E order \in Orders : reorder_tracks(order)
    <2>1. next_clip_id' = next_clip_id
      BY <1>7 DEF add_track, remove_track, reorder_tracks
    <2> QED
      BY <1>7, <2>1, TracksOwn
  <1>8. CASE \E id \in Ids : remove_clip(id)
    BY <1>8, RemoveClipOwns DEF remove_clip
  <1>9. CASE \E id \in Ids, t \in Times : split_clip(id, t)
    <2>1. PICK id \in Ids, t \in Times : split_clip(id, t)
      BY <1>9
    <2>2. t \in Int /\ TakesId
      BY <2>1, TimesAreNats DEF split_clip
    <2> QED
      BY <2>1, <2>2, SplitOwns
  <1>10. CASE \E k \in DOMAIN tracks, from, to \in Times :
                ripple_delete(k, from, to) \/ ripple_delete_Refused(k, from, to)
    <2>1. PICK k \in DOMAIN tracks, from, to \in Times : 
               ripple_delete(k, from, to) \/ ripple_delete_Refused(k, from, to)
      BY <1>10
    <2>2. from \in Int /\ to \in Int /\ next_clip_id' = next_clip_id
      BY <2>1, TimesAreNats DEF ripple_delete, ripple_delete_Refused
    <2> QED
      BY <2>1, <2>2, RippleOwns
  <1>11. CASE OverwriteEdit
    <2>1. PICK k \in DOMAIN tracks, at \in Times, d \in Descriptors : overwrite_edit(k, at, d)
      BY <1>11 DEF OverwriteEdit
    <2>2. at \in Int /\ TakesId
      BY <2>1, TimesAreNats DEF overwrite_edit
    <2> QED
      BY <2>1, <2>2, OverwriteOwns
  <1>12. CASE \E id \in Ids, delta \in Deltas : roll_edit(id, delta)
    <2>1. PICK id \in Ids, delta \in Deltas : roll_edit(id, delta)
      BY <1>12
    <2>2. delta \in Int /\ next_clip_id' = next_clip_id
      BY <2>1, TimesAreNats DEF roll_edit
    <2> QED
      BY <2>1, <2>2, RollOwns
  <1>13. CASE \E id \in Ids, delta \in Deltas : slip_edit(id, delta)
    <2>1. PICK id \in Ids, delta \in Deltas : slip_edit(id, delta)
      BY <1>13
    <2>2. delta \in Int /\ next_clip_id' = next_clip_id
      BY <2>1, TimesAreNats DEF slip_edit
    <2> QED
      BY <2>1, <2>2, SlipOwns
  <1>14. CASE \E id \in Ids, delta \in Deltas : slide_edit(id, delta)
    <2>1. PICK id \in Ids, delta \in Deltas : slide_edit(id, delta)
      BY <1>14
    <2>2. delta \in Int /\ next_clip_id' = next_clip_id
      BY <2>1, TimesAreNats DEF slide_edit
    <2> QED
      BY <2>1, <2>2, SlideOwns
  <1>15. Place \/ InsertEdit \/ Fit
    BY DEF Next
  <1> QED
    BY <1>1, <1>2, <1>3, <1>4, <1>5, <1>6, <1>7, <1>8, <1>9, <1>10, <1>11, <1>12, <1>13,
       <1>14, <1>15 DEF Place, Fit

-----------------------------------------------------------------------------
(* The invariant with it, in every state.                                   *)

FInv == TInv /\ next_clip_id \in Nat \ {0} /\ Owned(tracks, Ids, "any")

LEMMA FInvInit == Init => FInv
  <1> SUFFICES ASSUME Init PROVE FInv
    OBVIOUS
  <1>1. TInv
    BY InitInv
  <1> QED
    BY <1>1 DEF Init, FInv, Owned, Known

LEMMA FInvStep == FInv /\ [Next]_vars => FInv'
  <1> SUFFICES ASSUME FInv, [Next]_vars PROVE FInv'
    OBVIOUS
  <1>1. CASE Next
    <2>1. TInv'
      BY <1>1, PlaceInv, FitInv DEF Next, FInv
    <2>2. \/ next_clip_id' = next_clip_id /\ Owned(tracks', Ids, "any")
          \/ TakesId /\ Owned(tracks', Ids \cup {next_clip_id}, "any")
      <3>1. Shape /\ Owned(tracks, Ids, "any")
        BY DEF FInv, TInv
      <3>2. "any" = "lasting" => ~ AsksForNothing
        OBVIOUS
      <3> QED
        BY <1>1, <3>1, <3>2, EditOwns, SMT
    <2>3. next_clip_id' \in Nat \ {0}
      BY <2>2 DEF FInv, TakesId
    <2>4. Owned(tracks', Ids', "any")
      <3>1. CASE next_clip_id' = next_clip_id /\ Owned(tracks', Ids, "any")
        BY <3>1 DEF Ids
      <3>2. CASE TakesId /\ Owned(tracks', Ids \cup {next_clip_id}, "any")
        <4>1. Ids \cup {next_clip_id} = Ids'
          BY <3>2 DEF Ids, TakesId, FInv
        <4> QED
          BY <3>2, <4>1
      <3> QED
        BY <2>2, <3>1, <3>2
    <2> QED
      BY <2>1, <2>3, <2>4 DEF FInv
  <1>2. CASE UNCHANGED vars
    BY <1>2 DEF vars, FInv, TInv, Shape, Placed, Unique, Owned, Known, Ids
  <1> QED
    BY <1>1, <1>2

\* The id of every clip is one that was given, and no edit loses a field of a
\* clip or makes one of its times or its speed anything but a number, in every
\* state, renumbered tracks or not.
THEOREM FInvAlways == Spec => []FInv
  BY FInvInit, FInvStep, PTL DEF Spec

LEMMA LastingIsOwned ==
  ASSUME FInv
  PROVE  AllLast(Clips) <=> Owned(tracks, Ids, "lasting")
  <1>1. ASSUME NEW k \in DOMAIN tracks, NEW c \in tracks[k]
        PROVE  (Length(c) > 0 <=> c.in_time < c.out_time) /\ Fine(c, "any") /\ c.id \in Ids
    BY DEF FInv, Owned, Known, Fine, IsClip, Length
  <1> QED
    BY <1>1 DEF AllLast, Clips, Owned, Known, Fine

\* If every clip lasts, every clip does after an edit, unless a caller asked for
\* one that ends before it starts: no roll, split, slide, stretch or ripple makes
\* one, on tracks that were renumbered either.
THEOREM ClipsGoOnLasting == Spec => ClipsLast
  <1>1. ASSUME FInv, FInv', [Next]_vars, AllLast(Clips), ~ AsksForNothing
        PROVE  AllLast(Clips')
    <2>1. Owned(tracks, Ids, "lasting") /\ Shape
      BY <1>1, LastingIsOwned DEF FInv, TInv
    <2>2. CASE Next
      <3>1. Owned(tracks', Ids, "lasting") \/ Owned(tracks', Ids \cup {next_clip_id}, "lasting")
        BY <1>1, <2>1, <2>2, EditOwns
      <3>2. ASSUME NEW k \in DOMAIN tracks', NEW c \in tracks'[k] PROVE Length(c) > 0
        BY <3>1 DEF Owned, Known, Fine, IsClip, Length
      <3> QED
        BY <3>2 DEF AllLast, Clips
    <2>3. CASE UNCHANGED vars
      BY <1>1, <2>3 DEF vars, AllLast, Clips
    <2> QED
      BY <1>1, <2>2, <2>3
  <1>2. FInv /\ FInv' /\ [Next]_vars =>
          [AllLast(Clips) =>
              \/ AllLast(Clips')
              \/ \E d \in Descriptors :
                  /\ Length(d) <= 0
                  /\ \/ \E k \in DOMAIN tracks : add_clip(k, d)
                     \/ \E id \in Ids : trim_clip(id, d)]_vars
    BY <1>1 DEF AsksForNothing
  <1> QED
    BY <1>2, FInvAlways, PTL DEF Spec, ClipsLast

-----------------------------------------------------------------------------
(* What keeps the clips of a track apart.                                   *)

Apart(c, d) == ~ Overlap(c, d.in_time, d.out_time)
Clear(S) == \A c, d \in S : c # d => Apart(c, d)
AllClear(T) == \A k \in DOMAIN T : Clear(T[k])

LEMMA ClearIsNotOverlapping == AllClear(tracks) <=> ~ Overlapping
  BY DEF AllClear, Clear, Apart, Overlapping

\* An edit of one track.
LEMMA ClearExcept ==
  ASSUME NEW T, AllClear(T), NEW k, NEW S, k \in DOMAIN T => Clear(S)
  PROVE  AllClear([T EXCEPT ![k] = S])
  BY DEF AllClear

\* The clips of a track, each as another, pairwise.
LEMMA ClearImage ==
  ASSUME NEW S, NEW f, DOMAIN f = S, NEW R, R \subseteq S,
         \A x, y \in R : x # y => Apart(f[x], f[y])
  PROVE  Clear({f[x] : x \in R})
  BY DEF Clear

LEMMA ClearMore ==
  ASSUME NEW S, Clear(S), NEW d, \A x \in S : Apart(x, d) /\ Apart(d, x)
  PROVE  Clear(S \cup {d})
  BY DEF Clear

LEMMA ClearPart ==
  ASSUME NEW S, Clear(S), NEW R, R \subseteq S
  PROVE  Clear(R)
  BY DEF Clear

LEMMA ForwardTimes ==
  ASSUME NEW c, Forward(c)
  PROVE  c.in_time \in Int /\ c.out_time \in Int /\ c.in_time < c.out_time
  BY DEF Forward, Fine, IsClip

LEMMA ForwardIsClip ==
  ASSUME NEW c, Forward(c)
  PROVE  IsClip(c) /\ Fine(c, "any") /\ Fine(c, "lasting")
  BY DEF Forward, Fine

LEMMA MovedTimes ==
  ASSUME NEW c, IsClip(c), NEW delta
  PROVE  /\ Moved(c, delta).in_time = c.in_time + delta
         /\ Moved(c, delta).out_time = c.out_time + delta
  BY DEF IsClip, HasFields, Fields, Moved

LEMMA NewClipTimes ==
  ASSUME NEW k, NEW at \in Int, NEW d \in Descriptors
  PROVE  /\ NewClip(k, At(d, at)).in_time = at
         /\ NewClip(k, At(d, at)).out_time = at + Length(d)
  BY AtFields DEF NewClip

LEMMA TrackIsFine ==
  ASSUME FInv, NEW k \in DOMAIN tracks, NEW c \in tracks[k]
  PROVE  Fine(c, "any")
  BY DEF FInv, Owned, Known

\* Every clip lasts.
LInv == FInv /\ Owned(tracks, Ids, "lasting")

LEMMA TrackIsForward ==
  ASSUME LInv, NEW k \in DOMAIN tracks, NEW c \in tracks[k]
  PROVE  Forward(c)
  BY DEF LInv, Owned, Known, Forward

\* The tracks are the same ones, fewer, or one more that is empty.
LEMMA TracksStayClear ==
  ASSUME LInv, AllClear(tracks),
         \/ add_track
         \/ \E k \in DOMAIN tracks : remove_track(k)
         \/ \E order \in Orders : reorder_tracks(order)
  PROVE  AllClear(tracks')
  <1>0. TrackCount \in Nat /\ DOMAIN tracks = 0 .. TrackCount - 1
    BY CountTracks DEF LInv, FInv, TInv
  <1>1. CASE add_track
    BY <1>0, <1>1 DEF add_track, AllClear, Clear
  <1>2. CASE \E k \in DOMAIN tracks : remove_track(k)
    <2>1. PICK k \in DOMAIN tracks : remove_track(k)
      BY <1>2
    <2>2. \A l \in DOMAIN tracks' : \E m \in DOMAIN tracks : tracks'[l] = tracks[m]
      <3> SUFFICES ASSUME NEW l \in 0 .. TrackCount - 2
                   PROVE  \E m \in DOMAIN tracks : tracks'[l] = tracks[m]
        BY <2>1 DEF remove_track
      <3>1. tracks'[l] = IF l < k THEN tracks[l] ELSE tracks[l + 1]
        BY <2>1 DEF remove_track
      <3>2. l \in DOMAIN tracks /\ l + 1 \in DOMAIN tracks
        BY <1>0
      <3> QED
        BY <3>1, <3>2
    <2> QED
      BY <2>2 DEF AllClear
  <1>3. CASE \E order \in Orders : reorder_tracks(order)
    <2> DEFINE at(c, k) == [c EXCEPT !.track_index = k]
    <2>1. PICK order \in Orders : reorder_tracks(order)
      BY <1>3
    <2>2. /\ DOMAIN tracks' = DOMAIN tracks
          /\ \A k \in DOMAIN tracks : tracks'[k] = {at(c, k) : c \in tracks[order[k]]}
          /\ \A k \in DOMAIN tracks : order[k] \in DOMAIN tracks
      BY <2>1 DEF reorder_tracks, Reordered, Orders
    <2>3. ASSUME NEW c, Forward(c), NEW k
          PROVE  at(c, k).in_time = c.in_time /\ at(c, k).out_time = c.out_time
      BY <2>3 DEF Forward, Fine, IsClip, HasFields, Fields
    <2> HIDE DEF at
    <2> SUFFICES ASSUME NEW k \in DOMAIN tracks, NEW x \in tracks'[k], NEW y \in tracks'[k], x # y
                 PROVE  Apart(x, y)
      BY <2>2 DEF AllClear, Clear
    <2>4. PICK c \in tracks[order[k]], d \in tracks[order[k]] : x = at(c, k) /\ y = at(d, k)
      BY <2>2
    <2>5. Forward(c) /\ Forward(d) /\ c # d
      BY <2>2, <2>4, TrackIsForward
    <2>6. Apart(c, d)
      BY <2>2, <2>5 DEF AllClear, Clear
    <2> QED
      BY <2>3, <2>4, <2>5, <2>6 DEF Apart, Overlap
  <1> QED
    BY <1>1, <1>2, <1>3

LEMMA RemovalStaysClear ==
  ASSUME AllClear(tracks), NEW id, remove_clip(id)
  PROVE  AllClear(tracks')
  <1>1. PICK c \in find_clip(id) : tracks' = [tracks EXCEPT ![HomeOf(c)] = @ \ {c}]
    BY DEF remove_clip
  <1> DEFINE k == HomeOf(c)
             S == tracks[k] \ {c}
  <1>2. k \in DOMAIN tracks => Clear(S)
    BY DEF AllClear, Clear
  <1>3. tracks' = [tracks EXCEPT ![k] = S]
    BY <1>1
  <1> HIDE DEF k, S
  <1>4. AllClear([tracks EXCEPT ![k] = S])
    BY <1>2, ClearExcept
  <1> QED
    BY <1>3, <1>4

\* A slip changes no time of the timeline.
LEMMA SlipStaysClear ==
  ASSUME LInv, ~ renumbered, AllClear(tracks), NEW id, NEW delta \in Int, slip_edit(id, delta)
  PROVE  AllClear(tracks')
  <1>1. PICK c \in find_clip(id) : tracks' = Becomes(c, Slipped(c, delta))
    BY DEF slip_edit, Slipped
  <1> DEFINE k == c.track_index
             d == Slipped(c, delta)
             rest == tracks[k] \ {c}
             S == rest \cup {d}
  <1>2. k \in DOMAIN tracks /\ c \in tracks[k] /\ HomeOf(c) = k
    BY Found DEF LInv, FInv
  <1>3. Forward(c)
    BY <1>2, TrackIsForward
  <1>4. d.in_time = c.in_time /\ d.out_time = c.out_time
    <2> DEFINE start == Max({c.source_in + delta, 0})
    <2>1. d = [c EXCEPT !.source_in = start, !.source_out = start + SourceLength(c)]
      BY DEF Slipped
    <2> HIDE DEF start, d
    <2> QED
      BY <1>3, <2>1 DEF Forward, Fine, IsClip, HasFields, Fields
  <1>5. tracks' = [tracks EXCEPT ![k] = S]
    BY <1>1, <1>2 DEF Becomes
  <1> HIDE DEF d
  <1>6. Clear(rest) /\ \A x \in rest : Apart(x, d) /\ Apart(d, x)
    BY <1>2, <1>4 DEF AllClear, Clear, Apart, Overlap
  <1> HIDE DEF rest
  <1>7. Clear(S)
    BY <1>6, ClearMore
  <1> HIDE DEF S, k
  <1>8. AllClear([tracks EXCEPT ![k] = S])
    BY <1>7, ClearExcept
  <1> QED
    BY <1>5, <1>8

\* The halves of a clip are where it was, one after the other.
LEMMA SplitStaysClear ==
  ASSUME LInv, ~ renumbered, AllClear(tracks), NEW id, NEW t \in Int, split_clip(id, t)
  PROVE  AllClear(tracks')
  <1>1. PICK c \in find_clip(id) :
          /\ CanSplit(c, t)
          /\ \/ UsesBadIndex(c)
             \/ tracks' = [Becomes(c, LeftHalf(c, t))
                             EXCEPT ![c.track_index] = @ \cup {RightHalf(c, t)}]
    BY DEF split_clip
  <1> DEFINE k == c.track_index
             l == LeftHalf(c, t)
             r == RightHalf(c, t)
             rest == tracks[k] \ {c}
             half == rest \cup {l}
             S == half \cup {r}
  <1>2. k \in DOMAIN tracks /\ c \in tracks[k] /\ HomeOf(c) = k
    BY Found DEF LInv, FInv
  <1>3. Forward(c)
    BY <1>2, TrackIsForward
  <1>4. /\ l.in_time = c.in_time /\ l.out_time = t /\ r.in_time = t /\ r.out_time = c.out_time
    BY <1>3 DEF Forward, Fine, IsClip, HasFields, Fields, LeftHalf, RightHalf
  <1>5. tracks' = [tracks EXCEPT ![k] = S]
    BY <1>1, <1>2 DEF Becomes, UsesBadIndex
  <1>6. c.in_time < t /\ t < c.out_time
    BY <1>1 DEF CanSplit
  <1> HIDE DEF l, r
  <1>7. ASSUME NEW x \in rest
        PROVE  Apart(x, l) /\ Apart(l, x) /\ Apart(x, r) /\ Apart(r, x)
    <2>1. Apart(x, c) /\ Forward(x)
      BY <1>2, TrackIsForward DEF AllClear, Clear
    <2>2. /\ x.in_time \in Int /\ x.out_time \in Int /\ x.in_time < x.out_time
          /\ c.in_time \in Int /\ c.out_time \in Int
      BY <1>3, <2>1, ForwardTimes
    <2> QED
      BY <1>4, <1>6, <2>1, <2>2 DEF Apart, Overlap
  <1>8. Clear(rest)
    BY <1>2 DEF AllClear, Clear
  <1>9. Clear(half)
    <2> HIDE DEF rest
    <2> QED
      BY <1>7, <1>8, ClearMore
  <1>10. Apart(l, r) /\ Apart(r, l)
    BY <1>3, <1>4, <1>6, ForwardTimes DEF Apart, Overlap
  <1>11. \A x \in half : Apart(x, r) /\ Apart(r, x)
    BY <1>7, <1>10
  <1> HIDE DEF half
  <1>12. Clear(S)
    BY <1>9, <1>11, ClearMore
  <1> HIDE DEF S, k
  <1>13. AllClear([tracks EXCEPT ![k] = S])
    BY <1>12, ClearExcept
  <1> QED
    BY <1>5, <1>13

\* What is after the range closes up to what is before it.
LEMMA RippleStaysClear ==
  ASSUME LInv, AllClear(tracks), NEW k, NEW from \in Int, NEW to \in Int,
         ripple_delete(k, from, to) \/ ripple_delete_Refused(k, from, to)
  PROVE  AllClear(tracks')
  <1> DEFINE f == [y \in tracks[k] |-> Rippled(y, from, to)]
             g == [y \in tracks[k] |-> [Rippled(y, from, to) EXCEPT !.has_media = FALSE]]
             R == {y \in tracks[k] : Survives(y, from, to)}
             S == {f[y] : y \in R}
             U == {g[y] : y \in R}
  <1>1. k \in DOMAIN tracks /\ from < to
    BY DEF ripple_delete, ripple_delete_Refused
  <1>2. \/ tracks' = [tracks EXCEPT ![k] = S]
        \/ tracks' = [tracks EXCEPT ![k] = U]
    <2>1. CASE ripple_delete(k, from, to)
      BY <2>1 DEF ripple_delete
    <2>2. CASE ripple_delete_Refused(k, from, to)
      <3>1. R = tracks[k]
        BY <2>2 DEF ripple_delete_Refused, Survives
      <3>2. U = {[Rippled(y, from, to) EXCEPT !.has_media = FALSE] : y \in tracks[k]}
        BY <3>1
      <3> QED
        BY <2>2, <3>2 DEF ripple_delete_Refused
    <2> QED
      BY <2>1, <2>2
  <1>3. ASSUME NEW x \in tracks[k]
        PROVE  /\ Forward(x)
               /\ f[x].in_time = (IF x.out_time > to THEN x.in_time - (to - from) ELSE x.in_time)
               /\ f[x].out_time = (IF x.out_time > to THEN x.out_time - (to - from) ELSE x.out_time)
               /\ g[x].in_time = f[x].in_time /\ g[x].out_time = f[x].out_time
    <2>1. Forward(x)
      BY <1>1, TrackIsForward
    <2> DEFINE d == Rippled(x, from, to)
               n == -(to - from)
    <2>2. d = IF x.out_time > to THEN Moved(x, n) ELSE x
      BY DEF Rippled
    <2>3. Heir(x, d, "lasting")
      BY <2>1, ForwardIsClip, RippledIsHeir
    <2>4. n \in Int /\ x.in_time + n = x.in_time - (to - from) /\ x.out_time + n = x.out_time - (to - from)
      BY <2>1, ForwardTimes
    <2> HIDE DEF n
    <2>5. /\ d.in_time = (IF x.out_time > to THEN x.in_time - (to - from) ELSE x.in_time)
          /\ d.out_time = (IF x.out_time > to THEN x.out_time - (to - from) ELSE x.out_time)
      BY <2>1, <2>2, <2>4, ForwardIsClip, MovedTimes
    <2>6. f[x] = d /\ g[x] = [d EXCEPT !.has_media = FALSE]
      OBVIOUS
    <2> HIDE DEF d, f, g
    <2>7. g[x].in_time = d.in_time /\ g[x].out_time = d.out_time
      BY <2>3, <2>6 DEF Heir, Fine, IsClip, HasFields, Fields
    <2> QED
      BY <2>1, <2>5, <2>6, <2>7
  <1>4. DOMAIN f = tracks[k] /\ DOMAIN g = tracks[k] /\ R \subseteq tracks[k]
    OBVIOUS
  <1> HIDE DEF f, g
  <1>5. ASSUME NEW x \in R, NEW y \in R, x # y
        PROVE  Apart(f[x], f[y]) /\ Apart(g[x], g[y])
    <2>1. Apart(x, y) /\ Survives(x, from, to) /\ Survives(y, from, to)
      BY <1>1, <1>5 DEF AllClear, Clear
    <2>2. /\ x.in_time \in Int /\ x.out_time \in Int /\ x.in_time < x.out_time
          /\ y.in_time \in Int /\ y.out_time \in Int /\ y.in_time < y.out_time
      BY <1>3, ForwardTimes
    <2> QED
      BY <1>1, <1>3, <2>1, <2>2 DEF Apart, Overlap, Survives
  <1> HIDE DEF R
  <1>6. Clear(S) /\ Clear(U)
    BY <1>4, <1>5, ClearImage
  <1> HIDE DEF S, U
  <1>7. AllClear([tracks EXCEPT ![k] = S]) /\ AllClear([tracks EXCEPT ![k] = U])
    BY <1>6, ClearExcept
  <1> QED
    BY <1>2, <1>7

\* What would overlap the new clip is gone.
LEMMA OverwriteStaysClear ==
  ASSUME LInv, AllClear(tracks), NEW k, NEW at \in Int, NEW d \in Descriptors,
         overwrite_edit(k, at, d)
  PROVE  AllClear(tracks')
  <1> DEFINE len == Length(d)
             new == NewClip(k, At(d, at))
             kept == {c \in tracks[k] : Survives(c, at, at + len)}
             S == kept \cup {new}
  <1>1. k \in DOMAIN tracks /\ tracks' = [tracks EXCEPT ![k] = S]
    BY DEF overwrite_edit
  <1>2. new.in_time = at /\ new.out_time = at + len /\ len \in Nat \ {0}
    BY DescriptorFields, NewClipTimes DEF overwrite_edit
  <1> HIDE DEF new, len
  <1>3. \A x \in kept : Apart(x, new) /\ Apart(new, x)
    <2> SUFFICES ASSUME NEW x \in kept PROVE Apart(x, new) /\ Apart(new, x)
      OBVIOUS
    <2>1. x.in_time \in Int /\ x.out_time \in Int
      BY <1>1, TrackIsForward, ForwardTimes
    <2> QED
      BY <1>2, <2>1 DEF Apart, Overlap, Survives
  <1>4. Clear(kept)
    BY <1>1 DEF AllClear, Clear
  <1> HIDE DEF kept
  <1>5. Clear(S)
    BY <1>3, <1>4, ClearMore
  <1> HIDE DEF S
  <1>6. AllClear([tracks EXCEPT ![k] = S])
    BY <1>5, ClearExcept
  <1> QED
    BY <1>1, <1>6

\* An insertion that is not inside a clip pushes all that is after it away.
LEMMA InsertStaysClear ==
  ASSUME LInv, AllClear(tracks), NEW k, NEW at \in Int, NEW d \in Descriptors,
         insert_edit(k, at, d),
         ~ \E c \in tracks[k] : c.in_time < at /\ at < c.out_time
  PROVE  AllClear(tracks')
  <1> DEFINE len == Length(d)
             new == NewClip(k, At(d, at))
             f == [y \in tracks[k] |-> Pushed(y, at, len)]
             R == tracks[k]
             pushed == {f[y] : y \in R}
             S == pushed \cup {new}
  <1>1. k \in DOMAIN tracks /\ tracks' = [tracks EXCEPT ![k] = S]
    BY DEF insert_edit
  <1>2. new.in_time = at /\ new.out_time = at + len /\ len \in Nat \ {0}
    BY DescriptorFields, NewClipTimes DEF insert_edit
  <1>3. ASSUME NEW x \in tracks[k]
        PROVE  /\ x.in_time \in Int /\ x.out_time \in Int /\ x.in_time < x.out_time
               /\ f[x].in_time = (IF x.in_time >= at THEN x.in_time + len ELSE x.in_time)
               /\ f[x].out_time = (IF x.in_time >= at THEN x.out_time + len ELSE x.out_time)
    <2>1. Forward(x)
      BY <1>1, TrackIsForward
    <2> QED
      BY <2>1, ForwardTimes, ForwardIsClip, MovedTimes DEF Pushed
  <1>4. DOMAIN f = tracks[k] /\ R \subseteq tracks[k]
    OBVIOUS
  <1> HIDE DEF f, new, len
  <1>5. ASSUME NEW x \in tracks[k]
        PROVE  Apart(f[x], new) /\ Apart(new, f[x])
    BY <1>2, <1>3 DEF Apart, Overlap
  <1>6. ASSUME NEW x \in R, NEW y \in R, x # y
        PROVE  Apart(f[x], f[y])
    <2>1. Apart(x, y)
      BY <1>1, <1>6 DEF AllClear, Clear
    <2> QED
      BY <1>2, <1>3, <2>1 DEF Apart, Overlap
  <1>7. \A x \in pushed : Apart(x, new) /\ Apart(new, x)
    BY <1>5
  <1> HIDE DEF R
  <1>8. Clear(pushed)
    BY <1>4, <1>6, ClearImage
  <1> HIDE DEF pushed
  <1>9. Clear(S)
    BY <1>7, <1>8, ClearMore
  <1> HIDE DEF S
  <1>10. AllClear([tracks EXCEPT ![k] = S])
    BY <1>9, ClearExcept
  <1> QED
    BY <1>1, <1>10


\* The cut that rolls stays within the next clip, and nothing else is after it
\* before that one.
LEMMA RollStaysClear ==
  ASSUME LInv, ~ renumbered, AllClear(tracks), NEW id, NEW delta \in Int, roll_edit(id, delta)
  PROVE  AllClear(tracks')
  <1>1. PICK c \in find_clip(id) :
          \/ UsesBadIndex(c)
          \/ \E n \in NextClips(tracks[c.track_index], c) :
               /\ CanRoll(c, n, delta)
               /\ tracks' = [Becomes(c, Rolled(c, delta)) EXCEPT ![c.track_index] =
                               (@ \ {n}) \cup {RolledNext(c, n, delta)}]
    BY DEF roll_edit
  <1> DEFINE k == c.track_index
             d == Rolled(c, delta)
  <1>2. k \in DOMAIN tracks /\ c \in tracks[k] /\ HomeOf(c) = k
    BY Found DEF LInv, FInv
  <1>3. PICK n \in NextClips(tracks[k], c) :
          /\ CanRoll(c, n, delta)
          /\ tracks' = [Becomes(c, d) EXCEPT ![k] = (@ \ {n}) \cup {RolledNext(c, n, delta)}]
    BY <1>1, <1>2 DEF UsesBadIndex
  <1> DEFINE e == RolledNext(c, n, delta)
             rest == tracks[k] \ {c, n}
             more == rest \cup {d}
             most == more \cup {e}
             S == (((tracks[k] \ {c}) \cup {d}) \ {n}) \cup {e}
  <1>4. n \in tracks[k] /\ n.in_time >= c.out_time
        /\ \A x \in tracks[k] : x.in_time >= c.out_time => n.in_time <= x.in_time
    BY DEF NextClips
  <1>5. Forward(c) /\ Forward(n)
    BY <1>2, <1>4, TrackIsForward
  <1>6. /\ d.in_time = c.in_time /\ d.out_time = c.out_time + delta
        /\ e.in_time = c.out_time + delta /\ e.out_time = n.out_time
    BY <1>5 DEF Forward, Fine, IsClip, HasFields, Fields, Rolled, RolledNext
  <1>7. tracks' = [tracks EXCEPT ![k] = S] /\ S \subseteq most
    BY <1>2, <1>3 DEF Becomes
  <1>8. 0 <= delta /\ delta < Length(n)
    BY <1>3, <1>5, RollStaysInside
  <1> HIDE DEF d, e
  <1>9. c.in_time < c.out_time /\ /\ c.in_time \in Int /\ c.out_time \in Int
        /\ n.in_time \in Int /\ n.out_time \in Int /\ delta < n.out_time - n.in_time
    BY <1>5, <1>8, ForwardTimes DEF Length
  <1>10. ASSUME NEW x \in rest
         PROVE  Apart(x, d) /\ Apart(d, x) /\ Apart(x, e) /\ Apart(e, x)
    <2>1. Apart(x, c) /\ Apart(x, n) /\ Forward(x)
      BY <1>2, <1>4, TrackIsForward DEF AllClear, Clear
    <2>2. x.in_time \in Int /\ x.out_time \in Int /\ x.in_time < x.out_time
      BY <2>1, ForwardTimes
    <2>3. x.out_time <= c.in_time \/ (n.in_time <= x.in_time /\ n.out_time <= x.in_time)
      BY <1>4, <1>9, <2>1, <2>2 DEF Apart, Overlap
    <2> QED
      BY <1>4, <1>6, <1>8, <1>9, <2>2, <2>3 DEF Apart, Overlap
  <1>11. Apart(d, e) /\ Apart(e, d)
    BY <1>6, <1>9 DEF Apart, Overlap
  <1>12. Clear(rest)
    BY <1>2 DEF AllClear, Clear
  <1>13. Clear(more)
    <2> HIDE DEF rest
    <2> QED
      BY <1>10, <1>12, ClearMore
  <1>14. \A x \in more : Apart(x, e) /\ Apart(e, x)
    BY <1>10, <1>11
  <1> HIDE DEF more
  <1>15. Clear(most)
    BY <1>13, <1>14, ClearMore
  <1> HIDE DEF most, S
  <1>16. Clear(S)
    BY <1>7, <1>15, ClearPart
  <1> HIDE DEF k
  <1>17. AllClear([tracks EXCEPT ![k] = S])
    BY <1>16, ClearExcept
  <1> QED
    BY <1>7, <1>17

AreForward(S) == \A x \in S : Forward(x)

\* Of the clips before c the search finds the last, and what else is before c is
\* before that one; the same after it.
LEMMA NeighboursOf ==
  ASSUME NEW S, Clear(S), AreForward(S), NEW c, Forward(c), NEW x \in S
  PROVE  /\ x.out_time <= c.in_time =>
              /\ PreviousClips(S, c) # {}
              /\ \A p \in PreviousClips(S, c) : x = p \/ x.out_time <= p.in_time
         /\ x.in_time >= c.out_time =>
              /\ NextClips(S, c) # {}
              /\ \A n \in NextClips(S, c) : x = n \/ n.out_time <= x.in_time
  <1>1. ASSUME NEW y \in S
        PROVE  y.in_time \in Int /\ y.out_time \in Int /\ y.in_time < y.out_time
    BY ForwardTimes DEF AreForward
  <1>2. c.in_time \in Int /\ c.out_time \in Int
    BY ForwardTimes
  <1>3. ASSUME x.out_time <= c.in_time
        PROVE  /\ PreviousClips(S, c) # {}
               /\ \A p \in PreviousClips(S, c) : x = p \/ x.out_time <= p.in_time
    <2> DEFINE before == {y \in S : y.out_time <= c.in_time}
               K == {c.in_time - y.out_time : y \in before}
    <2>1. K \in SUBSET Nat /\ K # {}
      BY <1>1, <1>2, <1>3
    <2>2. PICK m \in K : \A j \in K : m <= j
      <3> HIDE DEF K
      <3> QED
        BY <2>1, LeastOf
    <2>3. PICK p \in before : \A y \in before : p.out_time >= y.out_time
      <3>1. PICK p \in before : m = c.in_time - p.out_time
        OBVIOUS
      <3>2. \A y \in before : c.in_time - p.out_time <= c.in_time - y.out_time
        BY <2>2, <3>1
      <3> QED
        BY <1>1, <1>2, <3>1, <3>2
    <2>4. PreviousClips(S, c) # {}
      BY <2>3 DEF PreviousClips
    <2>5. ASSUME NEW q \in PreviousClips(S, c), x # q PROVE x.out_time <= q.in_time
      <3>1. q \in S /\ q.out_time >= x.out_time
        BY <1>3 DEF PreviousClips
      <3>2. Apart(x, q)
        BY <2>5, <3>1 DEF Clear
      <3> QED
        BY <1>1, <3>1, <3>2 DEF Apart, Overlap
    <2> QED
      BY <2>4, <2>5
  <1>4. ASSUME x.in_time >= c.out_time
        PROVE  /\ NextClips(S, c) # {}
               /\ \A n \in NextClips(S, c) : x = n \/ n.out_time <= x.in_time
    <2> DEFINE after == {y \in S : y.in_time >= c.out_time}
               K == {y.in_time - c.out_time : y \in after}
    <2>1. K \in SUBSET Nat /\ K # {}
      BY <1>1, <1>2, <1>4
    <2>2. PICK m \in K : \A j \in K : m <= j
      <3> HIDE DEF K
      <3> QED
        BY <2>1, LeastOf
    <2>3. PICK n \in after : \A y \in after : n.in_time <= y.in_time
      <3>1. PICK n \in after : m = n.in_time - c.out_time
        OBVIOUS
      <3>2. \A y \in after : n.in_time - c.out_time <= y.in_time - c.out_time
        BY <2>2, <3>1
      <3> QED
        BY <1>1, <1>2, <3>1, <3>2
    <2>4. NextClips(S, c) # {}
      BY <2>3 DEF NextClips
    <2>5. ASSUME NEW q \in NextClips(S, c), x # q PROVE q.out_time <= x.in_time
      <3>1. q \in S /\ q.in_time <= x.in_time
        BY <1>4 DEF NextClips
      <3>2. Apart(x, q)
        BY <2>5, <3>1 DEF Clear
      <3> QED
        BY <1>1, <3>1, <3>2 DEF Apart, Overlap
    <2> QED
      BY <2>4, <2>5
  <1> QED
    BY <1>3, <1>4

\* A clip slides between its neighbours, which reach up to it.
LEMMA SlideStaysClear ==
  ASSUME LInv, ~ renumbered, AllClear(tracks), NEW id, NEW delta \in Int, slide_edit(id, delta)
  PROVE  AllClear(tracks')
  <1>1. PICK c \in find_clip(id) :
          \/ UsesBadIndex(c)
          \/ /\ CanSlide(c, delta)
             /\ \E previous \in OneOf(PreviousClips(Others(c), c)),
                   next \in OneOf(NextClips(Others(c), c)) :
                  tracks' = [Becomes(c, Moved(c, delta)) EXCEPT ![c.track_index] =
                               {Reaching(x, previous, next, Moved(c, delta)) : x \in @}]
    BY DEF slide_edit
  <1> DEFINE k == c.track_index
             d == Moved(c, delta)
             rest == Others(c)
  <1>2. k \in DOMAIN tracks /\ c \in tracks[k] /\ HomeOf(c) = k
    BY Found DEF LInv, FInv
  <1>3. PICK previous \in OneOf(PreviousClips(rest, c)), next \in OneOf(NextClips(rest, c)) :
          tracks' = [Becomes(c, d) EXCEPT ![k] = {Reaching(x, previous, next, d) : x \in @}]
    BY <1>1, <1>2 DEF UsesBadIndex
  <1>4. CanSlide(c, delta)
    BY <1>1, <1>2 DEF UsesBadIndex
  <1>5. rest = tracks[k] \ {c}
    BY <1>2 DEF Others, LInv, FInv, TInv, Unique
  <1>6. \A x \in tracks[k] : Forward(x)
    BY <1>2, TrackIsForward
  <1>7. Clear(rest)
    BY <1>2, <1>5 DEF AllClear, Clear
  <1>8. /\ \A x, y \in previous : x = y
        /\ \A x, y \in next : x = y
        /\ previous \subseteq PreviousClips(rest, c) /\ next \subseteq NextClips(rest, c)
        /\ PreviousClips(rest, c) # {} => previous # {}
        /\ NextClips(rest, c) # {} => next # {}
    BY DEF OneOf
  <1>9. previous \subseteq rest /\ next \subseteq rest /\ d \notin previous /\ d \notin next
    <2>1. d.id = c.id
      BY <1>2, <1>6, ForwardIsClip, MovedIsHeir DEF Heir
    <2> QED
      BY <1>8, <2>1 DEF PreviousClips, NextClips, Others
  <1> DEFINE f == [y \in tracks[k] |-> Reaching(IF y = c THEN d ELSE y, previous, next, d)]
             R == tracks[k]
             S == {f[y] : y \in R}
  <1>10. tracks' = [tracks EXCEPT ![k] = S]
    <2>1. tracks' = [tracks EXCEPT ![k] =
                       {Reaching(x, previous, next, d) : x \in (tracks[k] \ {c}) \cup {d}}]
      BY <1>2, <1>3 DEF Becomes
    <2>2. {Reaching(x, previous, next, d) : x \in (tracks[k] \ {c}) \cup {d}} = S
      BY <1>2
    <2> QED
      BY <2>1, <2>2
  <1>11. d.in_time = c.in_time + delta /\ d.out_time = c.out_time + delta /\ Forward(d)
    BY <1>2, <1>6, ForwardIsClip, MovedTimes, MovedIsHeir DEF Heir, Forward
  <1> HIDE DEF d
  <1>12. ASSUME NEW x, Forward(x)
         PROVE  LET y == Reaching(x, previous, next, d)
                IN  /\ y.in_time = (IF x \in next THEN d.out_time ELSE x.in_time)
                    /\ y.out_time = (IF x \in previous THEN d.in_time ELSE x.out_time)
    BY <1>12 DEF Forward, Fine, IsClip, HasFields, Fields, Reaching
  <1>13. f[c].in_time = d.in_time /\ f[c].out_time = d.out_time
    BY <1>2, <1>9, <1>11, <1>12
  <1>14. ASSUME NEW x \in rest
         PROVE  /\ f[x].in_time = (IF x \in next THEN d.out_time ELSE x.in_time)
                /\ f[x].out_time = (IF x \in previous THEN d.in_time ELSE x.out_time)
    BY <1>5, <1>6, <1>12
  <1>15. DOMAIN f = tracks[k] /\ R \subseteq tracks[k]
    OBVIOUS
  <1> HIDE DEF f, rest
  <1>16. c.in_time \in Int /\ c.out_time \in Int /\ c.in_time < c.out_time
    BY <1>2, <1>6, ForwardTimes
  <1>17. ASSUME NEW x \in rest
         PROVE  x.in_time \in Int /\ x.out_time \in Int /\ x.in_time < x.out_time
    BY <1>5, <1>6, ForwardTimes
  <1>18. ASSUME NEW x \in rest
         PROVE  x.out_time <= c.in_time \/ x.in_time >= c.out_time
    <2>1. Apart(x, c)
      BY <1>2, <1>5 DEF AllClear, Clear
    <2> QED
      BY <1>16, <1>17, <2>1 DEF Apart, Overlap
  <1>19. /\ \A x \in previous : x.out_time <= c.in_time /\ x.out_time <= d.in_time
         /\ \A x \in next : x.in_time >= c.out_time /\ d.out_time <= x.in_time
    BY <1>4, <1>8, <1>11 DEF CanSlide, PreviousClips, NextClips, rest
  <1>20. ASSUME NEW x \in rest
         PROVE  /\ x.out_time <= c.in_time =>
                     /\ PreviousClips(rest, c) # {}
                     /\ \A p \in PreviousClips(rest, c) : x = p \/ x.out_time <= p.in_time
                /\ x.in_time >= c.out_time =>
                     /\ NextClips(rest, c) # {}
                     /\ \A n \in NextClips(rest, c) : x = n \/ n.out_time <= x.in_time
    <2>1. AreForward(rest) /\ Forward(c)
      BY <1>2, <1>5, <1>6 DEF AreForward
    <2> QED
      BY <1>7, <2>1, NeighboursOf
  <1> DEFINE left(x) == x.out_time <= c.in_time
             right(x) == x.in_time >= c.out_time
  <1>21. ASSUME NEW x \in rest
         PROVE  /\ left(x) => /\ x \notin next /\ previous # {}
                              /\ \A p \in previous : x = p \/ x.out_time <= p.in_time
                /\ right(x) => /\ x \notin previous /\ next # {}
                               /\ \A n \in next : x = n \/ n.out_time <= x.in_time
    <2>1. left(x) => x \notin next
      BY <1>16, <1>17, <1>19
    <2>2. right(x) => x \notin previous
      BY <1>16, <1>17, <1>19
    <2> QED
      BY <1>8, <1>20, <2>1, <2>2
  <1>22. d.in_time \in Int /\ d.out_time \in Int /\ d.in_time < d.out_time
    BY <1>11, ForwardTimes
  <1>23. ASSUME NEW x \in rest, left(x)
         PROVE  f[x].in_time = x.in_time /\ f[x].out_time <= d.in_time /\ f[x].out_time \in Int
    <2>1. PICK p \in previous : x = p \/ x.out_time <= p.in_time
      BY <1>21, <1>23
    <2>2. p.out_time <= d.in_time /\ p \in rest
      BY <1>9, <1>19, <2>1
    <2> QED
      BY <1>14, <1>17, <1>21, <1>22, <1>23, <2>1, <2>2
  <1>24. ASSUME NEW x \in rest, right(x)
         PROVE  f[x].out_time = x.out_time /\ f[x].in_time >= d.out_time /\ f[x].in_time \in Int
    <2>1. PICK n \in next : x = n \/ n.out_time <= x.in_time
      BY <1>21, <1>24
    <2>2. n.in_time >= d.out_time /\ n \in rest
      BY <1>9, <1>19, <2>1
    <2> QED
      BY <1>14, <1>17, <1>21, <1>22, <1>24, <2>1, <2>2
  <1>25. ASSUME NEW x \in rest
         PROVE  Apart(f[x], f[c]) /\ Apart(f[c], f[x])
    BY <1>13, <1>17, <1>18, <1>22, <1>23, <1>24 DEF Apart, Overlap
  <1>26. ASSUME NEW x \in rest, NEW y \in rest, x # y
         PROVE  Apart(f[x], f[y])
    <2>1. Apart(x, y)
      BY <1>7, <1>26 DEF Clear
    <2>2. CASE left(x) /\ left(y)
      <3>1. x \in previous => y \notin previous /\ y.out_time <= x.in_time
        BY <1>21, <1>26, <2>2, <1>8
      <3>2. y \in previous => x \notin previous /\ x.out_time <= y.in_time
        BY <1>21, <1>26, <2>2, <1>8
      <3>3. x \notin next /\ y \notin next
        BY <1>21, <2>2
      <3> QED
        BY <1>14, <1>17, <1>22, <1>23, <2>1, <2>2, <3>1, <3>2, <3>3 DEF Apart, Overlap
    <2>3. CASE right(x) /\ right(y)
      <3>1. x \in next => y \notin next /\ x.out_time <= y.in_time
        BY <1>21, <1>26, <2>3, <1>8
      <3>2. y \in next => x \notin next /\ y.out_time <= x.in_time
        BY <1>21, <1>26, <2>3, <1>8
      <3>3. x \notin previous /\ y \notin previous
        BY <1>21, <2>3
      <3> QED
        BY <1>14, <1>17, <1>22, <1>24, <2>1, <2>3, <3>1, <3>2, <3>3 DEF Apart, Overlap
    <2>4. CASE (left(x) /\ right(y)) \/ (right(x) /\ left(y))
      BY <1>22, <1>23, <1>24, <1>17, <2>4 DEF Apart, Overlap
    <2> QED
      BY <1>18, <2>2, <2>3, <2>4
  <1>27. ASSUME NEW x \in R, NEW y \in R, x # y
         PROVE  Apart(f[x], f[y])
    BY <1>5, <1>25, <1>26, <1>27
  <1> HIDE DEF R
  <1>28. Clear(S)
    BY <1>15, <1>27, ClearImage
  <1> HIDE DEF S, k
  <1>29. AllClear([tracks EXCEPT ![k] = S])
    BY <1>28, ClearExcept
  <1> QED
    BY <1>10, <1>29

LEMMA OverlappingNext == AllClear(tracks') <=> ~ Overlapping'
  BY DEF AllClear, Clear, Apart, Overlapping

\* The edits that mind the clips around leave them apart, from the first to the
\* last.
LEMMA FitStaysClear ==
  ASSUME LInv, ~ renumbered, AllClear(tracks), Fit
  PROVE  AllClear(tracks')
  <1>1. CASE \/ add_track
             \/ \E k \in DOMAIN tracks : remove_track(k)
             \/ \E order \in Orders : reorder_tracks(order)
    BY <1>1, TracksStayClear
  <1>2. CASE \E id \in Ids : remove_clip(id)
    BY <1>2, RemovalStaysClear
  <1>3. CASE \E id \in Ids, t \in Times : split_clip(id, t)
    BY <1>3, TimesAreInts, SplitStaysClear
  <1>4. CASE \E k \in DOMAIN tracks, from, to \in Times :
               ripple_delete(k, from, to) \/ ripple_delete_Refused(k, from, to)
    BY <1>4, TimesAreInts, RippleStaysClear
  <1>5. CASE OverwriteEdit
    <2>1. PICK k \in DOMAIN tracks, at \in Times, d \in Descriptors : overwrite_edit(k, at, d)
      BY <1>5 DEF OverwriteEdit
    <2>2. at \in Int
      BY TimesAreNats
    <2> QED
      BY <2>1, <2>2, OverwriteStaysClear
  <1>6. CASE \E id \in Ids, delta \in Deltas : roll_edit(id, delta)
    BY <1>6, TimesAreInts, RollStaysClear
  <1>7. CASE \E id \in Ids, delta \in Deltas : slip_edit(id, delta)
    BY <1>7, TimesAreInts, SlipStaysClear
  <1>8. CASE \E id \in Ids, delta \in Deltas : slide_edit(id, delta)
    BY <1>8, TimesAreInts, SlideStaysClear
  <1> QED
    BY <1>1, <1>2, <1>3, <1>4, <1>5, <1>6, <1>7, <1>8 DEF Fit

\* An insertion overlaps only a clip it is made inside.
LEMMA InsertionStaysClear ==
  ASSUME LInv, AllClear(tracks), InsertEdit, ~ InsertInside
  PROVE  AllClear(tracks')
  <1>1. PICK k \in DOMAIN tracks, at \in Times, d \in Descriptors :
          at + Length(d) \in Times /\ insert_edit(k, at, d)
    BY DEF InsertEdit
  <1>2. at \in Int
    BY TimesAreNats
  <1>3. ~ \E c \in tracks[k] : c.in_time < at /\ at < c.out_time
    BY <1>1 DEF InsertInside
  <1> QED
    BY <1>1, <1>2, <1>3, InsertStaysClear

\* Clips of a track that all last come to overlap only when one is placed, or
\* inserted inside another: after no sequence of the other edits, of any length.
THEOREM OverlapsAreAskedFor == Spec => OnlyPlacingOverlaps
  <1>1. FInv /\ [Next]_vars =>
          [~ renumbered /\ AllLast(Clips) /\ ~ Overlapping /\ Overlapping' =>
              Place \/ InsertInside]_vars
    <2> SUFFICES ASSUME FInv, Next, ~ renumbered, AllLast(Clips), ~ Overlapping,
                        ~ Place, ~ InsertInside
                 PROVE  ~ Overlapping'
      OBVIOUS
    <2>1. AllClear(tracks) /\ LInv
      BY ClearIsNotOverlapping, LastingIsOwned DEF LInv
    <2>2. AllClear(tracks')
      BY <2>1, FitStaysClear, InsertionStaysClear DEF Next
    <2> QED
      BY <2>2, OverlappingNext
  <1> QED
    BY <1>1, FInvAlways, PTL DEF Spec, OnlyPlacingOverlaps

-----------------------------------------------------------------------------
(* What a split shows.                                                      *)

LEMMA Cancel ==
  ASSUME NEW n \in Nat \ {0}, NEW a \in Int, NEW b \in Int, n * a = n * b
  PROVE  a = b
  <1>1. CASE a < b
    <2>1. b - a \in Nat \ {0}
      BY <1>1
    <2>2. n * (b - a) >= 1 * 1
      BY <2>1, Products
    <2>3. n * (b - a) = n * b - n * a /\ n * b \in Int /\ n * a \in Int
      OBVIOUS
    <2> QED
      BY <2>2, <2>3
  <1>2. CASE b < a
    <2>1. a - b \in Nat \ {0}
      BY <1>2
    <2>2. n * (a - b) >= 1 * 1
      BY <2>1, Products
    <2>3. n * (a - b) = n * a - n * b /\ n * b \in Int /\ n * a \in Int
      OBVIOUS
    <2> QED
      BY <2>2, <2>3
  <1> QED
    BY <1>1, <1>2

\* A source cut in proportion to a clip of length n and speed v / u is cut where
\* the speed says.
LEMMA CutInProportion ==
  ASSUME NEW n \in Nat \ {0}, NEW a \in Int, NEW s \in Int, NEW u \in Int, NEW v \in Int,
         NEW w \in Int, a * s = n * w, s * u = v * n
  PROVE  w * u = a * v
  <1>1. n * (w * u) = (n * w) * u
    OBVIOUS
  <1>2. (a * s) * u = a * (s * u)
    OBVIOUS
  <1>3. a * (v * n) = n * (a * v)
    OBVIOUS
  <1>4. n * (w * u) = n * (a * v) /\ w * u \in Int /\ a * v \in Int
    BY <1>1, <1>2, <1>3
  <1> DEFINE x == w * u
             y == a * v
  <1>5. n * x = n * y /\ x \in Int /\ y \in Int
    BY <1>4
  <1> HIDE DEF x, y
  <1>6. x = y
    BY <1>5, Cancel
  <1> QED
    BY <1>6 DEF x, y

\* Each half of a clip shows what the clip showed.
LEMMA HalvesShowTheClip ==
  ASSUME NEW c, Forward(c), NEW t \in Int, CanSplit(c, t), SpeedMatches(c), NEW u \in Int
  PROVE  /\ ShownBy(LeftHalf(c, t), u) = ShownBy(c, u)
         /\ ShownBy(RightHalf(c, t), u) = ShownBy(c, u)
         /\ Plays(c, u) <=> Plays(LeftHalf(c, t), u) \/ Plays(RightHalf(c, t), u)
  <1> DEFINE l == LeftHalf(c, t)
             r == RightHalf(c, t)
             n == Length(c)
             s == SourceLength(c)
             a == t - c.in_time
             w == (a * s) \div n
  <1>1. /\ l.in_time = c.in_time /\ l.out_time = t
        /\ l.source_in = c.source_in /\ l.speed = c.speed
        /\ r.in_time = t /\ r.out_time = c.out_time
        /\ r.source_in = c.source_in + w /\ r.speed = c.speed
    BY DEF Forward, Fine, IsClip, HasFields, Fields, LeftHalf, RightHalf, SourceAt
  <1>2. n \in Nat \ {0} /\ s \in Int
    BY ForwardLength
  <1>3. a \in Int /\ c.source_in \in Int /\ c.speed \in Int /\ SpeedUnit \in Int
    BY TimelineAssumption DEF Forward, Fine, IsClip
  <1>4. a * s \in Int /\ (a * s) % n = 0
    BY <1>2, <1>3 DEF CanSplit, CutsEvenly
  <1>5. s * SpeedUnit = c.speed * n
    BY DEF SpeedMatches
  <1> HIDE DEF l, r, n, s
  <1>6. a * s = n * w /\ w \in Int
    BY <1>2, <1>4, ExactQuotient
  <1> DEFINE b == a
             x == w
  <1>7. b * s = n * x /\ b \in Int /\ x \in Int
    BY <1>3, <1>6
  <1> HIDE DEF b, x
  <1>8. x * SpeedUnit = b * c.speed
    BY <1>2, <1>3, <1>5, <1>7, CutInProportion
  <1>9. w * SpeedUnit = (t - c.in_time) * c.speed
    BY <1>8 DEF b, x
  <1>10. ShownBy(l, u) = ShownBy(c, u)
    BY <1>1 DEF ShownBy
  <1>11. ShownBy(r, u) = ShownBy(c, u)
    <2>1. ShownBy(r, u) = (c.source_in + w) * SpeedUnit + (u - t) * c.speed
      BY <1>1 DEF ShownBy
    <2>2. (c.source_in + w) * SpeedUnit = c.source_in * SpeedUnit + w * SpeedUnit
      BY <1>3, <1>6
    <2>3. (u - t) * c.speed + (t - c.in_time) * c.speed = (u - c.in_time) * c.speed
      BY <1>3 DEF Forward, Fine, IsClip
    <2>4. /\ c.source_in * SpeedUnit \in Int /\ w * SpeedUnit \in Int
          /\ (u - t) * c.speed \in Int /\ (t - c.in_time) * c.speed \in Int
      BY <1>3, <1>6
    <2> QED
      BY <1>9, <2>1, <2>2, <2>3, <2>4 DEF ShownBy
  <1>12. Plays(c, u) <=> Plays(l, u) \/ Plays(r, u)
    BY <1>1, ForwardTimes DEF CanSplit, Plays
  <1> QED
    BY <1>10, <1>11, <1>12 DEF l, r

\* The track's other clips are untouched, so it shows the same at any time.
LEMMA SplitTrackShowsTheSame ==
  ASSUME FInv, ~ renumbered, NEW id, NEW t \in Int, split_clip(id, t),
         \A c \in find_clip(id) : SpeedMatches(c),
         NEW k \in DOMAIN tracks, NEW u \in Int
  PROVE  Shows(k, u)' = Shows(k, u)
  <1>1. PICK c \in find_clip(id) :
          /\ CanSplit(c, t)
          /\ \/ UsesBadIndex(c)
             \/ tracks' = [Becomes(c, LeftHalf(c, t))
                             EXCEPT ![c.track_index] = @ \cup {RightHalf(c, t)}]
    BY DEF split_clip
  <1> DEFINE h == c.track_index
             l == LeftHalf(c, t)
             r == RightHalf(c, t)
             S == ((tracks[h] \ {c}) \cup {l}) \cup {r}
  <1>2. h \in DOMAIN tracks /\ c \in tracks[h] /\ HomeOf(c) = h
    BY Found DEF FInv
  <1>3. tracks' = [tracks EXCEPT ![h] = S]
    BY <1>1, <1>2 DEF Becomes, UsesBadIndex
  <1>4. Forward(c) /\ SpeedMatches(c)
    <2>1. Fine(c, "any")
      BY <1>2, TrackIsFine
    <2>2. c.in_time < c.out_time
      BY <1>1, <2>1 DEF CanSplit, Fine, IsClip
    <2> QED
      BY <1>2, <2>1, <2>2, LastingIsForward
  <1>5. /\ ShownBy(l, u) = ShownBy(c, u) /\ ShownBy(r, u) = ShownBy(c, u)
        /\ Plays(c, u) <=> Plays(l, u) \/ Plays(r, u)
    BY <1>1, <1>4, HalvesShowTheClip
  <1> HIDE DEF l, r
  <1> DEFINE shown(T) == {ShownBy(x, u) : x \in {y \in T : Plays(y, u)}}
  <1>6. Shows(k, u) = shown(tracks[k]) /\ Shows(k, u)' = shown(tracks'[k])
    BY DEF Shows
  <1>7. CASE k = h
    <2>1. tracks'[k] = S
      BY <1>2, <1>3, <1>7
    <2>2. shown(S) = shown(tracks[h])
      BY <1>2, <1>5
    <2> QED
      BY <1>6, <1>7, <2>1, <2>2
  <1>8. CASE k # h
    BY <1>3, <1>6, <1>8
  <1> QED
    BY <1>7, <1>8

\* What is seen of a timeline does not change when clips are split, for clips of
\* any length and speed, cut anywhere.
THEOREM SplitsAreUnseen == Spec => SplitShowsTheSame
  <1>1. FInv /\ [Next]_vars =>
          [\A id \in Ids, t \in Times :
              /\ ~ renumbered /\ split_clip(id, t)
              /\ \A c \in find_clip(id) : SpeedMatches(c)
              => \A k \in DOMAIN tracks, u \in Times : Shows(k, u)' = Shows(k, u)]_vars
    BY TimesAreInts, SplitTrackShowsTheSame
  <1> QED
    BY <1>1, FInvAlways, PTL DEF Spec, SplitShowsTheSame

-----------------------------------------------------------------------------
(* What keeps a clip's source range and its speed together.                 *)

Matched(S) == \A c \in S : SpeedMatches(c)
AllMatched(T) == \A k \in DOMAIN T : Matched(T[k])

LEMMA MatchedClips ==
  /\ AllMatched(tracks) <=> \A c \in Clips : SpeedMatches(c)
  /\ AllMatched(tracks') <=> \A c \in Clips' : SpeedMatches(c)
  BY DEF AllMatched, Matched, Clips

LEMMA MatchedExcept ==
  ASSUME NEW T, AllMatched(T), NEW k, NEW S, k \in DOMAIN T => Matched(S)
  PROVE  AllMatched([T EXCEPT ![k] = S])
  BY DEF AllMatched

\* A clip that plays for as long, from as much source, at the same speed.
LEMMA SameMatch ==
  ASSUME NEW c, SpeedMatches(c), NEW d, d.speed = c.speed,
         Length(d) = Length(c), SourceLength(d) = SourceLength(c)
  PROVE  SpeedMatches(d)
  BY DEF SpeedMatches

LEMMA FineLength ==
  ASSUME NEW c, Fine(c, "any")
  PROVE  Length(c) \in Int /\ SourceLength(c) \in Int
  BY DEF Fine, IsClip, Length, SourceLength

LEMMA MovedMatches ==
  ASSUME NEW c, Fine(c, "any"), SpeedMatches(c), NEW delta \in Int
  PROVE  SpeedMatches(Moved(c, delta))
  <1> DEFINE d == Moved(c, delta)
  <1>1. /\ d.in_time = c.in_time + delta /\ d.out_time = c.out_time + delta
        /\ d.source_in = c.source_in /\ d.source_out = c.source_out /\ d.speed = c.speed
    BY DEF Fine, IsClip, HasFields, Fields, Moved
  <1> HIDE DEF d
  <1>2. Length(d) = Length(c) /\ SourceLength(d) = SourceLength(c)
    BY <1>1 DEF Length, SourceLength, Fine, IsClip
  <1>3. SpeedMatches(d)
    BY <1>1, <1>2, SameMatch
  <1> QED
    BY <1>3 DEF d

\* A new clip's source range and speed are those it was asked for with.
LEMMA NewClipMatches ==
  ASSUME NEW k, NEW d, SpeedMatches(d)
  PROVE  SpeedMatches(NewClip(k, d))
  <1> DEFINE e == NewClip(k, d)
  <1>1. /\ e.in_time = d.in_time /\ e.out_time = d.out_time /\ e.speed = d.speed
        /\ e.source_in = d.source_in /\ e.source_out = d.source_out
    BY DEF NewClip
  <1> HIDE DEF e
  <1>2. SpeedMatches(e)
    BY <1>1 DEF SpeedMatches, Length, SourceLength
  <1> QED
    BY <1>2 DEF e

LEMMA PlacedMatches ==
  ASSUME NEW d \in Descriptors, SpeedMatches(d), NEW at \in Int
  PROVE  SpeedMatches(At(d, at))
  <1> DEFINE e == At(d, at)
  <1>1. /\ e.in_time = at /\ e.out_time = at + Length(d) /\ e.speed = d.speed
        /\ e.source_in = d.source_in /\ e.source_out = d.source_out
    BY AtFields
  <1>2. Length(d) \in Int
    BY DescriptorFields
  <1> HIDE DEF e
  <1>3. SpeedMatches(e)
    BY <1>1, <1>2 DEF SpeedMatches, Length, SourceLength
  <1> QED
    BY <1>3 DEF e

LEMMA SlippedMatches ==
  ASSUME NEW c, Fine(c, "any"), SpeedMatches(c), NEW delta \in Int
  PROVE  SpeedMatches(Slipped(c, delta))
  <1> DEFINE start == Max({c.source_in + delta, 0})
             d == Slipped(c, delta)
  <1>1. start \in Int
    <2>1. c.source_in + delta \in Int
      BY DEF Fine
    <2>2. start = IF c.source_in + delta >= 0 THEN c.source_in + delta ELSE 0
      BY <2>1 DEF Max
    <2> QED
      BY <2>1, <2>2
  <1>2. d = [c EXCEPT !.source_in = start, !.source_out = start + SourceLength(c)]
    BY DEF Slipped
  <1> HIDE DEF start, d
  <1>3. /\ d.in_time = c.in_time /\ d.out_time = c.out_time /\ d.speed = c.speed
        /\ d.source_in = start /\ d.source_out = start + SourceLength(c)
    BY <1>2 DEF Fine, IsClip, HasFields, Fields
  <1>4. Length(d) = Length(c) /\ SourceLength(d) = SourceLength(c)
    BY <1>1, <1>3, FineLength DEF Length, SourceLength
  <1>5. SpeedMatches(d)
    BY <1>3, <1>4, SameMatch
  <1> QED
    BY <1>5 DEF d

\* A stretch changes the speed by as much as the length.
LEMMA StretchedMatches ==
  ASSUME NEW c, Fine(c, "any"), SpeedMatches(c), NEW len \in Nat \ {0},
         (c.speed * Length(c)) % len = 0
  PROVE  SpeedMatches(Stretched(c, len))
  <1> DEFINE d == Stretched(c, len)
             p == c.speed * Length(c)
             q == p \div len
  <1>1. /\ d.in_time = c.in_time /\ d.out_time = c.in_time + len
        /\ d.source_in = c.source_in /\ d.source_out = c.source_out /\ d.speed = q
    BY DEF Fine, IsClip, HasFields, Fields, Stretched
  <1>2. p \in Int /\ p % len = 0
    BY FineLength DEF Fine
  <1> HIDE DEF d, p
  <1>3. p = len * q /\ q \in Int
    BY <1>2, ExactQuotient
  <1> HIDE DEF q
  <1>4. Length(d) = len /\ SourceLength(d) = SourceLength(c)
    BY <1>1 DEF Length, SourceLength, Fine, IsClip
  <1>5. SourceLength(c) * SpeedUnit = p
    BY DEF p, SpeedMatches
  <1>6. len * q = q * len
    BY <1>3
  <1>7. SpeedMatches(d)
    BY <1>1, <1>3, <1>4, <1>5, <1>6 DEF SpeedMatches
  <1> QED
    BY <1>7 DEF d

LEMMA MovedToMatches ==
  ASSUME NEW c, Fine(c, "any"), SpeedMatches(c), NEW k, NEW from \in Int
  PROVE  SpeedMatches(MovedTo(c, k, from))
  <1> DEFINE d == MovedTo(c, k, from)
  <1>1. /\ d.in_time = from /\ d.out_time = from + Length(c)
        /\ d.source_in = c.source_in /\ d.source_out = c.source_out /\ d.speed = c.speed
    BY DEF Fine, IsClip, HasFields, Fields, MovedTo
  <1> HIDE DEF d
  <1>2. Length(d) = Length(c) /\ SourceLength(d) = SourceLength(c)
    BY <1>1, FineLength DEF Length, SourceLength
  <1>3. SpeedMatches(d)
    BY <1>1, <1>2, SameMatch
  <1> QED
    BY <1>3 DEF d

LEMMA DuplicateMatches ==
  ASSUME NEW c, Fine(c, "any"), SpeedMatches(c)
  PROVE  SpeedMatches(Duplicate(c))
  <1> DEFINE m == Moved(c, Length(c))
             d == Duplicate(c)
  <1>1. Fine(m, "any") /\ SpeedMatches(m)
    BY FineLength, MovedIsHeir, MovedMatches DEF Heir
  <1>2. d = [m EXCEPT !.id = next_clip_id]
    BY DEF Duplicate
  <1> HIDE DEF m, d
  <1>3. /\ d.in_time = m.in_time /\ d.out_time = m.out_time /\ d.speed = m.speed
        /\ d.source_in = m.source_in /\ d.source_out = m.source_out
    BY <1>1, <1>2 DEF Fine, IsClip, HasFields, Fields
  <1>4. SpeedMatches(d)
    BY <1>1, <1>3 DEF SpeedMatches, Length, SourceLength
  <1> QED
    BY <1>4 DEF d

\* What an exact part of the source is worth in time: a ticks of a clip take
\* a * SourceLength(c) / Length(c) of its source.
LEMMA PartMatches ==
  ASSUME NEW c, Forward(c), SpeedMatches(c), NEW a \in Int,
         (a * SourceLength(c)) % Length(c) = 0
  PROVE  LET w == (a * SourceLength(c)) \div Length(c)
         IN  /\ w \in Int
             /\ w * SpeedUnit = c.speed * a
             /\ (SourceLength(c) - w) * SpeedUnit = c.speed * (Length(c) - a)
  <1> DEFINE n == Length(c)
             s == SourceLength(c)
             w == (a * s) \div n
  <1>1. n \in Nat \ {0} /\ s \in Int /\ c.speed \in Int /\ SpeedUnit \in Int
    BY ForwardLength, TimelineAssumption DEF Forward, Fine
  <1>2. a * s \in Int /\ (a * s) % n = 0 /\ s * SpeedUnit = c.speed * n
    BY <1>1 DEF SpeedMatches
  <1> HIDE DEF n, s
  <1>3. a * s = n * w /\ w \in Int
    BY <1>1, <1>2, ExactQuotient
  <1> HIDE DEF w
  <1> DEFINE v == c.speed
  <1>4. w * SpeedUnit = a * c.speed
    <2>1. v \in Int /\ s * SpeedUnit = v * n
      BY <1>1, <1>2
    <2> HIDE DEF v
    <2>2. w * SpeedUnit = a * v
      BY <1>1, <1>3, <2>1, CutInProportion
    <2> QED
      BY <2>2 DEF v
  <1>5. w * SpeedUnit = c.speed * a
    BY <1>1, <1>4
  <1>6. (s - w) * SpeedUnit = s * SpeedUnit - w * SpeedUnit
    BY <1>1, <1>3
  <1>7. c.speed * (n - a) = c.speed * n - c.speed * a
    BY <1>1
  <1>8. (s - w) * SpeedUnit = c.speed * (n - a)
    BY <1>2, <1>5, <1>6, <1>7
  <1>9. w \in Int /\ w * SpeedUnit = c.speed * a /\ (s - w) * SpeedUnit = c.speed * (n - a)
    BY <1>3, <1>5, <1>8
  <1> QED
    BY <1>9 DEF n, s, w

LEMMA HalvesMatch ==
  ASSUME NEW c, Forward(c), SpeedMatches(c), NEW t \in Int, CutsEvenly(c, t)
  PROVE  SpeedMatches(LeftHalf(c, t)) /\ SpeedMatches(RightHalf(c, t))
  <1> DEFINE l == LeftHalf(c, t)
             r == RightHalf(c, t)
             a == t - c.in_time
             w == (a * SourceLength(c)) \div Length(c)
  <1>1. /\ l.in_time = c.in_time /\ l.out_time = t /\ l.speed = c.speed
        /\ l.source_in = c.source_in /\ l.source_out = c.source_in + w
        /\ r.in_time = t /\ r.out_time = c.out_time /\ r.speed = c.speed
        /\ r.source_in = c.source_in + w /\ r.source_out = c.source_out
    BY DEF Forward, Fine, IsClip, HasFields, Fields, LeftHalf, RightHalf, SourceAt
  <1>2. a \in Int /\ (a * SourceLength(c)) % Length(c) = 0
    BY ForwardTimes DEF CutsEvenly
  <1>3. /\ w \in Int /\ w * SpeedUnit = c.speed * a
        /\ (SourceLength(c) - w) * SpeedUnit = c.speed * (Length(c) - a)
    <2> DEFINE b == a
    <2>1. b \in Int /\ (b * SourceLength(c)) % Length(c) = 0
      BY <1>2
    <2> HIDE DEF b
    <2>2. LET v == (b * SourceLength(c)) \div Length(c)
          IN  /\ v \in Int /\ v * SpeedUnit = c.speed * b
              /\ (SourceLength(c) - v) * SpeedUnit = c.speed * (Length(c) - b)
      BY <2>1, PartMatches
    <2> QED
      BY <2>2 DEF b
  <1> HIDE DEF l, r, w
  <1>4. SourceLength(l) = w /\ Length(l) = a
    BY <1>1, <1>3, ForwardTimes DEF SourceLength, Length, Forward, Fine, IsClip
  <1>5. SourceLength(r) = SourceLength(c) - w /\ Length(r) = Length(c) - a
    BY <1>1, <1>3, ForwardTimes DEF SourceLength, Length, Forward, Fine, IsClip
  <1> HIDE DEF a
  <1>6. SpeedMatches(l) /\ SpeedMatches(r)
    BY <1>1, <1>3, <1>4, <1>5 DEF SpeedMatches
  <1> QED
    BY <1>6 DEF l, r

\* A roll where the next clip starts as c ends: what the one gains the other loses.
LEMMA RolledMatch ==
  ASSUME NEW c, Forward(c), SpeedMatches(c), NEW n, Forward(n), SpeedMatches(n),
         NEW delta \in Int, CanRoll(c, n, delta), n.in_time = c.out_time
  PROVE  SpeedMatches(Rolled(c, delta)) /\ SpeedMatches(RolledNext(c, n, delta))
  <1> DEFINE d == Rolled(c, delta)
             e == RolledNext(c, n, delta)
             t == c.out_time + delta
             q == (delta * SourceLength(n)) \div Length(n)
  <1>1. t \in Int /\ CutsEvenly(c, t)
    BY ForwardTimes DEF CanRoll
  <1>2. /\ d.in_time = c.in_time /\ d.out_time = t /\ d.speed = c.speed
        /\ d.source_in = c.source_in /\ d.source_out = SourceAt(c, t)
        /\ e.in_time = t /\ e.out_time = n.out_time /\ e.speed = n.speed
        /\ e.source_in = n.source_in + q /\ e.source_out = n.source_out
    BY DEF Forward, Fine, IsClip, HasFields, Fields, Rolled, RolledNext
  <1>3. SpeedMatches(d)
    <2> DEFINE l == LeftHalf(c, t)
    <2> HIDE DEF t, d
    <2>1. SpeedMatches(l)
      BY <1>1, HalvesMatch
    <2>2. /\ l.in_time = c.in_time /\ l.out_time = t /\ l.speed = c.speed
          /\ l.source_in = c.source_in /\ l.source_out = SourceAt(c, t)
      BY DEF Forward, Fine, IsClip, HasFields, Fields, LeftHalf
    <2> HIDE DEF l
    <2> QED
      BY <1>2, <2>1, <2>2 DEF SpeedMatches, Length, SourceLength
  <1>4. (delta * SourceLength(n)) % Length(n) = 0
    BY DEF CanRoll
  <1>5. q \in Int /\ (SourceLength(n) - q) * SpeedUnit = n.speed * (Length(n) - delta)
    BY <1>4, PartMatches
  <1> HIDE DEF e, q
  <1>6. SourceLength(e) = SourceLength(n) - q /\ Length(e) = Length(n) - delta
    BY <1>2, <1>5, ForwardTimes DEF SourceLength, Length, Forward, Fine, IsClip
  <1>7. SpeedMatches(e)
    BY <1>2, <1>5, <1>6 DEF SpeedMatches
  <1> QED
    BY <1>3, <1>7 DEF d, e

LEMMA FoundMatches ==
  ASSUME FInv, ~ renumbered, AllMatched(tracks), NEW id, NEW c \in find_clip(id)
  PROVE  /\ c.track_index \in DOMAIN tracks /\ c \in tracks[c.track_index]
         /\ HomeOf(c) = c.track_index
         /\ Fine(c, "any") /\ SpeedMatches(c)
  <1>1. /\ c.track_index \in DOMAIN tracks /\ c \in tracks[c.track_index]
        /\ HomeOf(c) = c.track_index
    BY Found DEF FInv
  <1> QED
    BY <1>1, TrackIsFine DEF AllMatched, Matched

\* A clip becomes one that matches.
LEMMA BecomesMatched ==
  ASSUME AllMatched(tracks), NEW c, NEW d, SpeedMatches(d)
  PROVE  AllMatched(Becomes(c, d))
  <1> DEFINE k == HomeOf(c)
             S == (tracks[k] \ {c}) \cup {d}
  <1>1. k \in DOMAIN tracks => Matched(S)
    BY DEF AllMatched, Matched
  <1>2. Becomes(c, d) = [tracks EXCEPT ![k] = S]
    BY DEF Becomes
  <1> HIDE DEF k, S
  <1>3. AllMatched([tracks EXCEPT ![k] = S])
    BY <1>1, MatchedExcept
  <1> QED
    BY <1>2, <1>3

\* An edit of one clip keeps what it plays at its speed, but for a trim to ranges
\* that do not match it.
LEMMA ClipEditsMatch ==
  ASSUME FInv, ~ renumbered, AllMatched(tracks), NEW id,
         \/ remove_clip(id)
         \/ \E d \in Descriptors :
              trim_clip(id, d) /\ \A c \in find_clip(id) : SpeedMatches(Trimmed(c, d))
         \/ \E delta \in Int : slip_edit(id, delta)
         \/ \E len \in Nat \ {0} : rate_stretch(id, len)
  PROVE  AllMatched(tracks')
  <1>1. CASE remove_clip(id)
    <2>1. PICK c \in find_clip(id) : tracks' = [tracks EXCEPT ![HomeOf(c)] = @ \ {c}]
      BY <1>1 DEF remove_clip
    <2> QED
      BY <2>1 DEF AllMatched, Matched
  <1>2. CASE \E d \in Descriptors :
               trim_clip(id, d) /\ \A c \in find_clip(id) : SpeedMatches(Trimmed(c, d))
    <2>1. PICK d \in Descriptors :
            trim_clip(id, d) /\ \A c \in find_clip(id) : SpeedMatches(Trimmed(c, d))
      BY <1>2
    <2>2. PICK c \in find_clip(id) : tracks' = Becomes(c, Trimmed(c, d))
      BY <2>1 DEF trim_clip
    <2> QED
      BY <2>1, <2>2, BecomesMatched
  <1>3. CASE \E delta \in Int : slip_edit(id, delta)
    <2>1. PICK delta \in Int : slip_edit(id, delta)
      BY <1>3
    <2>2. PICK c \in find_clip(id) : tracks' = Becomes(c, Slipped(c, delta))
      BY <2>1 DEF slip_edit, Slipped
    <2>3. SpeedMatches(Slipped(c, delta))
      BY FoundMatches, SlippedMatches
    <2> QED
      BY <2>2, <2>3, BecomesMatched
  <1>4. CASE \E len \in Nat \ {0} : rate_stretch(id, len)
    <2>1. PICK len \in Nat \ {0} : rate_stretch(id, len)
      BY <1>4
    <2>2. PICK c \in find_clip(id) :
            /\ (c.speed * Length(c)) % len = 0
            /\ tracks' = Becomes(c, Stretched(c, len))
      BY <2>1 DEF rate_stretch, Stretched
    <2>3. SpeedMatches(Stretched(c, len))
      BY <2>2, FoundMatches, StretchedMatches
    <2> QED
      BY <2>2, <2>3, BecomesMatched
  <1> QED
    BY <1>1, <1>2, <1>3, <1>4

\* A clip is cut, copied or moved.
LEMMA SplitMatches ==
  ASSUME FInv, ~ renumbered, AllMatched(tracks), NEW id, NEW t \in Int, split_clip(id, t)
  PROVE  AllMatched(tracks')
  <1>1. PICK c \in find_clip(id) :
          /\ CanSplit(c, t)
          /\ \/ UsesBadIndex(c)
             \/ tracks' = [Becomes(c, LeftHalf(c, t))
                             EXCEPT ![c.track_index] = @ \cup {RightHalf(c, t)}]
    BY DEF split_clip
  <1> DEFINE k == c.track_index
             T == Becomes(c, LeftHalf(c, t))
             S == T[k] \cup {RightHalf(c, t)}
  <1>2. tracks' = [T EXCEPT ![k] = S]
    BY <1>1, FoundMatches DEF UsesBadIndex
  <1>3. SpeedMatches(LeftHalf(c, t)) /\ SpeedMatches(RightHalf(c, t))
    <2>1. Fine(c, "any") /\ SpeedMatches(c)
      BY FoundMatches
    <2>2. c.in_time < c.out_time
      BY <1>1, <2>1 DEF CanSplit, Fine, IsClip
    <2> QED
      BY <1>1, <2>1, <2>2, LastingIsForward, HalvesMatch DEF CanSplit
  <1>4. AllMatched(T)
    BY <1>3, BecomesMatched
  <1> HIDE DEF T
  <1>5. k \in DOMAIN T => Matched(S)
    BY <1>3, <1>4 DEF AllMatched, Matched
  <1> HIDE DEF S, k
  <1>6. AllMatched([T EXCEPT ![k] = S])
    BY <1>4, <1>5, MatchedExcept
  <1> QED
    BY <1>2, <1>6

LEMMA DuplicationMatches ==
  ASSUME FInv, ~ renumbered, AllMatched(tracks), NEW id, duplicate_clip(id)
  PROVE  AllMatched(tracks')
  <1>1. PICK c \in find_clip(id) :
          \/ UsesBadIndex(c)
          \/ tracks' = [tracks EXCEPT ![c.track_index] = @ \cup {Duplicate(c)}]
    BY DEF duplicate_clip, Duplicate
  <1> DEFINE k == c.track_index
             S == tracks[k] \cup {Duplicate(c)}
  <1>2. k \in DOMAIN tracks /\ tracks' = [tracks EXCEPT ![k] = S]
    BY <1>1, FoundMatches DEF UsesBadIndex
  <1>3. Matched(S)
    BY <1>2, FoundMatches, DuplicateMatches DEF AllMatched, Matched
  <1> HIDE DEF S, k
  <1>4. AllMatched([tracks EXCEPT ![k] = S])
    BY <1>3, MatchedExcept
  <1> QED
    BY <1>2, <1>4

LEMMA MoveMatches ==
  ASSUME FInv, ~ renumbered, AllMatched(tracks), NEW id, NEW k, NEW from \in Int,
         move_clip(id, k, from)
  PROVE  AllMatched(tracks')
  <1> DEFINE erased(c) == [tracks EXCEPT ![c.track_index] = {x \in @ : x.id # id}]
  <1>1. PICK c \in find_clip(id) :
          \/ UsesBadIndex(c)
          \/ tracks' = [erased(c) EXCEPT ![k] = @ \cup {MovedTo(c, k, from)}]
    BY DEF move_clip, MovedTo
  <1> DEFINE T == erased(c)
             S == T[k] \cup {MovedTo(c, k, from)}
  <1>2. tracks' = [T EXCEPT ![k] = S]
    BY <1>1, FoundMatches DEF UsesBadIndex
  <1>3. AllMatched(T)
    BY DEF AllMatched, Matched
  <1> HIDE DEF T
  <1>4. k \in DOMAIN T => Matched(S)
    BY <1>3, FoundMatches, MovedToMatches DEF AllMatched, Matched
  <1> HIDE DEF S
  <1>5. AllMatched([T EXCEPT ![k] = S])
    BY <1>3, <1>4, MatchedExcept
  <1> QED
    BY <1>2, <1>5

\* Clips of a track are removed or moved, and a new one is made.
LEMMA TrackEditsMatch ==
  ASSUME FInv, AllMatched(tracks), NEW k,
         \/ \E d \in Descriptors :
              /\ SpeedMatches(d)
              /\ \/ add_clip(k, d)
                 \/ \E at \in Int : insert_edit(k, at, d) \/ overwrite_edit(k, at, d)
         \/ \E from, to \in Int : ripple_delete(k, from, to) \/ ripple_delete_Refused(k, from, to)
  PROVE  AllMatched(tracks')
  <1>1. k \in DOMAIN tracks
    BY DEF add_clip, insert_edit, overwrite_edit, ripple_delete, ripple_delete_Refused
  <1>2. \A c \in tracks[k] : Fine(c, "any") /\ SpeedMatches(c)
    BY <1>1, TrackIsFine DEF AllMatched, Matched
  <1> SUFFICES \E S : tracks' = [tracks EXCEPT ![k] = S] /\ Matched(S)
    <2> SUFFICES ASSUME NEW S, tracks' = [tracks EXCEPT ![k] = S], Matched(S)
                 PROVE  AllMatched(tracks')
      OBVIOUS
    <2>1. AllMatched([tracks EXCEPT ![k] = S])
      BY MatchedExcept
    <2> QED
      BY <2>1
  <1>3. CASE \E d \in Descriptors : SpeedMatches(d) /\ add_clip(k, d)
    <2>1. PICK d \in Descriptors : SpeedMatches(d) /\ add_clip(k, d)
      BY <1>3
    <2>2. SpeedMatches(NewClip(k, d))
      BY <2>1, NewClipMatches
    <2> QED
      BY <1>2, <2>1, <2>2 DEF add_clip, Matched
  <1>4. CASE \E d \in Descriptors, at \in Int : SpeedMatches(d) /\ insert_edit(k, at, d)
    <2>1. PICK d \in Descriptors, at \in Int : SpeedMatches(d) /\ insert_edit(k, at, d)
      BY <1>4
    <2>2. SpeedMatches(NewClip(k, At(d, at)))
      BY <2>1, PlacedMatches, NewClipMatches
    <2> DEFINE len == Length(d)
               new == NewClip(k, At(d, at))
               S == {Pushed(c, at, len) : c \in tracks[k]} \cup {new}
    <2>3. len \in Int
      BY DescriptorFields
    <2>4. tracks' = [tracks EXCEPT ![k] = S]
      BY <2>1 DEF insert_edit
    <2> HIDE DEF len, new
    <2>5. \A c \in tracks[k] : SpeedMatches(Pushed(c, at, len))
      BY <1>2, <2>3, MovedMatches DEF Pushed
    <2>6. Matched(S)
      BY <2>2, <2>5 DEF Matched, new
    <2> HIDE DEF S
    <2> QED
      BY <2>4, <2>6
  <1>5. CASE \E d \in Descriptors, at \in Int : SpeedMatches(d) /\ overwrite_edit(k, at, d)
    <2>1. PICK d \in Descriptors, at \in Int : SpeedMatches(d) /\ overwrite_edit(k, at, d)
      BY <1>5
    <2>2. SpeedMatches(NewClip(k, At(d, at)))
      BY <2>1, PlacedMatches, NewClipMatches
    <2> QED
      BY <1>2, <2>1, <2>2 DEF overwrite_edit, Matched
  <1>6. CASE \E from, to \in Int : ripple_delete(k, from, to) \/ ripple_delete_Refused(k, from, to)
    <2>1. PICK from, to \in Int : ripple_delete(k, from, to) \/ ripple_delete_Refused(k, from, to)
      BY <1>6
    <2> DEFINE d(c) == Rippled(c, from, to)
               e(c) == [d(c) EXCEPT !.has_media = FALSE]
    <2>2. ASSUME NEW c \in tracks[k]
          PROVE  SpeedMatches(d(c)) /\ Fine(d(c), "any")
      <3>1. -(to - from) \in Int
        OBVIOUS
      <3> DEFINE n == -(to - from)
      <3>2. d(c) = (IF c.out_time > to THEN Moved(c, n) ELSE c) /\ n \in Int
        BY <3>1 DEF Rippled
      <3> HIDE DEF n, d
      <3> QED
        BY <1>2, <3>2, MovedMatches, MovedIsHeir DEF Heir
    <2> HIDE DEF d
    <2>3. ASSUME NEW c \in tracks[k]
          PROVE  SpeedMatches(e(c))
      <3>1. /\ e(c).in_time = d(c).in_time /\ e(c).out_time = d(c).out_time
            /\ e(c).source_in = d(c).source_in /\ e(c).source_out = d(c).source_out
            /\ e(c).speed = d(c).speed
        BY <2>2 DEF Fine, IsClip, HasFields, Fields
      <3> HIDE DEF e
      <3> QED
        BY <2>2, <3>1 DEF SpeedMatches, Length, SourceLength
    <2> DEFINE S == {d(c) : c \in {x \in tracks[k] : Survives(x, from, to)}}
               U == {e(c) : c \in tracks[k]}
    <2>4. tracks' = [tracks EXCEPT ![k] = S] \/ tracks' = [tracks EXCEPT ![k] = U]
      BY <2>1 DEF ripple_delete, ripple_delete_Refused, d
    <2> HIDE DEF e
    <2>5. Matched(S) /\ Matched(U)
      BY <2>2, <2>3 DEF Matched
    <2> HIDE DEF S, U
    <2> QED
      BY <2>4, <2>5
  <1> QED
    BY <1>3, <1>4, <1>5, <1>6

LEMMA TracksMatch ==
  ASSUME FInv, AllMatched(tracks),
         \/ add_track
         \/ \E k \in DOMAIN tracks : remove_track(k)
         \/ \E order \in Orders : reorder_tracks(order)
  PROVE  AllMatched(tracks')
  <1>0. TrackCount \in Nat /\ DOMAIN tracks = 0 .. TrackCount - 1
    BY CountTracks DEF FInv, TInv
  <1>1. CASE add_track
    BY <1>0, <1>1 DEF add_track, AllMatched, Matched
  <1>2. CASE \E k \in DOMAIN tracks : remove_track(k)
    <2>1. PICK k \in DOMAIN tracks : remove_track(k)
      BY <1>2
    <2>2. \A l \in DOMAIN tracks' : \E m \in DOMAIN tracks : tracks'[l] = tracks[m]
      <3> SUFFICES ASSUME NEW l \in 0 .. TrackCount - 2
                   PROVE  \E m \in DOMAIN tracks : tracks'[l] = tracks[m]
        BY <2>1 DEF remove_track
      <3>1. tracks'[l] = IF l < k THEN tracks[l] ELSE tracks[l + 1]
        BY <2>1 DEF remove_track
      <3>2. l \in DOMAIN tracks /\ l + 1 \in DOMAIN tracks
        BY <1>0
      <3> QED
        BY <3>1, <3>2
    <2> QED
      BY <2>2 DEF AllMatched
  <1>3. CASE \E order \in Orders : reorder_tracks(order)
    <2> DEFINE at(c, k) == [c EXCEPT !.track_index = k]
    <2>1. PICK order \in Orders : reorder_tracks(order)
      BY <1>3
    <2>2. /\ DOMAIN tracks' = DOMAIN tracks
          /\ \A k \in DOMAIN tracks : tracks'[k] = {at(c, k) : c \in tracks[order[k]]}
          /\ \A k \in DOMAIN tracks : order[k] \in DOMAIN tracks
      BY <2>1 DEF reorder_tracks, Reordered, Orders
    <2>3. ASSUME NEW c, Fine(c, "any"), SpeedMatches(c), NEW k
          PROVE  SpeedMatches(at(c, k))
      <3>1. /\ at(c, k).in_time = c.in_time /\ at(c, k).out_time = c.out_time
            /\ at(c, k).source_in = c.source_in /\ at(c, k).source_out = c.source_out
            /\ at(c, k).speed = c.speed
        BY <2>3 DEF Fine, IsClip, HasFields, Fields
      <3> HIDE DEF at
      <3> QED
        BY <2>3, <3>1 DEF SpeedMatches, Length, SourceLength
    <2> HIDE DEF at
    <2>4. \A k \in DOMAIN tracks : \A c \in tracks[k] : Fine(c, "any") /\ SpeedMatches(c)
      BY TrackIsFine DEF AllMatched, Matched
    <2> QED
      BY <2>2, <2>3, <2>4 DEF AllMatched, Matched
  <1> QED
    BY <1>1, <1>2, <1>3

\* A roll of a cut, with no gap to close.
LEMMA RollMatches ==
  ASSUME FInv, ~ renumbered, AllMatched(tracks), NEW id, NEW delta \in Int,
         roll_edit(id, delta),
         \A c \in find_clip(id) : \E d \in tracks[c.track_index] : d.in_time = c.out_time
  PROVE  AllMatched(tracks')
  <1>1. PICK c \in find_clip(id) :
          \/ UsesBadIndex(c)
          \/ \E n \in NextClips(tracks[c.track_index], c) :
               /\ CanRoll(c, n, delta)
               /\ tracks' = [Becomes(c, Rolled(c, delta)) EXCEPT ![c.track_index] =
                               (@ \ {n}) \cup {RolledNext(c, n, delta)}]
    BY DEF roll_edit
  <1> DEFINE k == c.track_index
             d == Rolled(c, delta)
             T == Becomes(c, d)
  <1>2. k \in DOMAIN tracks /\ Fine(c, "any") /\ SpeedMatches(c)
    BY FoundMatches
  <1>3. PICK n \in NextClips(tracks[k], c) :
          /\ CanRoll(c, n, delta)
          /\ tracks' = [T EXCEPT ![k] = (@ \ {n}) \cup {RolledNext(c, n, delta)}]
    BY <1>1, <1>2 DEF UsesBadIndex
  <1> DEFINE e == RolledNext(c, n, delta)
             S == (T[k] \ {n}) \cup {e}
  <1>4. n \in tracks[k] /\ Fine(n, "any") /\ SpeedMatches(n)
    BY <1>2, TrackIsFine DEF NextClips, AllMatched, Matched
  <1>5. n.in_time = c.out_time
    <2>1. PICK x \in tracks[k] : x.in_time = c.out_time
      OBVIOUS
    <2>2. c.out_time \in Int /\ n.in_time \in Int /\ x.in_time \in Int
      BY <1>2, <1>4, <2>1 DEF Fine, IsClip
    <2>3. n.in_time >= c.out_time /\ n.in_time <= x.in_time
      BY <1>2, <2>1, <2>2 DEF NextClips
    <2> QED
      BY <2>1, <2>2, <2>3
  <1>6. SpeedMatches(d) /\ SpeedMatches(e)
    <2>1. Forward(c) /\ Forward(n)
      BY <1>2, <1>3, <1>4, LastingIsForward DEF CanRoll
    <2> QED
      BY <1>2, <1>3, <1>4, <1>5, <2>1, RolledMatch
  <1>7. tracks' = [T EXCEPT ![k] = S]
    BY <1>3
  <1> HIDE DEF d, e
  <1>8. AllMatched(T)
    BY <1>6, BecomesMatched
  <1> HIDE DEF T
  <1>9. k \in DOMAIN T => Matched(S)
    BY <1>6, <1>8 DEF AllMatched, Matched
  <1> HIDE DEF S, k
  <1>10. AllMatched([T EXCEPT ![k] = S])
    BY <1>8, <1>9, MatchedExcept
  <1> QED
    BY <1>7, <1>10

\* The edits that part a clip's source from its speed: ranges a caller gives that
\* do not match it, a slide, and a roll that closes a gap.
Parts ==
    \/ \E d \in Descriptors :
        /\ ~ SpeedMatches(d)
        /\ \/ \E k \in DOMAIN tracks : add_clip(k, d)
           \/ \E k \in DOMAIN tracks, at \in Times :
                insert_edit(k, at, d) \/ overwrite_edit(k, at, d)
    \/ \E id \in Ids, d \in Descriptors :
        /\ \E c \in find_clip(id) : ~ SpeedMatches(Trimmed(c, d))
        /\ trim_clip(id, d)
    \/ \E id \in Ids, delta \in Deltas : slide_edit(id, delta)
    \/ \E id \in Ids, delta \in Deltas :
        /\ \E c \in find_clip(id) :
            \A d \in tracks[c.track_index] : d.in_time # c.out_time
        /\ roll_edit(id, delta)

LEMMA OtherEditsMatch ==
  ASSUME FInv, ~ renumbered, AllMatched(tracks), Next, ~ Parts
  PROVE  AllMatched(tracks')
  <1>1. CASE Place
    <2>1. CASE \E k \in DOMAIN tracks, d \in Descriptors : add_clip(k, d)
      BY <2>1, TrackEditsMatch DEF Parts
    <2>2. CASE \E id \in Ids, d \in Descriptors : trim_clip(id, d)
      <3>1. PICK id \in Ids, d \in Descriptors : trim_clip(id, d)
        BY <2>2
      <3>2. \A c \in find_clip(id) : SpeedMatches(Trimmed(c, d))
        BY <3>1 DEF Parts
      <3> QED
        BY <3>1, <3>2, ClipEditsMatch
    <2>3. CASE \E id \in Ids, k \in DOMAIN tracks, from \in Times : move_clip(id, k, from)
      BY <2>3, TimesAreInts, MoveMatches
    <2>4. CASE \E id \in Ids, len \in Lengths : rate_stretch(id, len)
      BY <2>4, TimesAreNats, ClipEditsMatch
    <2>5. CASE \E id \in Ids : duplicate_clip(id)
      BY <2>5, DuplicationMatches
    <2> QED
      BY <1>1, <2>1, <2>2, <2>3, <2>4, <2>5 DEF Place
  <1>2. CASE InsertEdit
    BY <1>2, TimesAreInts, TrackEditsMatch DEF InsertEdit, Parts
  <1>3. CASE Fit
    <2>1. CASE \/ add_track
               \/ \E k \in DOMAIN tracks : remove_track(k)
               \/ \E order \in Orders : reorder_tracks(order)
      BY <2>1, TracksMatch
    <2>2. CASE \E id \in Ids : remove_clip(id)
      BY <2>2, ClipEditsMatch
    <2>3. CASE \E id \in Ids, t \in Times : split_clip(id, t)
      BY <2>3, TimesAreInts, SplitMatches
    <2>4. CASE \E k \in DOMAIN tracks, from, to \in Times :
                 ripple_delete(k, from, to) \/ ripple_delete_Refused(k, from, to)
      BY <2>4, TimesAreInts, TrackEditsMatch
    <2>5. CASE OverwriteEdit
      BY <2>5, TimesAreInts, TrackEditsMatch DEF OverwriteEdit, Parts
    <2>6. CASE \E id \in Ids, delta \in Deltas : roll_edit(id, delta)
      <3>1. PICK id \in Ids, delta \in Deltas : roll_edit(id, delta)
        BY <2>6
      <3>2. \A c \in find_clip(id) : \E d \in tracks[c.track_index] : d.in_time = c.out_time
        BY <3>1 DEF Parts
      <3>3. delta \in Int
        BY TimesAreInts
      <3> QED
        BY <3>1, <3>2, <3>3, RollMatches
    <2>7. CASE \E id \in Ids, delta \in Deltas : slip_edit(id, delta)
      BY <2>7, TimesAreInts, ClipEditsMatch
    <2>8. CASE \E id \in Ids, delta \in Deltas : slide_edit(id, delta)
      BY <2>8 DEF Parts
    <2> QED
      BY <1>3, <2>1, <2>2, <2>3, <2>4, <2>5, <2>6, <2>7, <2>8 DEF Fit
  <1> QED
    BY <1>1, <1>2, <1>3 DEF Next

\* The source a clip plays is what its length and speed take, through every edit
\* that is given ranges that do, but a slide and a roll that closes a gap.
THEOREM SpeedsMatch == Spec => SourceRangeFollowsSpeed
  <1>1. FInv /\ [Next]_vars =>
          [~ renumbered /\ (\A c \in Clips : SpeedMatches(c)) =>
            (\A c \in Clips' : SpeedMatches(c)) \/ Parts]_vars
    <2> SUFFICES ASSUME FInv, Next, ~ renumbered, \A c \in Clips : SpeedMatches(c), ~ Parts
                 PROVE  \A c \in Clips' : SpeedMatches(c)
      OBVIOUS
    <2>1. AllMatched(tracks)
      BY MatchedClips
    <2>2. AllMatched(tracks')
      BY <2>1, OtherEditsMatch
    <2> QED
      BY <2>2, MatchedClips
  <1>2. [][~ renumbered /\ (\A c \in Clips : SpeedMatches(c)) =>
            (\A c \in Clips' : SpeedMatches(c)) \/ Parts]_vars
          => SourceRangeFollowsSpeed
    BY PTL DEF SourceRangeFollowsSpeed, Parts
  <1> QED
    BY <1>1, <1>2, FInvAlways, PTL DEF Spec

-----------------------------------------------------------------------------
(* The audio mixer: the gain of a clip never dips between two louder times, *)
(* whatever its fades; a new clip is heard with the default settings; what  *)
(* an edit leaves alone, and what a split cuts, is heard the same.          *)

\* An edit but these two leaves as many tracks.
LEMMA EditKeepsTracks ==
  ASSUME Next, ~ add_track, ~ \E k \in DOMAIN tracks : remove_track(k)
  PROVE  DOMAIN tracks' = DOMAIN tracks /\ renumbered' = renumbered
  <1>1. Place => DOMAIN tracks' = DOMAIN tracks /\ renumbered' = renumbered
    BY Zenon DEF Place, add_clip, trim_clip, move_clip, rate_stretch, duplicate_clip,
                 UsesBadIndex, Becomes
  <1>2. InsertEdit => DOMAIN tracks' = DOMAIN tracks /\ renumbered' = renumbered
    BY DEF InsertEdit, insert_edit
  <1>3. Fit => DOMAIN tracks' = DOMAIN tracks /\ renumbered' = renumbered
    BY DEF Fit, remove_clip, split_clip, ripple_delete, ripple_delete_Refused,
           OverwriteEdit, overwrite_edit, roll_edit, slip_edit, slide_edit,
           reorder_tracks, Reordered, UsesBadIndex, Becomes
  <1> QED
    BY <1>1, <1>2, <1>3 DEF Next

\* The tracks stay within their bound.
LEMMA EditKeepsIndices ==
  ASSUME Shape, DOMAIN tracks \subseteq Indices, Next
  PROVE  DOMAIN tracks' \subseteq Indices
  <1>1. TrackCount \in Nat /\ DOMAIN tracks = 0 .. TrackCount - 1 /\ MaxTracks \in Nat
    BY CountTracks, TimelineAssumption
  <1>2. CASE add_track
    BY <1>1, <1>2 DEF add_track, Indices
  <1>3. CASE \E k \in DOMAIN tracks : remove_track(k)
    <2>1. DOMAIN tracks' = 0 .. TrackCount - 2
      BY <1>3 DEF remove_track
    <2> QED
      BY <1>1, <2>1
  <1>4. CASE ~ add_track /\ ~ \E k \in DOMAIN tracks : remove_track(k)
    BY <1>4, EditKeepsTracks
  <1> QED
    BY <1>2, <1>3, <1>4

-----------------------------------------------------------------------------
(* The invariant.                                                           *)

ClipsAreKnown == Owned(tracks, Ids, "any")

\* A fade cuts FadeUnit into equal parts.
FadeLengths == {n \in Nat : n > 0 => FadeUnit % n = 0}
ClipSettings == [volume : 0 .. 2 * Unity, pan : -1 .. 1,
                 fade_in : FadeLengths, fade_out : FadeLengths]
TrackSettings == [volume : 0 .. 2 * Unity, pan : -1 .. 1, mute : BOOLEAN, solo : BOOLEAN]

ClipSettingsFit == clip_settings \in [1 .. MaxClips -> ClipSettings]
TrackSettingsFit == track_settings \in [Indices -> TrackSettings]

\* What is set for clips to come is remembered.
UnbornArePlain ==
    \A id \in 1 .. MaxClips :
        id \notin Ids \cup early => clip_settings[id] = ClipDefault

TimelineFits ==
    /\ TInv
    /\ DOMAIN tracks \subseteq Indices
    /\ next_clip_id \in 1 .. MaxClips + 1
    /\ ClipsAreKnown

AInv == TimelineFits /\ ClipSettingsFit /\ TrackSettingsFit /\ UnbornArePlain

LEMMA ClampIsWithin ==
  ASSUME NEW x \in Int, NEW low \in Int, NEW high \in Int, low <= high
  PROVE  /\ Clamp(x, low, high) \in low .. high
         /\ x \in low .. high => Clamp(x, low, high) = x
  <1> DEFINE m == Min({x, high})
  <1>1. m = IF x <= high THEN x ELSE high
    BY DEF Min
  <1> HIDE DEF m
  <1>2. m \in Int /\ m <= high
    BY <1>1
  <1>3. Max({low, m}) = IF m <= low THEN low ELSE m
    BY <1>2 DEF Max
  <1>4. Clamp(x, low, high) = Max({low, m})
    BY DEF Clamp, m
  <1> QED
    BY <1>1, <1>2, <1>3, <1>4

LEMMA PanIsWithin ==
  ASSUME NEW x \in Int
  PROVE  Clamp(x, -1, 1) \in -1 .. 1
  <1> DEFINE low == -1
             high == 1
  <1>1. low \in Int /\ high \in Int /\ low <= high
    OBVIOUS
  <1> HIDE DEF low, high
  <1>2. Clamp(x, low, high) \in low .. high
    BY <1>1, ClampIsWithin
  <1> QED
    BY <1>2 DEF low, high

LEMMA DefaultsFit == ClipDefault \in ClipSettings /\ TrackDefault \in TrackSettings
  BY MixerAssumption DEF ClipDefault, TrackDefault, ClipSettings, TrackSettings, FadeLengths

LEMMA AudioInitInv == AudioInit => AInv
  <1> SUFFICES ASSUME AudioInit PROVE AInv
    OBVIOUS
  <1>1. TInv
    BY InitInv DEF AudioInit
  <1>2. TimelineFits
    BY <1>1, TimelineAssumption DEF AudioInit, Init, TimelineFits, ClipsAreKnown, Owned, Known
  <1>3. ClipSettingsFit /\ TrackSettingsFit /\ UnbornArePlain
    BY DefaultsFit DEF AudioInit, ClipSettingsFit, TrackSettingsFit, UnbornArePlain
  <1> QED
    BY <1>2, <1>3 DEF AInv

LEMMA EditInv == AInv /\ Edit => AInv'
  <1> SUFFICES ASSUME AInv, Edit PROVE AInv'
    OBVIOUS
  <1>1. TInv' /\ Shape
    BY PlaceInv, FitInv DEF AInv, TimelineFits, TInv, Edit, Next
  <1>2. DOMAIN tracks' \subseteq Indices
    BY <1>1, EditKeepsIndices DEF AInv, TimelineFits, Edit
  <1>3. \/ next_clip_id' = next_clip_id /\ Owned(tracks', Ids, "any")
        \/ TakesId /\ Owned(tracks', Ids \cup {next_clip_id}, "any")
    <2>1. Owned(tracks, Ids, "any") /\ Next
      BY DEF AInv, TimelineFits, ClipsAreKnown, Edit
    <2>2. "any" = "lasting" => ~ AsksForNothing
      OBVIOUS
    <2> HIDE DEF AInv
    <2> QED
      BY <1>1, <2>1, <2>2, EditOwns, SMT
  <1>4. /\ next_clip_id' \in {next_clip_id, next_clip_id + 1}
        /\ next_clip_id' \in 1 .. MaxClips + 1
        /\ Owned(tracks', 1 .. next_clip_id' - 1, "any")
    <2>0. next_clip_id \in 1 .. MaxClips + 1 /\ MaxClips \in Nat
      BY TimelineAssumption DEF AInv, TimelineFits
    <2>1. CASE next_clip_id' = next_clip_id /\ Owned(tracks', Ids, "any")
      BY <2>0, <2>1 DEF Ids
    <2>2. CASE TakesId /\ Owned(tracks', Ids \cup {next_clip_id}, "any")
      <3>1. Ids \cup {next_clip_id} = 1 .. next_clip_id' - 1
        BY <2>0, <2>2 DEF Ids, TakesId
      <3>2. Owned(tracks', 1 .. next_clip_id' - 1, "any")
        BY <2>2, <3>1
      <3> QED
        BY <2>0, <2>2, <3>2 DEF TakesId
    <2> QED
      BY <1>3, <2>1, <2>2
  <1>5. TimelineFits'
    BY <1>1, <1>2, <1>4 DEF TimelineFits, ClipsAreKnown, Ids
  <1>6. UNCHANGED <<clip_settings, track_settings, early>>
    BY DEF Edit, mixerVars
  <1>7. ClipSettingsFit' /\ TrackSettingsFit'
    BY <1>6 DEF AInv, ClipSettingsFit, TrackSettingsFit
  <1>8. UnbornArePlain'
    <2>1. next_clip_id \in Int
      BY DEF AInv, TimelineFits
    <2>2. next_clip_id' = next_clip_id \/ next_clip_id' = next_clip_id + 1
      BY <1>4
    <2>3. Ids \subseteq Ids'
      BY <2>1, <2>2 DEF Ids
    <2> QED
      BY <1>6, <2>3 DEF AInv, UnbornArePlain
  <1> QED
    BY <1>5, <1>7, <1>8 DEF AInv

LEMMA SetClipInv ==
  ASSUME AInv, NEW id \in 1 .. MaxClips, SetClip(id)
  PROVE  AInv'
  <1> DEFINE old == clip_settings[id]
  <1>1. old \in ClipSettings
    BY DEF AInv, ClipSettingsFit
  <1> HIDE DEF old
  <1>2. \A v \in Volumes : [old EXCEPT !.volume = Clamp(v, 0, 2 * Unity)] \in ClipSettings
    <2> SUFFICES ASSUME NEW v \in Volumes
                 PROVE  [old EXCEPT !.volume = Clamp(v, 0, 2 * Unity)] \in ClipSettings
      OBVIOUS
    <2>1. v \in Int /\ 2 * Unity \in Int /\ 0 <= 2 * Unity
      BY MixerAssumption
    <2>2. Clamp(v, 0, 2 * Unity) \in 0 .. 2 * Unity
      BY <2>1, ClampIsWithin
    <2> QED
      BY <1>1, <2>2 DEF ClipSettings
  <1>3. \A p \in Pans : [old EXCEPT !.pan = Clamp(p, -1, 1)] \in ClipSettings
    <2> SUFFICES ASSUME NEW p \in Pans
                 PROVE  [old EXCEPT !.pan = Clamp(p, -1, 1)] \in ClipSettings
      OBVIOUS
    <2>1. Clamp(p, -1, 1) \in -1 .. 1
      BY PanIsWithin, MixerAssumption
    <2> QED
      BY <1>1, <2>1 DEF ClipSettings
  <1>4. \A n \in Fades : Max({0, n}) \in FadeLengths
    <2> SUFFICES ASSUME NEW n \in Fades PROVE Max({0, n}) \in FadeLengths
      OBVIOUS
    <2>1. n \in Int /\ (n > 0 => FadeUnit % n = 0)
      BY MixerAssumption
    <2>2. Max({0, n}) = IF n <= 0 THEN 0 ELSE n
      BY <2>1 DEF Max
    <2> QED
      BY <2>1, <2>2 DEF FadeLengths
  <1>5. \A n \in Fades : /\ [old EXCEPT !.fade_in = Max({0, n})] \in ClipSettings
                         /\ [old EXCEPT !.fade_out = Max({0, n})] \in ClipSettings
    <2> SUFFICES ASSUME NEW n \in Fades
                 PROVE  /\ [old EXCEPT !.fade_in = Max({0, n})] \in ClipSettings
                        /\ [old EXCEPT !.fade_out = Max({0, n})] \in ClipSettings
      OBVIOUS
    <2> DEFINE m == Max({0, n})
    <2>1. m \in FadeLengths
      BY <1>4
    <2> HIDE DEF m
    <2>2. /\ [old EXCEPT !.fade_in = m] \in ClipSettings
          /\ [old EXCEPT !.fade_out = m] \in ClipSettings
      BY <1>1, <2>1 DEF ClipSettings
    <2> QED
      BY <2>2 DEF m
  <1>6. PICK new \in ClipSettings : ChangeClip(id, new)
    BY <1>2, <1>3, <1>5 DEF SetClip, set_clip_volume, set_clip_pan, set_clip_fade_in,
                            set_clip_fade_out, old
  <1>7. clip_settings' = [clip_settings EXCEPT ![id] = new] /\ UNCHANGED <<vars, track_settings>>
    BY <1>6 DEF ChangeClip
  <1>8. ClipSettingsFit'
    BY <1>7 DEF AInv, ClipSettingsFit
  <1>9. UnbornArePlain'
    <2>1. early' = early \cup ({id} \ Ids) /\ Ids' = Ids
      BY <1>6, <1>7 DEF ChangeClip, Ids, vars
    <2> QED
      BY <1>7, <2>1 DEF AInv, UnbornArePlain, ClipSettingsFit
  <1>10. TimelineFits' /\ TrackSettingsFit'
    BY <1>7 DEF AInv, TimelineFits, TrackSettingsFit, TInv, Shape, Placed, Unique,
                ClipsAreKnown, Owned, Known, Ids, vars
  <1> QED
    BY <1>8, <1>9, <1>10 DEF AInv

LEMMA SetTrackInv ==
  ASSUME AInv, NEW k \in Indices, SetTrack(k)
  PROVE  AInv'
  <1> DEFINE old == track_settings[k]
  <1>1. old \in TrackSettings
    BY DEF AInv, TrackSettingsFit
  <1> HIDE DEF old
  <1>2. \A v \in Volumes : [old EXCEPT !.volume = Clamp(v, 0, 2 * Unity)] \in TrackSettings
    <2> SUFFICES ASSUME NEW v \in Volumes
                 PROVE  [old EXCEPT !.volume = Clamp(v, 0, 2 * Unity)] \in TrackSettings
      OBVIOUS
    <2>1. Clamp(v, 0, 2 * Unity) \in 0 .. 2 * Unity
      BY ClampIsWithin, MixerAssumption
    <2> QED
      BY <1>1, <2>1 DEF TrackSettings
  <1>3. \A p \in Pans : [old EXCEPT !.pan = Clamp(p, -1, 1)] \in TrackSettings
    <2> SUFFICES ASSUME NEW p \in Pans
                 PROVE  [old EXCEPT !.pan = Clamp(p, -1, 1)] \in TrackSettings
      OBVIOUS
    <2>1. Clamp(p, -1, 1) \in -1 .. 1
      BY PanIsWithin, MixerAssumption
    <2> QED
      BY <1>1, <2>1 DEF TrackSettings
  <1>4. \A b \in BOOLEAN : /\ [old EXCEPT !.mute = b] \in TrackSettings
                           /\ [old EXCEPT !.solo = b] \in TrackSettings
    BY <1>1 DEF TrackSettings
  <1>5. PICK new \in TrackSettings : ChangeTrack(k, new)
    BY <1>2, <1>3, <1>4 DEF SetTrack, set_track_volume, set_track_pan, set_track_mute,
                            set_track_solo, old
  <1>6. track_settings' = [track_settings EXCEPT ![k] = new] /\ UNCHANGED <<vars, clip_settings, early>>
    BY <1>5 DEF ChangeTrack
  <1>7. TrackSettingsFit'
    BY <1>6 DEF AInv, TrackSettingsFit
  <1>8. TimelineFits' /\ ClipSettingsFit' /\ UnbornArePlain'
    BY <1>6 DEF AInv, TimelineFits, ClipSettingsFit, UnbornArePlain, TInv, Shape, Placed,
                Unique, ClipsAreKnown, Owned, Known, Ids, vars
  <1> QED
    BY <1>7, <1>8 DEF AInv

LEMMA StutterInv == AInv /\ UNCHANGED audioVars => AInv'
  BY DEF AInv, TimelineFits, ClipSettingsFit, TrackSettingsFit, UnbornArePlain, TInv, Shape,
         Placed, Unique, ClipsAreKnown, Owned, Known, Ids, vars, mixerVars, audioVars

\* The invariant holds in every state of every behaviour.
THEOREM AInvAlways == AudioSpec => []AInv
  <1>1. AInv /\ [AudioNext]_audioVars => AInv'
    BY EditInv, SetClipInv, SetTrackInv, StutterInv DEF AudioNext
  <1> QED
    BY AudioInitInv, <1>1, PTL DEF AudioSpec

\* A setter leaves the timeline as it is.
LEMMA SettersSet ==
  ASSUME \/ \E id \in 1 .. MaxClips : SetClip(id)
         \/ \E k \in Indices : SetTrack(k)
  PROVE  UNCHANGED vars
  BY DEF SetClip, set_clip_volume, set_clip_pan, set_clip_fade_in, set_clip_fade_out,
         ChangeClip, SetTrack, set_track_volume, set_track_pan, set_track_mute,
         set_track_solo, ChangeTrack

\* The mixer only listens: its setters leave the timeline as it is, and with them
\* it changes as it does by itself.
THEOREM MixerKeepsTheTimeline == AudioSpec => Spec
  <1>1. AudioInit => Init
    BY DEF AudioInit
  <1>2. [AudioNext]_audioVars => [Next]_vars
    <2> SUFFICES ASSUME [AudioNext]_audioVars PROVE [Next]_vars
      OBVIOUS
    <2>1. CASE Edit
      BY <2>1 DEF Edit
    <2>2. CASE UNCHANGED audioVars
      BY <2>2 DEF audioVars
    <2> QED
      BY <2>1, <2>2, SettersSet DEF AudioNext
  <1> QED
    BY <1>1, <1>2, PTL DEF AudioSpec, Spec

\* No clip starts with what was set for another: a clip that was not there has an
\* id that no clip had, for which nothing is set, unless it was set before.
THEOREM NewClipsArePlain == AudioSpec => NewClipsSoundPlain
  <1>1. ASSUME AInv, Edit, NEW c \in Clips', c.id \notin ClipIds \cup early
        PROVE  clip_settings'[c.id] = ClipDefault
    <2>1. Owned(tracks, ClipIds, "any")
      BY <1>1 DEF AInv, TimelineFits, ClipsAreKnown, Owned, Known, ClipIds, Clips
    <2>2. \/ next_clip_id' = next_clip_id /\ Owned(tracks', ClipIds, "any")
          \/ TakesId /\ Owned(tracks', ClipIds \cup {next_clip_id}, "any")
      <3>1. Shape /\ Next
        BY <1>1 DEF AInv, TimelineFits, TInv, Edit
      <3>2. "any" = "lasting" => ~ AsksForNothing
        OBVIOUS
      <3> QED
        BY <2>1, <3>1, <3>2, EditOwns, SMT
    <2>3. PICK k \in DOMAIN tracks' : c \in tracks'[k]
      BY <1>1 DEF Clips
    <2>4. c.id = next_clip_id /\ TakesId
      BY <1>1, <2>2, <2>3 DEF Owned, Known
    <2>5. next_clip_id \in 1 .. MaxClips /\ next_clip_id \notin Ids
      BY <1>1, <2>4, TimelineAssumption DEF AInv, TimelineFits, TakesId, Ids
    <2>6. clip_settings' = clip_settings
      BY <1>1 DEF Edit, mixerVars
    <2> QED
      BY <1>1, <2>4, <2>5, <2>6 DEF AInv, UnbornArePlain
  <1>2. ASSUME AInv, [AudioNext]_audioVars, ~ Edit
        PROVE  tracks' = tracks \/ UNCHANGED audioVars
    BY <1>2 DEF AudioNext, SetClip, SetTrack, set_clip_volume, set_clip_pan, set_clip_fade_in,
                set_clip_fade_out, set_track_volume, set_track_pan, set_track_mute,
                set_track_solo, ChangeClip, ChangeTrack, vars
  <1>3. tracks' = tracks => Clips' = Clips
    BY DEF Clips
  <1>4. UNCHANGED audioVars => tracks' = tracks
    BY DEF audioVars, vars
  <1>5. \A c \in Clips : c.id \in ClipIds
    BY DEF ClipIds
  <1>6. AInv /\ [AudioNext]_audioVars =>
          [\A c \in Clips' : c.id \notin ClipIds \cup early => clip_settings'[c.id] = ClipDefault]_audioVars
    BY <1>1, <1>2, <1>3, <1>4, <1>5
  <1> QED
    BY AInvAlways, <1>6, PTL DEF AudioSpec, NewClipsSoundPlain

-----------------------------------------------------------------------------
(* The two ramps of a clip.                                                 *)

\* The factor at x ticks from where a ramp of n ticks begins.
Ramp(n, x) == IF n > 0 /\ x < n THEN (x * FadeUnit) \div n ELSE FadeUnit

LEMMA Quotient ==
  ASSUME NEW a \in Int, NEW n \in Nat \ {0}, NEW k \in Int, a = n * k
  PROVE  a \div n = k
  OBVIOUS

\* A ramp rises by the same at every tick, up to FadeUnit.
LEMMA RampIsLinear ==
  ASSUME NEW n \in FadeLengths
  PROVE  \E q \in Nat :
            /\ \A x \in Nat : Ramp(n, x) = IF x < n THEN x * q ELSE FadeUnit
            /\ n * q = IF n = 0 THEN 0 ELSE FadeUnit
  <1>1. CASE n = 0
    BY <1>1 DEF Ramp
  <1>2. CASE n # 0
    <2> DEFINE q == FadeUnit \div n
    <2>1. FadeUnit = n * q /\ q \in Nat /\ n \in Nat \ {0}
      <3>1. n \in Nat \ {0} /\ FadeUnit % n = 0 /\ FadeUnit \in Nat
        BY <1>2, MixerAssumption DEF FadeLengths
      <3> QED
        BY <3>1
    <2> HIDE DEF q
    <2>2. ASSUME NEW x \in Nat PROVE (x * FadeUnit) \div n = x * q
      <3>1. x * FadeUnit \in Int /\ x * q \in Int
        BY <2>1, MixerAssumption
      <3>2. x * FadeUnit = n * (x * q)
        BY <2>1
      <3> QED
        BY <2>1, <3>1, <3>2, Quotient
    <2>3. \A x \in Nat : Ramp(n, x) = IF x < n THEN x * q ELSE FadeUnit
      BY <2>1, <2>2 DEF Ramp
    <2> QED
      BY <1>2, <2>1, <2>3
  <1> QED
    BY <1>1, <1>2

\* It never falls, and stays between what it would be without its end and FadeUnit.
LEMMA RampRises ==
  ASSUME NEW n \in FadeLengths, NEW x \in Nat, NEW y \in Nat, x <= y
  PROVE  /\ Ramp(n, x) \in 0 .. FadeUnit
         /\ Ramp(n, x) <= Ramp(n, y)
  <1>1. PICK q \in Nat : /\ \A z \in Nat : Ramp(n, z) = IF z < n THEN z * q ELSE FadeUnit
                         /\ n * q = IF n = 0 THEN 0 ELSE FadeUnit
    BY RampIsLinear
  <1>2. n \in Nat /\ FadeUnit \in Nat
    BY MixerAssumption DEF FadeLengths
  <1>3. ASSUME NEW z \in Nat, z < n PROVE z * q \in Nat /\ z * q <= FadeUnit
    BY <1>1, <1>2, <1>3, Products
  <1>4. x * q <= y * q
    BY Products
  <1> QED
    BY <1>1, <1>2, <1>3, <1>4

\* Of three points on two ramps against each other, the middle one is not lower
\* than both of the others.
LEMMA Concave ==
  ASSUME NEW L \in Nat, NEW x \in Nat, NEW y \in Nat, NEW z \in Nat, x < y, y < z, z <= L
  PROVE  x * (L - x) <= y * (L - y) \/ z * (L - z) <= y * (L - y)
  <1>1. y * (L - y) - x * (L - x) = (y - x) * (L - x - y)
    OBVIOUS
  <1>2. y * (L - y) - z * (L - z) = (z - y) * (y + z - L)
    OBVIOUS
  <1>3. /\ y * (L - y) \in Int /\ x * (L - x) \in Int /\ z * (L - z) \in Int
        /\ (y - x) * (L - x - y) \in Int /\ (z - y) * (y + z - L) \in Int
    OBVIOUS
  <1>4. CASE x + y <= L
    <2>1. y - x \in Nat /\ L - x - y \in Nat
      BY <1>4
    <2>2. (y - x) * (L - x - y) >= 0
      BY <2>1
    <2> QED
      BY <1>1, <1>3, <2>2
  <1>5. CASE x + y > L
    <2>1. z - y \in Nat /\ y + z - L \in Nat
      BY <1>5
    <2>2. (z - y) * (y + z - L) >= 0
      BY <2>1
    <2> QED
      BY <1>2, <1>3, <2>2
  <1> QED
    BY <1>4, <1>5

\* So two ramps, one from each end of L ticks, do not dip.
LEMMA RampsDoNotDip ==
  ASSUME NEW n \in FadeLengths, NEW m \in FadeLengths, NEW L \in Nat,
         NEW x \in Nat, NEW y \in Nat, NEW z \in Nat, x < y, y < z, z <= L
  PROVE  \/ Ramp(n, x) * Ramp(m, L - x) <= Ramp(n, y) * Ramp(m, L - y)
         \/ Ramp(n, z) * Ramp(m, L - z) <= Ramp(n, y) * Ramp(m, L - y)
  <1>0. n \in Nat /\ m \in Nat /\ FadeUnit \in Nat
        /\ L - x \in Nat /\ L - y \in Nat /\ L - z \in Nat
    BY MixerAssumption DEF FadeLengths
  <1>1. PICK q \in Nat : /\ \A w \in Nat : Ramp(n, w) = IF w < n THEN w * q ELSE FadeUnit
                         /\ n * q = IF n = 0 THEN 0 ELSE FadeUnit
    BY RampIsLinear
  <1>2. PICK r \in Nat : /\ \A w \in Nat : Ramp(m, w) = IF w < m THEN w * r ELSE FadeUnit
                         /\ m * r = IF m = 0 THEN 0 ELSE FadeUnit
    BY RampIsLinear
  <1>3. \A w \in {x, y, z} : Ramp(n, w) \in Nat /\ Ramp(m, L - w) \in Nat
                             /\ Ramp(n, w) <= FadeUnit /\ Ramp(m, L - w) <= FadeUnit
    BY <1>0, RampRises
  <1>4. CASE y >= n
    <2>1. Ramp(n, y) = FadeUnit
      BY <1>1, <1>4, <1>0
    <2>2. Ramp(m, L - z) <= Ramp(m, L - y)
      BY <1>0, RampRises
    <2> QED
      BY <1>3, <1>0, <2>1, <2>2, Products
  <1>5. CASE L - y >= m
    <2>1. Ramp(m, L - y) = FadeUnit
      BY <1>2, <1>5, <1>0
    <2>2. Ramp(n, x) <= Ramp(n, y)
      BY <1>0, RampRises
    <2> QED
      BY <1>3, <1>0, <2>1, <2>2, Products
  <1>6. CASE y < n /\ L - y < m
    <2>1. Ramp(n, y) = y * q /\ Ramp(m, L - y) = (L - y) * r
      BY <1>0, <1>1, <1>2, <1>6
    <2>2. ASSUME NEW w \in {x, y, z}
          PROVE  Ramp(n, w) <= w * q /\ Ramp(m, L - w) <= (L - w) * r
      <3>1. n * q = FadeUnit /\ m * r = FadeUnit
        BY <1>0, <1>1, <1>2, <1>6
      <3>2. w \in Nat /\ L - w \in Nat
        BY <1>0
      <3>3. w >= n => n * q <= w * q
        BY <1>0, <3>2, Products
      <3>4. L - w >= m => m * r <= (L - w) * r
        BY <1>0, <3>2, Products
      <3>5. w * q \in Nat /\ (L - w) * r \in Nat
        BY <3>2
      <3>6. Ramp(n, w) = (IF w < n THEN w * q ELSE FadeUnit)
        BY <1>1, <3>2
      <3>7. Ramp(m, L - w) = (IF L - w < m THEN (L - w) * r ELSE FadeUnit)
        BY <1>2, <3>2
      <3>8. Ramp(n, w) <= w * q
        BY <1>0, <3>1, <3>2, <3>3, <3>5, <3>6
      <3>9. Ramp(m, L - w) <= (L - w) * r
        BY <1>0, <3>1, <3>2, <3>4, <3>5, <3>7
      <3> QED
        BY <3>8, <3>9
    <2> DEFINE at(w) == w * (L - w)
    <2>3. ASSUME NEW w \in {x, y, z}
          PROVE  /\ Ramp(n, w) * Ramp(m, L - w) <= at(w) * (q * r)
                 /\ at(w) \in Nat
      <3>1. w \in Nat /\ L - w \in Nat /\ w * q \in Nat /\ (L - w) * r \in Nat
        BY <1>0
      <3>2. Ramp(n, w) * Ramp(m, L - w) <= (w * q) * ((L - w) * r)
        BY <1>3, <2>2, <3>1, Products
      <3>3. (w * q) * ((L - w) * r) = at(w) * (q * r)
        BY <3>1
      <3> QED
        BY <3>1, <3>2, <3>3
    <2>4. Ramp(n, y) * Ramp(m, L - y) = at(y) * (q * r)
      BY <1>0, <2>1
    <2>5. at(x) <= at(y) \/ at(z) <= at(y)
      BY Concave
    <2> HIDE DEF at
    <2>6. q * r \in Nat /\ at(x) \in Nat /\ at(y) \in Nat /\ at(z) \in Nat
      BY <2>3
    <2>7. at(x) * (q * r) <= at(y) * (q * r) \/ at(z) * (q * r) <= at(y) * (q * r)
      BY <2>5, <2>6, Products
    <2>8. /\ at(x) * (q * r) \in Nat /\ at(y) * (q * r) \in Nat /\ at(z) * (q * r) \in Nat
          /\ Ramp(n, x) * Ramp(m, L - x) \in Nat /\ Ramp(n, z) * Ramp(m, L - z) \in Nat
      BY <1>3, <2>6
    <2> QED
      BY <2>3, <2>4, <2>7, <2>8
  <1> QED
    BY <1>0, <1>4, <1>5, <1>6

-----------------------------------------------------------------------------
(* The gain.                                                                *)

LEMMA FadesAreRamps ==
  ASSUME ClipSettingsFit, NEW c, IsClip(c), c.id \in 1 .. MaxClips,
         NEW t \in Nat, Plays(c, t)
  PROVE  /\ clip_settings[c.id].fade_in \in FadeLengths
         /\ clip_settings[c.id].fade_out \in FadeLengths
         /\ compute_fade(c, t) = Ramp(clip_settings[c.id].fade_in, t - c.in_time)
                                   * Ramp(clip_settings[c.id].fade_out, c.out_time - t)
         /\ compute_fade(c, t) \in Nat
  <1> DEFINE n == clip_settings[c.id].fade_in
             m == clip_settings[c.id].fade_out
             a == Ramp(n, t - c.in_time)
             b == Ramp(m, c.out_time - t)
             U == FadeUnit * FadeUnit
  <1>1. n \in FadeLengths /\ m \in FadeLengths
    BY DEF ClipSettingsFit, ClipSettings
  <1>2. FadeInFactor(c, t) = a /\ FadeOutFactor(c, t) = b
    BY DEF FadeInFactor, FadeOutFactor, Ramp
  <1>3. t - c.in_time \in Nat /\ c.out_time - t \in Nat
    BY DEF IsClip, Plays
  <1>4. compute_fade(c, t) = Clamp(a * b, 0, U)
    BY <1>2 DEF compute_fade
  <1> HIDE DEF n, m
  <1>5. a \in 0 .. FadeUnit /\ b \in 0 .. FadeUnit /\ FadeUnit \in Nat
    BY <1>1, <1>3, RampRises, MixerAssumption
  <1> HIDE DEF a, b
  <1>6. a * b \in Nat /\ a * b <= U /\ U \in Nat
    BY <1>5, Products
  <1> HIDE DEF U
  <1>7. Clamp(a * b, 0, U) = a * b
    <2>1. a * b \in 0 .. U /\ a * b \in Int /\ U \in Int /\ 0 <= U
      BY <1>6
    <2> QED
      BY <2>1, ClampIsWithin
  <1>8. compute_fade(c, t) = a * b /\ compute_fade(c, t) \in Nat
    BY <1>4, <1>6, <1>7
  <1> QED
    BY <1>1, <1>8 DEF n, m, a, b

\* Between two times a clip is heard at it is never softer than at both.
LEMMA GainsDoNotDip ==
  ASSUME AInv, NEW k \in DOMAIN tracks, NEW c \in tracks[k],
         NEW t \in Times, NEW u \in Times, NEW v \in Times,
         Plays(c, t), Plays(c, u), Plays(c, v), t < u, u < v
  PROVE  Gain(k, c, u) >= Min({Gain(k, c, t), Gain(k, c, v)})
  <1>1. IsClip(c) /\ c.id \in 1 .. MaxClips
    BY TimelineAssumption DEF AInv, TimelineFits, ClipsAreKnown, Owned, Known, Fine, Ids
  <1>2. t \in Nat /\ u \in Nat /\ v \in Nat
    BY TimelineAssumption DEF Times
  <1>3. clip_settings[c.id].volume \in Nat /\ track_settings[k].volume \in Nat
    BY <1>1, MixerAssumption
       DEF AInv, TimelineFits, ClipSettingsFit, TrackSettingsFit, ClipSettings, TrackSettings
  <1> DEFINE n == clip_settings[c.id].fade_in
             m == clip_settings[c.id].fade_out
             L == c.out_time - c.in_time
             x == t - c.in_time
             y == u - c.in_time
             z == v - c.in_time
             p == clip_settings[c.id].volume * track_settings[k].volume
  <1>4. n \in FadeLengths /\ m \in FadeLengths
    BY <1>1, <1>2, FadesAreRamps DEF AInv
  <1>5. /\ L \in Nat /\ x \in Nat /\ y \in Nat /\ z \in Nat
        /\ x < y /\ y < z /\ z <= L
        /\ c.out_time - t = L - x /\ c.out_time - u = L - y /\ c.out_time - v = L - z
    BY <1>1, <1>2 DEF IsClip, Plays
  <1>6. /\ compute_fade(c, t) = Ramp(n, x) * Ramp(m, L - x) /\ compute_fade(c, t) \in Nat
        /\ compute_fade(c, u) = Ramp(n, y) * Ramp(m, L - y) /\ compute_fade(c, u) \in Nat
        /\ compute_fade(c, v) = Ramp(n, z) * Ramp(m, L - z) /\ compute_fade(c, v) \in Nat
    <2>1. ClipSettingsFit
      BY DEF AInv
    <2> QED
      BY <1>1, <1>2, <1>5, <2>1, FadesAreRamps
  <1> HIDE DEF n, m, L, x, y, z
  <1>7. compute_fade(c, t) <= compute_fade(c, u) \/ compute_fade(c, v) <= compute_fade(c, u)
    BY <1>4, <1>5, <1>6, RampsDoNotDip
  <1>8. p \in Nat
    BY <1>3
  <1>9. /\ Gain(k, c, t) = p * compute_fade(c, t)
        /\ Gain(k, c, u) = p * compute_fade(c, u)
        /\ Gain(k, c, v) = p * compute_fade(c, v)
    BY DEF Gain
  <1> HIDE DEF p
  <1>10. Gain(k, c, t) <= Gain(k, c, u) \/ Gain(k, c, v) <= Gain(k, c, u)
    BY <1>6, <1>7, <1>8, <1>9, Products
  <1>11. Gain(k, c, t) \in Nat /\ Gain(k, c, u) \in Nat /\ Gain(k, c, v) \in Nat
    BY <1>6, <1>8, <1>9
  <1> HIDE DEF Gain
  <1>12. ASSUME NEW a \in Nat, NEW b \in Nat PROVE Min({a, b}) = IF a <= b THEN a ELSE b
    BY DEF Min
  <1> QED
    BY <1>10, <1>11, <1>12

\* However long its fades, a clip gets louder and then softer.
THEOREM GainsRiseAndFall == AudioSpec => []FadesDoNotDip
  <1>1. AInv => FadesDoNotDip
    BY GainsDoNotDip DEF FadesDoNotDip
  <1> QED
    BY <1>1, AInvAlways, PTL

-----------------------------------------------------------------------------
(* What is heard.                                                           *)

\* What a clip of track k adds to the output.
Note(k, c, u) == [source |-> ShownBy(c, u), gain |-> Gain(k, c, u), pan |-> Pan(k, c)]

LEMMA HeardNotes ==
  ASSUME NEW S, NEW u, NEW x
  PROVE  /\ x \in Heard(S, u) <=>
              \E k \in DOMAIN tracks :
                 IsHeard(k) /\ \E c \in S \cap tracks[k] : Plays(c, u) /\ x = Note(k, c, u)
         /\ x \in Heard(S, u)' <=>
              \E k \in DOMAIN tracks' :
                 IsHeard(k)' /\ \E c \in S \cap tracks'[k] : Plays(c, u) /\ x = Note(k, c, u)'
  BY DEF Heard, Note

\* While nothing is set, the same clip on the same track sounds the same.
LEMMA NotesStay ==
  ASSUME UNCHANGED mixerVars, NEW k, NEW c, NEW u
  PROVE  Note(k, c, u)' = Note(k, c, u)
  BY DEF mixerVars, Note, Gain, Pan, compute_fade, FadeInFactor, FadeOutFactor

\* Tracks without clips may be added, if they are not soloed.
LEMMA HeardStays ==
  ASSUME UNCHANGED mixerVars, NEW S, NEW u, any_solo' <=> any_solo,
         DOMAIN tracks \subseteq DOMAIN tracks',
         \A k \in DOMAIN tracks : S \cap tracks'[k] = S \cap tracks[k],
         \A k \in DOMAIN tracks' : k \notin DOMAIN tracks => tracks'[k] = {}
  PROVE  Heard(S, u)' = Heard(S, u)
  <1>1. \A k : IsHeard(k)' <=> IsHeard(k)
    BY DEF mixerVars, IsHeard
  <1>2. \A k, c : Note(k, c, u)' = Note(k, c, u)
    BY NotesStay
  <1>3. ASSUME NEW x PROVE x \in Heard(S, u)' <=> x \in Heard(S, u)
    <2>1. x \in Heard(S, u) <=>
            \E k \in DOMAIN tracks :
              IsHeard(k) /\ \E c \in S \cap tracks[k] : Plays(c, u) /\ x = Note(k, c, u)
      BY HeardNotes
    <2>2. x \in Heard(S, u)' <=>
            \E k \in DOMAIN tracks' :
              IsHeard(k)' /\ \E c \in S \cap tracks'[k] : Plays(c, u) /\ x = Note(k, c, u)'
      BY HeardNotes
    <2> QED
      BY <1>1, <1>2, <2>1, <2>2
  <1> QED
    BY <1>3

\* A clip that is in the timeline before and after an edit is on the track it
\* names, before and after.
LEMMA SameOnTheirTracks ==
  ASSUME TInv, TInv', ~ renumbered, ~ renumbered', NEW k \in DOMAIN tracks,
         k \in DOMAIN tracks'
  PROVE  (Clips \cap Clips') \cap tracks'[k] = (Clips \cap Clips') \cap tracks[k]
  <1>1. \A c \in Clips : /\ c.track_index \in DOMAIN tracks
                         /\ c \in tracks[c.track_index]
                         /\ c \in tracks[k] => c.track_index = k
    BY DEF TInv, Placed, Clips
  <1>2. \A c \in Clips' : /\ c.track_index \in DOMAIN tracks'
                          /\ c \in tracks'[c.track_index]
                          /\ c \in tracks'[k] => c.track_index = k
    BY DEF TInv, Placed, Clips
  <1> QED
    BY <1>1, <1>2

\* An edit changes nothing of what is heard of the clips it leaves alone.
LEMMA OthersStay ==
  ASSUME AInv, ~ renumbered, Edit,
         ~ \E k \in DOMAIN tracks : remove_track(k),
         ~ \E order \in Orders : reorder_tracks(order),
         ~ (add_track /\ track_settings[TrackCount].solo),
         NEW u \in Times
  PROVE  \A same \in {Clips \cap Clips'} : Heard(same, u)' = Heard(same, u)
  <1>1. UNCHANGED mixerVars /\ Next
    BY DEF Edit
  <1>2. TInv /\ TInv' /\ Shape
    BY PlaceInv, FitInv DEF AInv, TimelineFits, TInv, Edit, Next
  <1>3. TrackCount \in Nat /\ DOMAIN tracks = 0 .. TrackCount - 1
    BY <1>2, CountTracks
  <1>4. /\ ~ renumbered' /\ DOMAIN tracks \subseteq DOMAIN tracks'
        /\ \A k \in DOMAIN tracks' : k \notin DOMAIN tracks => tracks'[k] = {}
        /\ any_solo' <=> any_solo
    <2>1. CASE add_track
      <3>1. /\ DOMAIN tracks' = 0 .. TrackCount /\ tracks'[TrackCount] = {}
            /\ renumbered' = renumbered
        BY <1>3, <2>1 DEF add_track
      <3>2. \A k : k \in 0 .. TrackCount <=> k \in 0 .. TrackCount - 1 \/ k = TrackCount
        BY <1>3
      <3>3. ~ track_settings[TrackCount].solo
        BY <2>1
      <3> QED
        BY <1>1, <1>3, <3>1, <3>2, <3>3 DEF any_solo, mixerVars
    <2>2. CASE ~ add_track
      <3>1. DOMAIN tracks' = DOMAIN tracks /\ renumbered' = renumbered
        BY <1>1, <2>2, EditKeepsTracks
      <3> QED
        BY <1>1, <3>1 DEF any_solo, mixerVars
    <2> QED
      BY <2>1, <2>2
  <1> SUFFICES ASSUME NEW same, same = Clips \cap Clips'
               PROVE  Heard(same, u)' = Heard(same, u)
    OBVIOUS
  <1>5. \A k \in DOMAIN tracks : same \cap tracks'[k] = same \cap tracks[k]
    BY <1>2, <1>4, SameOnTheirTracks
  <1> QED
    BY <1>1, <1>4, <1>5, HeardStays

\* Settings and clips stay together through an edit, but where a track's position
\* changes or a position with settings is used again.
THEOREM OthersAreHeardTheSame == AudioSpec => OthersSoundTheSame
  <1>0. [AudioNext]_audioVars /\ UNCHANGED mixerVars => Edit \/ UNCHANGED audioVars
    BY SettersSet DEF AudioNext, audioVars
  <1>1. AInv /\ [AudioNext]_audioVars =>
          [~ renumbered /\ UNCHANGED mixerVars =>
            \/ \A same \in {Clips \cap Clips'}, u \in Times : Heard(same, u)' = Heard(same, u)
            \/ \E k \in DOMAIN tracks : remove_track(k)
            \/ \E order \in Orders : reorder_tracks(order)
            \/ add_track /\ track_settings[TrackCount].solo]_audioVars
    BY <1>0, OthersStay
  <1> QED
    BY <1>1, AInvAlways, PTL DEF AudioSpec, OthersSoundTheSame

\* A clip that a split can cut: its left half keeps the fade-in and stays as loud,
\* its right half begins after it.
LEMMA HalvesSoundTheClip ==
  ASSUME ClipSettingsFit, clip_settings[next_clip_id] = ClipDefault,
         NEW c, Forward(c), c.id \in 1 .. MaxClips, NEW t \in Int, CanSplit(c, t),
         SpeedMatches(c), SplitsCleanly(c, t), NEW k, NEW u \in Int
  PROVE  /\ Plays(LeftHalf(c, t), u) => Note(k, LeftHalf(c, t), u) = Note(k, c, u)
         /\ Plays(RightHalf(c, t), u) => Note(k, RightHalf(c, t), u) = Note(k, c, u)
  <1> DEFINE l == LeftHalf(c, t)
             r == RightHalf(c, t)
             s == clip_settings[c.id]
             n == s.fade_in
             U == FadeUnit
  <1>1. /\ l.id = c.id /\ l.in_time = c.in_time /\ l.out_time = t
        /\ r.id = next_clip_id /\ r.in_time = t /\ r.out_time = c.out_time
    BY DEF Forward, Fine, IsClip, HasFields, Fields, LeftHalf, RightHalf
  <1>2. ShownBy(l, u) = ShownBy(c, u) /\ ShownBy(r, u) = ShownBy(c, u)
    BY HalvesShowTheClip
  <1>3. clip_settings[r.id] = ClipDefault
    BY <1>1
  <1>4. s.volume = Unity /\ s.pan = 0 /\ n <= t - c.in_time /\ s.fade_out = 0 /\ n \in Nat
    BY DEF SplitsCleanly, ClipSettingsFit, ClipSettings, FadeLengths
  <1> HIDE DEF l, r
  <1>5. FadeInFactor(l, u) = FadeInFactor(c, u)
    BY <1>1 DEF FadeInFactor
  <1>6. FadeOutFactor(l, u) = U /\ FadeOutFactor(c, u) = U
    BY <1>1, <1>4 DEF FadeOutFactor
  <1>7. FadeInFactor(r, u) = U /\ FadeOutFactor(r, u) = U
    BY <1>3 DEF FadeInFactor, FadeOutFactor, ClipDefault
  <1>8. Plays(r, u) => FadeInFactor(c, u) = U
    <2>1. Plays(r, u) => ~ (u - c.in_time < n)
      BY <1>1, <1>4, ForwardTimes DEF Plays
    <2> QED
      BY <2>1 DEF FadeInFactor
  <1>9. compute_fade(l, u) = compute_fade(c, u)
    BY <1>5, <1>6 DEF compute_fade
  <1>10. Plays(r, u) => compute_fade(r, u) = compute_fade(c, u)
    BY <1>6, <1>7, <1>8 DEF compute_fade
  <1>11. clip_settings[l.id] = s /\ clip_settings[r.id].volume = Unity /\ clip_settings[r.id].pan = 0
    BY <1>1, <1>3 DEF ClipDefault
  <1>12. Gain(k, l, u) = Gain(k, c, u) /\ Pan(k, l) = Pan(k, c)
    BY <1>9, <1>11 DEF Gain, Pan
  <1>13. Plays(r, u) => Gain(k, r, u) = Gain(k, c, u) /\ Pan(k, r) = Pan(k, c)
    BY <1>4, <1>10, <1>11 DEF Gain, Pan
  <1>14. /\ Plays(l, u) => Note(k, l, u) = Note(k, c, u)
         /\ Plays(r, u) => Note(k, r, u) = Note(k, c, u)
    BY <1>2, <1>12, <1>13 DEF Note
  <1> QED
    BY <1>14 DEF l, r

\* What is heard of all clips.
LEMMA HeardAll ==
  ASSUME NEW u, NEW x
  PROVE  /\ x \in Heard(Clips, u) <=>
              \E k \in DOMAIN tracks :
                 IsHeard(k) /\ \E c \in tracks[k] : Plays(c, u) /\ x = Note(k, c, u)
         /\ x \in Heard(Clips, u)' <=>
              \E k \in DOMAIN tracks' :
                 IsHeard(k)' /\ \E c \in tracks'[k] : Plays(c, u) /\ x = Note(k, c, u)'
  <1>1. /\ \A k \in DOMAIN tracks : Clips \cap tracks[k] = tracks[k]
        /\ \A k \in DOMAIN tracks' : Clips' \cap tracks'[k] = tracks'[k]
    BY DEF Clips
  <1> QED
    BY <1>1 DEF Heard, Note

LEMMA SplitSounds ==
  ASSUME AInv, UNCHANGED mixerVars, ~ renumbered, NEW id, NEW t \in Int, split_clip(id, t),
         next_clip_id \notin early,
         \A c \in find_clip(id) : SpeedMatches(c) /\ SplitsCleanly(c, t),
         NEW u \in Int
  PROVE  Heard(Clips, u)' = Heard(Clips, u)
  <1>0. /\ TInv /\ Owned(tracks, Ids, "any")
        /\ ClipSettingsFit /\ clip_settings[next_clip_id] = ClipDefault
    <2>1. TInv /\ Owned(tracks, Ids, "any") /\ ClipSettingsFit
      BY DEF AInv, TimelineFits, ClipsAreKnown
    <2>2. next_clip_id \in 1 .. MaxClips /\ next_clip_id \notin Ids
      BY TimelineAssumption DEF AInv, TimelineFits, split_clip, TakesId, Ids
    <2> QED
      BY <2>1, <2>2 DEF AInv, UnbornArePlain
  <1>1. PICK c \in find_clip(id) :
          /\ CanSplit(c, t)
          /\ \/ UsesBadIndex(c)
             \/ tracks' = [Becomes(c, LeftHalf(c, t))
                             EXCEPT ![c.track_index] = @ \cup {RightHalf(c, t)}]
    BY DEF split_clip
  <1> DEFINE h == c.track_index
             l == LeftHalf(c, t)
             r == RightHalf(c, t)
             rest == tracks[h] \ {c}
             S == (rest \cup {l}) \cup {r}
  <1>2. h \in DOMAIN tracks /\ c \in tracks[h] /\ HomeOf(c) = h
    BY <1>0, Found
  <1>3. tracks' = [tracks EXCEPT ![h] = S]
    BY <1>1, <1>2 DEF Becomes, UsesBadIndex
  <1>4. Forward(c) /\ c.id \in 1 .. MaxClips
    <2>1. Fine(c, "any") /\ c.id \in 1 .. MaxClips
      BY <1>0, <1>2, TimelineAssumption DEF Owned, Known, Ids, AInv, TimelineFits
    <2>2. c.in_time < c.out_time
      BY <1>1, <2>1 DEF CanSplit, Fine, IsClip
    <2> QED
      BY <2>1, <2>2, LastingIsForward
  <1>5. SpeedMatches(c) /\ SplitsCleanly(c, t)
    OBVIOUS
  <1>6. \A k : /\ Plays(l, u) => Note(k, l, u) = Note(k, c, u)
               /\ Plays(r, u) => Note(k, r, u) = Note(k, c, u)
    BY <1>0, <1>1, <1>4, <1>5, HalvesSoundTheClip
  <1>7. Plays(c, u) <=> Plays(l, u) \/ Plays(r, u)
    BY <1>1, <1>4, <1>5, HalvesShowTheClip
  <1>8. \A k, x : Note(k, x, u)' = Note(k, x, u)
    BY NotesStay
  <1>9. DOMAIN tracks' = DOMAIN tracks /\ \A k : IsHeard(k)' <=> IsHeard(k)
    BY <1>3 DEF mixerVars, IsHeard, any_solo
  <1>10. tracks[h] = rest \cup {c}
    BY <1>2
  <1>11. \A k \in DOMAIN tracks : k # h => tracks'[k] = tracks[k]
    BY <1>3
  <1>12. tracks'[h] = S
    BY <1>2, <1>3
  <1> HIDE DEF l, r, rest
  <1>13. ASSUME NEW x, NEW k \in DOMAIN tracks
         PROVE  (\E d \in tracks'[k] : Plays(d, u) /\ x = Note(k, d, u))
                  <=> (\E d \in tracks[k] : Plays(d, u) /\ x = Note(k, d, u))
    BY <1>6, <1>7, <1>10, <1>11, <1>12
  <1>14. ASSUME NEW x PROVE x \in Heard(Clips, u)' <=> x \in Heard(Clips, u)
    <2>1. x \in Heard(Clips, u) <=>
            \E k \in DOMAIN tracks :
              IsHeard(k) /\ \E d \in tracks[k] : Plays(d, u) /\ x = Note(k, d, u)
      BY HeardAll
    <2>2. x \in Heard(Clips, u)' <=>
            \E k \in DOMAIN tracks' :
              IsHeard(k)' /\ \E d \in tracks'[k] : Plays(d, u) /\ x = Note(k, d, u)'
      BY HeardAll
    <2>3. x \in Heard(Clips, u)' <=>
            \E k \in DOMAIN tracks :
              IsHeard(k) /\ \E d \in tracks'[k] : Plays(d, u) /\ x = Note(k, d, u)
      BY <1>8, <1>9, <2>2
    <2> QED
      BY <1>13, <2>1, <2>3
  <1> QED
    BY <1>14

\* A split of a clip without settings of its own but a fade-in that ends before
\* the cut is not heard, if nothing was set for the id it takes.
THEOREM SplitsAreUnheard == AudioSpec => SplitSoundsTheSame
  <1>1. ASSUME AInv, [AudioNext]_audioVars, NEW id, NEW t, split_clip(id, t)
        PROVE  UNCHANGED mixerVars
    <2>1. next_clip_id' # next_clip_id
      BY <1>1 DEF AInv, TimelineFits, split_clip, TakesId
    <2> QED
      BY <1>1, <2>1, SettersSet DEF AudioNext, Edit, vars, audioVars
  <1>2. AInv /\ [AudioNext]_audioVars =>
          [\A id \in Ids, t \in Times :
              /\ ~ renumbered /\ split_clip(id, t) /\ next_clip_id \notin early
              /\ \A c \in find_clip(id) : SpeedMatches(c) /\ SplitsCleanly(c, t)
              => \A u \in Times : Heard(Clips, u)' = Heard(Clips, u)]_audioVars
    BY <1>1, TimesAreInts, SplitSounds
  <1> QED
    BY <1>2, AInvAlways, PTL DEF AudioSpec, SplitSoundsTheSame

-----------------------------------------------------------------------------
(* The frame cache behind the C API: frames are of clips with ids that were *)
(* given, and an edit leaves the clips alone whose frames it keeps.         *)

CachedIdsAreKnown == \A e \in cached : e.clip_id \in Ids
CInv == FInv /\ CachedIdsAreKnown

\* No clip is other than it was but those with an id in J.
LeavesOthers(J) == \A d \in Clips' : d \in Clips \/ d.id \in J

\* The edits of the API are edits of the timeline.
LEMMA ApiStepsEdit == ApiNext => [Next]_vars
  <1>1. ASSUME NEW id \in Ids, ~ undefined, EditOfClip(id)
        PROVE  Next
    BY <1>1 DEF EditOfClip, Next, Place, Fit
  <1> QED
    BY <1>1 DEF ApiNext, Render, ClipEdited, ClipSplit, TracksEdited, ClipsMade, Inserted,
                RippleRefused, Next, Place, Fit

LEMMA EditGrowsIds == FInv /\ [Next]_vars => Ids \subseteq Ids'
  <1> SUFFICES ASSUME FInv, [Next]_vars PROVE Ids \subseteq Ids'
    OBVIOUS
  <1>1. next_clip_id' = next_clip_id \/ next_clip_id' = next_clip_id + 1
    <2>1. CASE Next
      <3>1. Shape /\ Owned(tracks, Ids, "any")
        BY DEF FInv, TInv
      <3>2. "any" = "lasting" => ~ AsksForNothing
        OBVIOUS
      <3>3. \/ next_clip_id' = next_clip_id /\ Owned(tracks', Ids, "any")
            \/ TakesId /\ Owned(tracks', Ids \cup {next_clip_id}, "any")
        BY <2>1, <3>1, <3>2, EditOwns, SMT
      <3> QED
        BY <3>3 DEF TakesId
    <2> QED
      BY <2>1 DEF vars
  <1> QED
    BY <1>1 DEF FInv, Ids

LEMMA CInvStep == CInv /\ [ApiNext]_apiVars => CInv'
  <1> SUFFICES ASSUME CInv, [ApiNext]_apiVars PROVE CInv'
    OBVIOUS
  <1>1. [Next]_vars
    BY ApiStepsEdit DEF apiVars
  <1>2. FInv' /\ Ids \subseteq Ids'
    BY <1>1, FInvStep, EditGrowsIds DEF CInv
  <1>3. CASE \E c \in Clips, t \in Times : Render(c, t)
    <2>1. PICK c \in Clips, t \in Times : Render(c, t)
      BY <1>3
    <2>2. c.id \in Ids
      BY DEF CInv, FInv, Owned, Known, Clips
    <2>3. cached' = cached \cup {[clip_id |-> c.id, time |-> t, shows |-> ShownBy(c, t)]}
      BY <2>1 DEF Render
    <2>4. CachedIdsAreKnown'
      BY <1>2, <2>2, <2>3 DEF CInv, CachedIdsAreKnown
    <2> QED
      BY <1>2, <2>4 DEF CInv
  <1>4. CASE ~ \E c \in Clips, t \in Times : Render(c, t)
    <2>1. cached' \subseteq cached
      BY <1>4 DEF ApiNext, ClipEdited, ClipSplit, TracksEdited, ClipsMade, Inserted,
                  RippleRefused, invalidate_clips, invalidate_all, apiVars
    <2> QED
      BY <1>2, <2>1 DEF CInv, CachedIdsAreKnown
  <1> QED
    BY <1>3, <1>4

\* The C API makes the edits of the timeline, with what the cache does added:
\* no path through it does to the model what no operation of the model does.
THEOREM ApiEditsTheTimeline == ApiSpec => Spec
  <1>1. ApiInit => Init
    BY DEF ApiInit
  <1>2. [ApiNext]_apiVars => [Next]_vars
    BY ApiStepsEdit DEF apiVars
  <1> QED
    BY <1>1, <1>2, PTL DEF ApiSpec, Spec

\* The frames in the cache are of clips there are or were, in every state.
THEOREM CInvAlways == ApiSpec => []CInv
  <1>1. ApiInit => CInv
    BY FInvInit DEF ApiInit, CInv, CachedIdsAreKnown
  <1> QED
    BY <1>1, CInvStep, PTL DEF ApiSpec

\* What clips are called and where they are, through the API.
THEOREM ApiFindsClips == ApiSpec => []ClipsAreWhereTheySay
  <1>1. CInv => ClipsAreWhereTheySay
    BY DEF CInv, FInv, TInv, Placed, Unique, ClipsAreWhereTheySay, Clips
  <1> QED
    BY <1>1, CInvAlways, PTL

-----------------------------------------------------------------------------
(* What each edit leaves alone.                                             *)

LEMMA FreshAfter ==
  ASSUME CacheIsFresh, NEW J, LeavesOthers(J), cached' \subseteq cached,
         \A e \in cached' : e.clip_id \notin J
  PROVE  CacheIsFresh'
  BY DEF CacheIsFresh, LeavesOthers

LEMMA TrackLeaves ==
  ASSUME NEW k, NEW S, NEW J, tracks' = [tracks EXCEPT ![k] = S],
         k \in DOMAIN tracks => \A x \in S : x \in tracks[k] \/ x.id \in J
  PROVE  LeavesOthers(J)
  BY DEF LeavesOthers, Clips

LEMMA BecomesLeaves ==
  ASSUME NEW c, NEW d, d.id = c.id, tracks' = Becomes(c, d)
  PROVE  LeavesOthers({c.id})
  <1> DEFINE k == HomeOf(c)
             S == (tracks[k] \ {c}) \cup {d}
  <1>1. tracks' = [tracks EXCEPT ![k] = S]
    BY DEF Becomes
  <1>2. \A x \in S : x \in tracks[k] \/ x.id \in {c.id}
    OBVIOUS
  <1> HIDE DEF k, S
  <1> QED
    BY <1>1, <1>2, TrackLeaves

LEMMA FoundHere ==
  ASSUME FInv, ~ renumbered, NEW id, NEW c \in find_clip(id)
  PROVE  /\ c.track_index \in DOMAIN tracks /\ c \in tracks[c.track_index]
         /\ HomeOf(c) = c.track_index
         /\ Fine(c, "any") /\ c.id = id
  <1>1. /\ c.track_index \in DOMAIN tracks /\ c \in tracks[c.track_index]
        /\ HomeOf(c) = c.track_index /\ c.id = id
    BY Found DEF FInv
  <1> QED
    BY <1>1, TrackIsFine

\* An edit of one clip, the roll aside.
LEMMA ClipEditLeaves ==
  ASSUME FInv, ~ renumbered, NEW id,
         \/ remove_clip(id)
         \/ \E d \in Descriptors : trim_clip(id, d)
         \/ \E k \in DOMAIN tracks, from \in Int : move_clip(id, k, from)
         \/ \E delta \in Int : slip_edit(id, delta)
         \/ \E len \in Nat \ {0} : rate_stretch(id, len)
  PROVE  LeavesOthers({id})
  <1>1. CASE remove_clip(id)
    BY <1>1 DEF remove_clip, LeavesOthers, Clips
  <1>2. CASE \E d \in Descriptors : trim_clip(id, d)
    <2>1. PICK d \in Descriptors : trim_clip(id, d)
      BY <1>2
    <2>2. PICK c \in find_clip(id) : tracks' = Becomes(c, Trimmed(c, d))
      BY <2>1 DEF trim_clip
    <2> DEFINE e == Trimmed(c, d)
    <2>3. c.id = id /\ e.id = c.id
      BY FoundHere DEF Trimmed, Fine, IsClip, HasFields, Fields
    <2> HIDE DEF e
    <2> QED
      BY <2>2, <2>3, BecomesLeaves DEF e
  <1>3. CASE \E k \in DOMAIN tracks, from \in Int : move_clip(id, k, from)
    <2>1. PICK k \in DOMAIN tracks, from \in Int : move_clip(id, k, from)
      BY <1>3
    <2> DEFINE erased(c) == [tracks EXCEPT ![c.track_index] = {x \in @ : x.id # id}]
    <2>2. PICK c \in find_clip(id) :
            \/ UsesBadIndex(c)
            \/ tracks' = [erased(c) EXCEPT ![k] = @ \cup {MovedTo(c, k, from)}]
      BY <2>1 DEF move_clip, MovedTo
    <2> DEFINE d == MovedTo(c, k, from)
    <2>3. d.id = id
      BY FoundHere, MovedToIsHeir DEF Heir
    <2>4. tracks' = [erased(c) EXCEPT ![k] = @ \cup {d}]
      BY <2>2, FoundHere DEF UsesBadIndex
    <2> HIDE DEF d
    <2>5. DOMAIN tracks' = DOMAIN tracks
      BY <2>4
    <2>6. \A l \in DOMAIN tracks : tracks'[l] \subseteq tracks[l] \cup {d}
      BY <2>4
    <2> QED
      BY <2>3, <2>5, <2>6 DEF LeavesOthers, Clips
  <1>4. CASE \E delta \in Int : slip_edit(id, delta)
    <2>1. PICK delta \in Int : slip_edit(id, delta)
      BY <1>4
    <2>2. PICK c \in find_clip(id) : tracks' = Becomes(c, Slipped(c, delta))
      BY <2>1 DEF slip_edit, Slipped
    <2> DEFINE d == Slipped(c, delta)
    <2>3. c.id = id /\ d.id = c.id
      BY FoundHere, SlippedIsHeir DEF Heir
    <2> HIDE DEF d
    <2> QED
      BY <2>2, <2>3, BecomesLeaves DEF d
  <1>5. CASE \E len \in Nat \ {0} : rate_stretch(id, len)
    <2>1. PICK len \in Nat \ {0} : rate_stretch(id, len)
      BY <1>5
    <2>2. PICK c \in find_clip(id) : tracks' = Becomes(c, Stretched(c, len))
      BY <2>1 DEF rate_stretch, Stretched
    <2> DEFINE d == Stretched(c, len)
    <2>3. c.id = id /\ d.id = c.id
      BY FoundHere, StretchedIsHeir DEF Heir
    <2> HIDE DEF d
    <2> QED
      BY <2>2, <2>3, BecomesLeaves DEF d
  <1> QED
    BY <1>1, <1>2, <1>3, <1>4, <1>5

LEMMA SplitLeaves ==
  ASSUME FInv, ~ renumbered, NEW id, NEW t \in Int, split_clip(id, t)
  PROVE  LeavesOthers({id, next_clip_id})
  <1>1. PICK c \in find_clip(id) :
          /\ CanSplit(c, t)
          /\ \/ UsesBadIndex(c)
             \/ tracks' = [Becomes(c, LeftHalf(c, t))
                             EXCEPT ![c.track_index] = @ \cup {RightHalf(c, t)}]
    BY DEF split_clip
  <1> DEFINE k == c.track_index
             l == LeftHalf(c, t)
             r == RightHalf(c, t)
             S == ((tracks[k] \ {c}) \cup {l}) \cup {r}
  <1>2. k \in DOMAIN tracks /\ HomeOf(c) = k /\ Fine(c, "any") /\ c.id = id
    BY FoundHere
  <1>3. tracks' = [tracks EXCEPT ![k] = S]
    BY <1>1, <1>2 DEF Becomes, UsesBadIndex
  <1>4. l.id = id /\ r.id = next_clip_id
    BY <1>1, <1>2, HalvesAreFine DEF Heir
  <1> HIDE DEF l, r
  <1>5. \A x \in S : x \in tracks[k] \/ x.id \in {id, next_clip_id}
    BY <1>4
  <1> HIDE DEF S, k
  <1> QED
    BY <1>3, <1>5, TrackLeaves

\* What makes clips leaves the others alone.
LEMMA NewClipsLeave ==
  ASSUME FInv, ~ renumbered, ClipsMade
  PROVE  LeavesOthers({next_clip_id})
  <1>0. TrackCount \in Nat /\ DOMAIN tracks = 0 .. TrackCount - 1
    BY CountTracks DEF FInv, TInv
  <1>1. CASE add_track
    BY <1>0, <1>1 DEF add_track, LeavesOthers, Clips
  <1>2. CASE \E k \in DOMAIN tracks : remove_track(k)
    <2>1. PICK k \in DOMAIN tracks : remove_track(k)
      BY <1>2
    <2>2. \A l \in DOMAIN tracks' : \E m \in DOMAIN tracks : tracks'[l] = tracks[m]
      <3> SUFFICES ASSUME NEW l \in 0 .. TrackCount - 2
                   PROVE  \E m \in DOMAIN tracks : tracks'[l] = tracks[m]
        BY <2>1 DEF remove_track
      <3>1. tracks'[l] = IF l < k THEN tracks[l] ELSE tracks[l + 1]
        BY <2>1 DEF remove_track
      <3>2. l \in DOMAIN tracks /\ l + 1 \in DOMAIN tracks
        BY <1>0
      <3> QED
        BY <3>1, <3>2
    <2> QED
      BY <2>2 DEF LeavesOthers, Clips
  <1>3. CASE \E k \in DOMAIN tracks, d \in Descriptors : add_clip(k, d)
    <2>1. PICK k \in DOMAIN tracks, d \in Descriptors : add_clip(k, d)
      BY <1>3
    <2> DEFINE S == tracks[k] \cup {NewClip(k, d)}
    <2>2. NewClip(k, d).id = next_clip_id
      BY DEF NewClip
    <2>3. tracks' = [tracks EXCEPT ![k] = S] /\ \A x \in S : x \in tracks[k] \/ x.id \in {next_clip_id}
      BY <2>1, <2>2 DEF add_clip
    <2> HIDE DEF S
    <2> QED
      BY <2>3, TrackLeaves
  <1>4. CASE OverwriteEdit
    <2>1. PICK k \in DOMAIN tracks, at \in Times, d \in Descriptors : overwrite_edit(k, at, d)
      BY <1>4 DEF OverwriteEdit
    <2> DEFINE new == NewClip(k, At(d, at))
               S == {c \in tracks[k] : Survives(c, at, at + Length(d))} \cup {new}
    <2>2. new.id = next_clip_id
      BY DEF NewClip
    <2>3. tracks' = [tracks EXCEPT ![k] = S]
      BY <2>1 DEF overwrite_edit
    <2> HIDE DEF new
    <2>4. \A x \in S : x \in tracks[k] \/ x.id \in {next_clip_id}
      BY <2>2
    <2> HIDE DEF S
    <2> QED
      BY <2>3, <2>4, TrackLeaves
  <1>5. CASE \E id \in Ids : duplicate_clip(id)
    <2>1. PICK id \in Ids : duplicate_clip(id)
      BY <1>5
    <2>2. PICK c \in find_clip(id) :
            \/ UsesBadIndex(c)
            \/ tracks' = [tracks EXCEPT ![c.track_index] = @ \cup {Duplicate(c)}]
      BY <2>1 DEF duplicate_clip, Duplicate
    <2> DEFINE k == c.track_index
               S == tracks[k] \cup {Duplicate(c)}
    <2>3. Duplicate(c).id = next_clip_id
      BY FoundHere, DuplicateIsFine
    <2>4. tracks' = [tracks EXCEPT ![k] = S] /\ \A x \in S : x \in tracks[k] \/ x.id \in {next_clip_id}
      BY <2>2, <2>3, FoundHere DEF UsesBadIndex
    <2> HIDE DEF S, k
    <2> QED
      BY <2>4, TrackLeaves
  <1> QED
    BY <1>1, <1>2, <1>3, <1>4, <1>5 DEF ClipsMade

-----------------------------------------------------------------------------
(* A roll moves the next clip as well, and shows what it showed.            *)

LEMMA RolledNextShows ==
  ASSUME NEW c, Forward(c), NEW n, Forward(n), SpeedMatches(n), n.in_time = c.out_time,
         NEW delta \in Int, CanRoll(c, n, delta)
  PROVE  LET e == RolledNext(c, n, delta)
         IN  /\ e.id = n.id
             /\ \A t \in Int : Plays(e, t) => Plays(n, t) /\ ShownBy(e, t) = ShownBy(n, t)
  <1> DEFINE e == RolledNext(c, n, delta)
             q == (delta * SourceLength(n)) \div Length(n)
  <1>1. /\ e.id = n.id /\ e.in_time = n.in_time + delta /\ e.out_time = n.out_time
        /\ e.source_in = n.source_in + q /\ e.speed = n.speed
    BY DEF Forward, Fine, IsClip, HasFields, Fields, RolledNext
  <1>2. (delta * SourceLength(n)) % Length(n) = 0
    BY DEF CanRoll
  <1>3. q \in Int /\ q * SpeedUnit = n.speed * delta
    BY <1>2, PartMatches
  <1> HIDE DEF e, q
  <1>4. 0 <= delta
    BY RollStaysInside
  <1>5. /\ n.source_in \in Int /\ n.speed \in Int /\ SpeedUnit \in Int
        /\ n.in_time \in Int /\ n.out_time \in Int
    BY TimelineAssumption DEF Forward, Fine, IsClip
  <1>6. ASSUME NEW t \in Int, Plays(e, t)
        PROVE  Plays(n, t) /\ ShownBy(e, t) = ShownBy(n, t)
    <2>1. Plays(n, t)
      BY <1>1, <1>4, <1>5, <1>6 DEF Plays
    <2>2. ShownBy(e, t) = (n.source_in + q) * SpeedUnit + (t - (n.in_time + delta)) * n.speed
      BY <1>1 DEF ShownBy
    <2>3. (n.source_in + q) * SpeedUnit = n.source_in * SpeedUnit + q * SpeedUnit
      BY <1>3, <1>5
    <2>4. (t - (n.in_time + delta)) * n.speed + n.speed * delta = (t - n.in_time) * n.speed
      BY <1>5
    <2>5. /\ n.source_in * SpeedUnit \in Int /\ q * SpeedUnit \in Int
          /\ (t - (n.in_time + delta)) * n.speed \in Int /\ n.speed * delta \in Int
      BY <1>3, <1>5
    <2>6. ShownBy(e, t) = ShownBy(n, t)
      BY <1>3, <2>2, <2>3, <2>4, <2>5 DEF ShownBy
    <2> QED
      BY <2>1, <2>6
  <1>7. e.id = n.id /\ \A t \in Int : Plays(e, t) => Plays(n, t) /\ ShownBy(e, t) = ShownBy(n, t)
    BY <1>1, <1>6
  <1> QED
    BY <1>7 DEF e

\* Frames are cached at times of the timeline.
LEMMA RollStaysFresh ==
  ASSUME CInv, ~ renumbered, CacheIsFresh, NEW id, NEW delta \in Int, roll_edit(id, delta),
         HarmlessRoll(id), \A e \in cached : e.time \in Int, invalidate_clips({id})
  PROVE  CacheIsFresh'
  <1>0. FInv
    BY DEF CInv
  <1>1. PICK c \in find_clip(id) :
          \/ UsesBadIndex(c)
          \/ \E n \in NextClips(tracks[c.track_index], c) :
               /\ CanRoll(c, n, delta)
               /\ tracks' = [Becomes(c, Rolled(c, delta)) EXCEPT ![c.track_index] =
                               (@ \ {n}) \cup {RolledNext(c, n, delta)}]
    BY DEF roll_edit
  <1> DEFINE k == c.track_index
             d == Rolled(c, delta)
  <1>2. k \in DOMAIN tracks /\ HomeOf(c) = k /\ Fine(c, "any") /\ c.id = id
    BY <1>0, FoundHere
  <1>3. PICK n \in NextClips(tracks[k], c) :
          /\ CanRoll(c, n, delta)
          /\ tracks' = [Becomes(c, d) EXCEPT ![k] = (@ \ {n}) \cup {RolledNext(c, n, delta)}]
    BY <1>1, <1>2 DEF UsesBadIndex
  <1> DEFINE e == RolledNext(c, n, delta)
             S == (((tracks[k] \ {c}) \cup {d}) \ {n}) \cup {e}
  <1>4. n \in tracks[k] /\ Fine(n, "any") /\ n.in_time = c.out_time /\ SpeedMatches(n)
    BY <1>0, <1>2, TrackIsFine DEF NextClips, HarmlessRoll
  <1>5. d.id = id
    BY <1>2 DEF Fine, IsClip, HasFields, Fields, Rolled
  <1>6. e.id = n.id /\ \A t \in Int : Plays(e, t) => Plays(n, t) /\ ShownBy(e, t) = ShownBy(n, t)
    <2>1. Forward(c) /\ Forward(n)
      BY <1>2, <1>3, <1>4, LastingIsForward DEF CanRoll
    <2> QED
      BY <1>3, <1>4, <2>1, RolledNextShows
  <1>7. tracks' = [tracks EXCEPT ![k] = S]
    BY <1>2, <1>3 DEF Becomes
  <1> HIDE DEF d, e
  <1>8. \A x \in S : x \in tracks[k] \/ x.id = id \/ x = e
    BY <1>5
  <1> HIDE DEF S
  <1>9. \A x \in Clips' : x \in Clips \/ x.id = id \/ x = e
    BY <1>7, <1>8 DEF Clips
  <1>10. n \in Clips
    BY <1>2, <1>4 DEF Clips
  <1>11. cached' \subseteq cached /\ \A f \in cached' : f.clip_id # id
    BY DEF invalidate_clips
  <1> QED
    BY <1>6, <1>9, <1>10, <1>11 DEF CacheIsFresh

-----------------------------------------------------------------------------
(* The edits and the cache.                                                 *)

CachedTimesAreTimes == \A e \in cached : e.time \in Times

LEMMA RenderStaysFresh ==
  ASSUME CInv, ~ renumbered, CacheIsFresh, NEW c \in Clips, NEW t, Render(c, t)
  PROVE  CacheIsFresh'
  <1>1. \A d \in Clips : d.id = c.id => d = c
    BY DEF CInv, FInv, TInv, Unique, Clips
  <1>2. /\ Clips' = Clips
        /\ cached' = cached \cup {[clip_id |-> c.id, time |-> t, shows |-> ShownBy(c, t)]}
    BY DEF Render, vars, Clips
  <1> QED
    BY <1>1, <1>2 DEF CacheIsFresh

LEMMA EditStaysFresh ==
  ASSUME CInv, CachedTimesAreTimes, ~ renumbered, CacheIsFresh, ApiNext,
         ~ InsertEdit, ~ RippleRefused,
         ~ \E id \in Ids, delta \in Deltas : ~ HarmlessRoll(id) /\ roll_edit(id, delta)
  PROVE  CacheIsFresh'
  <1>0. FInv
    BY DEF CInv
  <1>1. CASE \E c \in Clips, t \in Times : Render(c, t)
    BY <1>1, RenderStaysFresh
  <1>2. CASE \E id \in Ids : ClipEdited(id)
    <2>1. PICK id \in Ids : ClipEdited(id)
      BY <1>2
    <2>2. EditOfClip(id) /\ invalidate_clips({id})
      BY <2>1 DEF ClipEdited
    <2>3. CASE \E delta \in Deltas : roll_edit(id, delta)
      <3>1. PICK delta \in Deltas : roll_edit(id, delta)
        BY <2>3
      <3>2. delta \in Int /\ \A e \in cached : e.time \in Int
        BY TimesAreInts DEF CachedTimesAreTimes
      <3>3. HarmlessRoll(id)
        BY <3>1
      <3> QED
        BY <2>2, <3>1, <3>2, <3>3, RollStaysFresh
    <2>4. CASE ~ \E delta \in Deltas : roll_edit(id, delta)
      <3>1. \/ remove_clip(id)
            \/ \E d \in Descriptors : trim_clip(id, d)
            \/ \E k \in DOMAIN tracks, from \in Int : move_clip(id, k, from)
            \/ \E delta \in Int : slip_edit(id, delta)
            \/ \E len \in Nat \ {0} : rate_stretch(id, len)
        BY <2>2, <2>4, TimesAreInts, TimesAreNats DEF EditOfClip
      <3>2. LeavesOthers({id})
        BY <1>0, <3>1, ClipEditLeaves
      <3>3. cached' \subseteq cached /\ \A e \in cached' : e.clip_id \notin {id}
        BY <2>2 DEF invalidate_clips
      <3> QED
        BY <3>2, <3>3, FreshAfter
    <2> QED
      BY <2>3, <2>4
  <1>3. CASE \E id \in Ids, t \in Times : ClipSplit(id, t)
    <2>1. PICK id \in Ids, t \in Times : ClipSplit(id, t)
      BY <1>3
    <2>2. split_clip(id, t) /\ invalidate_clips({id, next_clip_id}) /\ t \in Int
      BY <2>1, TimesAreInts DEF ClipSplit
    <2>3. LeavesOthers({id, next_clip_id})
      BY <1>0, <2>2, SplitLeaves
    <2>4. cached' \subseteq cached /\ \A e \in cached' : e.clip_id \notin {id, next_clip_id}
      BY <2>2 DEF invalidate_clips
    <2> QED
      BY <2>3, <2>4, FreshAfter
  <1>4. CASE TracksEdited
    BY <1>4 DEF TracksEdited, invalidate_all, CacheIsFresh
  <1>5. CASE ClipsMade
    <2>1. LeavesOthers({next_clip_id})
      BY <1>0, <1>5, NewClipsLeave
    <2>2. cached' = cached
      BY <1>5 DEF ClipsMade
    <2>3. \A e \in cached' : e.clip_id \notin {next_clip_id}
      BY <2>2 DEF CInv, FInv, CachedIdsAreKnown, Ids
    <2> QED
      BY <2>1, <2>2, <2>3, FreshAfter
  <1> QED
    BY <1>1, <1>2, <1>3, <1>4, <1>5 DEF ApiNext, Inserted

LEMMA CachedTimesStay == ApiSpec => []CachedTimesAreTimes
  <1>1. ApiInit => CachedTimesAreTimes
    BY DEF ApiInit, CachedTimesAreTimes
  <1>2. CachedTimesAreTimes /\ [ApiNext]_apiVars => CachedTimesAreTimes'
    BY DEF CachedTimesAreTimes, ApiNext, Render, ClipEdited, ClipSplit, TracksEdited, ClipsMade,
           Inserted, RippleRefused, invalidate_clips, invalidate_all, apiVars
  <1> QED
    BY <1>1, <1>2, PTL DEF ApiSpec

\* What is in the cache stays what would be rendered, through every edit but an
\* insertion, a refused ripple delete and a roll over a gap.
THEOREM EditsKeepFrames == ApiSpec => EditsKeepCacheFresh
  <1>1. CInv /\ CachedTimesAreTimes /\ [ApiNext]_apiVars =>
          [~ renumbered /\ CacheIsFresh =>
            \/ CacheIsFresh'
            \/ InsertEdit
            \/ RippleRefused
            \/ \E id \in Ids, delta \in Deltas : ~ HarmlessRoll(id) /\ roll_edit(id, delta)]_apiVars
    BY EditStaysFresh
  <1> QED
    BY <1>1, CInvAlways, CachedTimesStay, PTL DEF ApiSpec, EditsKeepCacheFresh
=============================================================================
