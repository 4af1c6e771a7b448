------------------------- MODULE ImageProject_proofs -------------------------
(* Proofs about the image engine, for any canvases, buffers, layers, masks,  *)
(* effects and files.                                                        *)
EXTENDS ImageProject, Sublists_proofs

-----------------------------------------------------------------------------
(* Lists whose elements are told apart by their ids: the layers of a canvas *)
(* and the effects of a layer.                                              *)

DistinctIds(s) == \A i, j \in DOMAIN s : s[i].id = s[j].id => i = j

\* t is s without its elements in A and with those in B, in some order.
Differs(s, t, A, B) == ToSet(t) = (ToSet(s) \ A) \cup B

LEMMA InsertedList ==
    ASSUME NEW S, NEW s \in Seq(S), NEW i \in 1 .. Len(s) + 1, NEW e \in S,
           DistinctIds(s), \A x \in ToSet(s) : x.id # e.id
    PROVE  /\ InsertAt(s, i, e) \in Seq(S)
           /\ DistinctIds(InsertAt(s, i, e))
           /\ Differs(s, InsertAt(s, i, e), {}, {e})
<1> DEFINE t == InsertAt(s, i, e)
<1>1. /\ t \in Seq(S) /\ Len(t) = Len(s) + 1
      /\ \A j \in 1 .. Len(s) + 1 :
            t[j] = IF j < i THEN s[j] ELSE IF j = i THEN e ELSE s[j - 1]
  <2>1. i \in 1 .. Len(s) + 1
    OBVIOUS
  <2>2. t \in Seq(S)
    BY <2>1, InsertAtProperties
  <2>3. Len(t) = Len(s) + 1
    BY <2>1, InsertAtProperties
  <2>4. ASSUME NEW j \in 1 .. Len(s) + 1
        PROVE  t[j] = IF j < i THEN s[j] ELSE IF j = i THEN e ELSE s[j - 1]
    BY <2>1, InsertAtProperties
  <2> QED BY <2>2, <2>3, <2>4
<1>2. /\ Len(s) \in Nat /\ i \in Nat /\ DOMAIN s = 1 .. Len(s)
      /\ DOMAIN t = 1 .. Len(s) + 1
  BY <1>1
<1> HIDE DEF t
<1>3. \A j \in DOMAIN t : j # i =>
          \E k \in DOMAIN s : t[j] = s[k] /\ k = IF j < i THEN j ELSE j - 1
  <2> SUFFICES ASSUME NEW j \in DOMAIN t, j # i
               PROVE  \E k \in DOMAIN s : t[j] = s[k] /\ k = IF j < i THEN j ELSE j - 1
    OBVIOUS
  <2>1. CASE j < i
    BY <2>1, <1>1, <1>2
  <2>2. CASE j > i
    <3>1. j - 1 \in DOMAIN s
      BY <2>2, <1>2
    <3> QED BY <2>2, <3>1, <1>1, <1>2
  <2> QED BY <2>1, <2>2, <1>2
<1>4. t[i] = e /\ i \in DOMAIN t
  BY <1>1, <1>2
<1>5. \A k \in DOMAIN s : \E j \in DOMAIN t : t[j] = s[k]
  <2> TAKE k \in DOMAIN s
  <2>1. CASE k < i
    BY <2>1, <1>1, <1>2
  <2>2. CASE k >= i
    <3>1. k + 1 \in DOMAIN t /\ ~(k + 1 < i) /\ k + 1 # i /\ (k + 1) - 1 = k
      BY <2>2, <1>2
    <3> QED BY <3>1, <1>1, <1>2
  <2> QED BY <2>1, <2>2, <1>2
<1>6. DistinctIds(t)
  <2> SUFFICES ASSUME NEW j \in DOMAIN t, NEW k \in DOMAIN t, t[j].id = t[k].id
               PROVE  j = k
    BY DEF DistinctIds
  <2>1. \A m \in DOMAIN t : m # i => t[m].id # e.id
    BY <1>3 DEF ToSet
  <2>2. CASE j = i
    BY <2>1, <2>2, <1>4
  <2>3. CASE k = i
    BY <2>1, <2>3, <1>4
  <2>4. CASE j # i /\ k # i
    <3>1. PICK a \in DOMAIN s : t[j] = s[a] /\ a = IF j < i THEN j ELSE j - 1
      BY <2>4, <1>3
    <3>2. PICK b \in DOMAIN s : t[k] = s[b] /\ b = IF k < i THEN k ELSE k - 1
      BY <2>4, <1>3
    <3>3. a = b
      BY <3>1, <3>2 DEF DistinctIds
    <3> QED BY <3>1, <3>2, <3>3, <2>4, <1>2
  <2> QED BY <2>2, <2>3, <2>4
<1>7. ToSet(t) = ToSet(s) \cup {e}
  <2>1. ASSUME NEW x \in ToSet(t) PROVE x \in ToSet(s) \cup {e}
    BY <1>3, <1>4 DEF ToSet
  <2>2. ASSUME NEW x \in ToSet(s) \cup {e} PROVE x \in ToSet(t)
    BY <1>4, <1>5 DEF ToSet
  <2> QED BY <2>1, <2>2
<1> QED BY <1>1, <1>6, <1>7 DEF Differs, t

LEMMA AppendedList ==
    ASSUME NEW S, NEW s \in Seq(S), NEW e \in S,
           DistinctIds(s), \A x \in ToSet(s) : x.id # e.id
    PROVE  /\ Append(s, e) \in Seq(S)
           /\ DistinctIds(Append(s, e))
           /\ Differs(s, Append(s, e), {}, {e})
<1> DEFINE t == Append(s, e)
<1>1. /\ t \in Seq(S) /\ Len(t) = Len(s) + 1
      /\ \A j \in 1 .. Len(s) : t[j] = s[j]
      /\ t[Len(s) + 1] = e
  BY AppendProperties
<1> HIDE DEF t
<1>2. /\ Len(s) \in Nat /\ DOMAIN s = 1 .. Len(s)
      /\ DOMAIN t = 1 .. Len(s) + 1
  BY <1>1
<1>3. DOMAIN t = DOMAIN s \cup {Len(s) + 1} /\ Len(s) + 1 \notin DOMAIN s
  BY <1>2
<1>4. \A j \in DOMAIN s : t[j] = s[j]
  BY <1>1, <1>2
<1>5. DistinctIds(t)
  BY <1>1, <1>3, <1>4, Zenon DEF DistinctIds, ToSet
<1>6. ToSet(t) = ToSet(s) \cup {e}
  <2>1. ASSUME NEW x \in ToSet(t) PROVE x \in ToSet(s) \cup {e}
    BY <1>1, <1>3, <1>4 DEF ToSet
  <2>2. ASSUME NEW x \in ToSet(s) \cup {e} PROVE x \in ToSet(t)
    BY <1>1, <1>3, <1>4 DEF ToSet
  <2> QED BY <2>1, <2>2
<1> QED BY <1>1, <1>5, <1>6 DEF Differs, t

LEMMA RemovedList ==
    ASSUME NEW S, NEW s \in Seq(S), NEW i \in DOMAIN s, DistinctIds(s)
    PROVE  /\ RemoveAt(s, i) \in Seq(S)
           /\ Len(RemoveAt(s, i)) = Len(s) - 1
           /\ DistinctIds(RemoveAt(s, i))
           /\ Differs(s, RemoveAt(s, i), {s[i]}, {})
<1> DEFINE t == RemoveAt(s, i)
<1>0. i \in 1 .. Len(s)
  OBVIOUS
<1>1. /\ t \in Seq(S) /\ Len(t) = Len(s) - 1
      /\ \A j \in 1 .. Len(s) - 1 : t[j] = IF j < i THEN s[j] ELSE s[j + 1]
  BY <1>0, RemoveAtProperties
<1>2. /\ Len(s) \in Nat /\ i \in Nat /\ DOMAIN s = 1 .. Len(s)
      /\ DOMAIN t = 1 .. Len(s) - 1
  BY <1>1
<1> HIDE DEF t
<1>3. \A j \in DOMAIN t :
          \E k \in DOMAIN s : t[j] = s[k] /\ k # i /\ k = IF j < i THEN j ELSE j + 1
  <2> TAKE j \in DOMAIN t
  <2>1. CASE j < i
    BY <2>1, <1>1, <1>2
  <2>2. CASE j >= i
    <3>1. j + 1 \in DOMAIN s /\ j + 1 # i /\ ~(j < i)
      BY <2>2, <1>2
    <3> QED BY <3>1, <1>1, <1>2
  <2> QED BY <2>1, <2>2, <1>2
<1>4. \A k \in DOMAIN s : k # i => \E j \in DOMAIN t : t[j] = s[k]
  <2> SUFFICES ASSUME NEW k \in DOMAIN s, k # i
               PROVE  \E j \in DOMAIN t : t[j] = s[k]
    OBVIOUS
  <2>1. CASE k < i
    BY <2>1, <1>1, <1>2
  <2>2. CASE k > i
    <3>1. k - 1 \in DOMAIN t /\ ~(k - 1 < i) /\ (k - 1) + 1 = k
      BY <2>2, <1>2
    <3> QED BY <3>1, <1>1, <1>2
  <2> QED BY <2>1, <2>2, <1>2
<1>5. DistinctIds(t)
  <2> SUFFICES ASSUME NEW j \in DOMAIN t, NEW k \in DOMAIN t, t[j].id = t[k].id
               PROVE  j = k
    BY DEF DistinctIds
  <2>1. PICK a \in DOMAIN s : t[j] = s[a] /\ a = IF j < i THEN j ELSE j + 1
    BY <1>3
  <2>2. PICK b \in DOMAIN s : t[k] = s[b] /\ b = IF k < i THEN k ELSE k + 1
    BY <1>3
  <2>3. a = b
    BY <2>1, <2>2 DEF DistinctIds
  <2> QED BY <2>1, <2>2, <2>3, <1>2
<1>6. ToSet(t) = ToSet(s) \ {s[i]}
  <2>1. \A k \in DOMAIN s : k # i => s[k] # s[i]
    BY DEF DistinctIds
  <2>2. ASSUME NEW x \in ToSet(t) PROVE x \in ToSet(s) \ {s[i]}
    BY <2>1, <1>3 DEF ToSet
  <2>3. ASSUME NEW x \in ToSet(s) \ {s[i]} PROVE x \in ToSet(t)
    BY <1>4 DEF ToSet
  <2> QED BY <2>2, <2>3
<1> QED BY <1>1, <1>5, <1>6 DEF Differs, t

LEMMA ReplacedList ==
    ASSUME NEW S, NEW s \in Seq(S), NEW i \in DOMAIN s, NEW e \in S,
           DistinctIds(s), e.id = s[i].id
    PROVE  /\ [s EXCEPT ![i] = e] \in Seq(S)
           /\ DistinctIds([s EXCEPT ![i] = e])
           /\ Differs(s, [s EXCEPT ![i] = e], {s[i]}, {e})
<1> DEFINE t == [s EXCEPT ![i] = e]
<1>1. t \in Seq(S)
  BY ExceptSeq
<1>2. DOMAIN t = DOMAIN s /\ t[i] = e /\ \A j \in DOMAIN s : j # i => t[j] = s[j]
  OBVIOUS
<1> HIDE DEF t
<1>3. \A j \in DOMAIN s : t[j].id = s[j].id
  BY <1>2
<1>4. DistinctIds(t)
  BY <1>2, <1>3, Zenon DEF DistinctIds
<1>5. ToSet(t) = (ToSet(s) \ {s[i]}) \cup {e}
  <2>1. \A k \in DOMAIN s : k # i => s[k] # s[i]
    BY DEF DistinctIds
  <2>2. ASSUME NEW x \in ToSet(t) PROVE x \in (ToSet(s) \ {s[i]}) \cup {e}
    BY <2>1, <1>2 DEF ToSet
  <2>3. ASSUME NEW x \in (ToSet(s) \ {s[i]}) \cup {e} PROVE x \in ToSet(t)
    BY <1>2 DEF ToSet
  <2> QED BY <2>2, <2>3
<1> QED BY <1>1, <1>4, <1>5 DEF Differs, t

-----------------------------------------------------------------------------
(* Who owns which pixels, by the set of layers of each canvas. *)

LayersIn(c) == IF canvases[c] = NULL THEN {} ELSE ToSet(LayersOf(c))
Layered == [c \in Addresses |-> LayersIn(c)]

\* With the layers L, each buffer of the heap h belongs to one layer, whose
\* content it fits.
Owned(L, h) ==
    /\ h \in [DOMAIN h -> Pixels]
    /\ DOMAIN h \subseteq Buffers
    /\ \A b \in DOMAIN h : \E c \in Addresses : \E l \in L[c] : l.px = b
    /\ \A c \in Addresses : \A l \in L[c] :
          l.px # NULL => l.px \in DOMAIN h /\ h[l.px].size = l.size
    /\ \A c, d \in Addresses : \A l \in L[c], k \in L[d] :
          l.px # NULL /\ l.px = k.px => c = d /\ l = k

\* The heap h becomes g while the layers in A go and those in B come: what is
\* not of A stays, what is there is of B or was there and is not of A, and
\* those in B have buffers of their own, new ones or of A.
HeapFollows(h, g, A, B) ==
    /\ g \in [DOMAIN g -> Pixels]
    /\ DOMAIN g \subseteq Buffers
    /\ \A b \in DOMAIN h : (\A l \in A : l.px # b) => b \in DOMAIN g /\ g[b] = h[b]
    /\ \A b \in DOMAIN g : (\A l \in B : l.px # b) =>
          b \in DOMAIN h /\ \A l \in A : l.px # b
    /\ \A l \in B : l.px # NULL =>
          /\ l.px \in DOMAIN g /\ g[l.px].size = l.size
          /\ l.px \in DOMAIN h => \E k \in A : k.px = l.px
          /\ \A k \in B : l.px = k.px => l = k

LEMMA OwnersChange ==
    ASSUME NEW L \in [Addresses -> SUBSET Layer], NEW h, NEW g,
           NEW c \in Addresses, NEW A \in SUBSET L[c], NEW B \in SUBSET Layer,
           Owned(L, h), HeapFollows(h, g, A, B)
    PROVE  Owned([L EXCEPT ![c] = (L[c] \ A) \cup B], g)
<1> DEFINE M == [L EXCEPT ![c] = (L[c] \ A) \cup B]
<1>1. /\ M[c] = (L[c] \ A) \cup B
      /\ \A d \in Addresses : d # c => M[d] = L[d]
  OBVIOUS
<1> HIDE DEF M
<1>2. \A d \in Addresses : \A k \in M[d] :
          \/ d = c /\ k \in B
          \/ k \in L[d] /\ (d = c => k \notin A)
  BY <1>1
<1>3. \A k \in B : k \in M[c]
  BY <1>1
<1>4. \A d \in Addresses : \A k \in L[d] : (d = c => k \notin A) => k \in M[d]
  BY <1>1
\* A layer that stays keeps its pixels, and no layer in A has them.
<1>5. ASSUME NEW d \in Addresses, NEW k \in L[d], d = c => k \notin A, k.px # NULL
      PROVE  /\ k.px \in DOMAIN h /\ \A l \in A : l.px # k.px
             /\ k.px \in DOMAIN g /\ g[k.px] = h[k.px] /\ h[k.px].size = k.size
  <2>1. k.px \in DOMAIN h /\ h[k.px].size = k.size
    BY <1>5 DEF Owned
  <2>2. \A l \in A : l.px # k.px
    BY <1>5 DEF Owned
  <2> QED BY <2>1, <2>2 DEF HeapFollows
<1>6. ASSUME NEW b \in DOMAIN g
      PROVE  \E d \in Addresses : \E k \in M[d] : k.px = b
  <2>1. CASE \E l \in B : l.px = b
    BY <2>1, <1>3
  <2>2. CASE ~\E l \in B : l.px = b
    <3>1. b \in DOMAIN h /\ \A l \in A : l.px # b
      BY <2>2 DEF HeapFollows
    <3>2. PICK d \in Addresses : \E k \in L[d] : k.px = b
      BY <3>1 DEF Owned
    <3> QED BY <3>1, <3>2, <1>4
  <2> QED BY <2>1, <2>2
<1>7. ASSUME NEW d \in Addresses, NEW k \in M[d], k.px # NULL
      PROVE  k.px \in DOMAIN g /\ g[k.px].size = k.size
  <2>1. CASE k \in B
    BY <2>1, <1>7 DEF HeapFollows
  <2>2. CASE k \in L[d] /\ (d = c => k \notin A)
    BY <2>2, <1>5, <1>7
  <2> QED BY <2>1, <2>2, <1>2
<1>8. ASSUME NEW d \in Addresses, NEW e \in Addresses, NEW l \in M[d], NEW k \in M[e],
             l.px # NULL, l.px = k.px
      PROVE  d = e /\ l = k
  <2>1. CASE d = c /\ l \in B /\ e = c /\ k \in B
    BY <2>1, <1>8 DEF HeapFollows
  <2>2. CASE d = c /\ l \in B /\ k \in L[e] /\ (e = c => k \notin A)
    BY <2>2, <1>5, <1>8 DEF HeapFollows
  <2>3. CASE e = c /\ k \in B /\ l \in L[d] /\ (d = c => l \notin A)
    BY <2>3, <1>5, <1>8 DEF HeapFollows
  <2>4. CASE l \in L[d] /\ k \in L[e]
    BY <2>4, <1>8 DEF Owned
  <2> QED BY <2>1, <2>2, <2>3, <2>4, <1>2
<1> QED BY <1>6, <1>7, <1>8 DEF Owned, HeapFollows, M

-----------------------------------------------------------------------------
(* The canvases. *)

\* A canvas names its layers apart, by ids it has given.
CanvasOK(cv) ==
    /\ DistinctIds(cv.layers)
    /\ \A l \in ToSet(cv.layers) : l.id < cv.next_layer_id

\* The inductive invariant of the canvases.
CanvasInv ==
    /\ canvases \in [Addresses -> CanvasState \cup {NULL}]
    /\ births \in [Addresses -> Nat]
    /\ \A c \in Open : CanvasOK(canvases[c]) /\ births[c] > 0
    /\ Owned(Layered, heap)

LEMMA Nulls == /\ \A c \in Addresses : c # NULL
               /\ \A b \in Buffers : b # NULL
               /\ \A s \in Shows : s # NULL
               /\ \A cv \in CanvasState : cv # NULL
  BY NullAssumption

\* What a call does to one canvas: it becomes cv, with the layers in A gone
\* and those in B come.
LEMMA CanvasChange ==
    ASSUME CanvasInv, NEW c \in Addresses, NEW cv \in CanvasState \cup {NULL},
           NEW A \in SUBSET LayersIn(c), NEW B \in SUBSET Layer,
           canvases' = [canvases EXCEPT ![c] = cv],
           births' \in [Addresses -> Nat],
           \A d \in Addresses : d # c => births'[d] = births[d],
           cv = NULL => (LayersIn(c) \ A) \cup B = {},
           cv # NULL => /\ CanvasOK(cv) /\ births'[c] > 0
                        /\ ToSet(cv.layers) = (LayersIn(c) \ A) \cup B,
           HeapFollows(heap, heap', A, B)
    PROVE  CanvasInv'
<1>1. /\ canvases' \in [Addresses -> CanvasState \cup {NULL}]
      /\ canvases'[c] = cv
      /\ \A d \in Addresses : d # c => canvases'[d] = canvases[d]
  BY DEF CanvasInv
<1>2. \A d \in Open' : CanvasOK(canvases'[d]) /\ births'[d] > 0
  <2> TAKE d \in Open'
  <2>1. d \in Addresses /\ canvases'[d] # NULL
    BY DEF Open
  <2>2. CASE d = c
    BY <2>1, <2>2, <1>1
  <2>3. CASE d # c
    BY <2>1, <2>3, <1>1 DEF CanvasInv, Open
  <2> QED BY <2>2, <2>3
<1>3. Layered \in [Addresses -> SUBSET Layer] /\ Layered[c] = LayersIn(c)
  <2>1. ASSUME NEW d \in Addresses PROVE LayersIn(d) \subseteq Layer
    <3>1. CASE canvases[d] = NULL
      BY <3>1 DEF LayersIn
    <3>2. CASE canvases[d] # NULL
      <4>1. canvases[d] \in CanvasState
        BY <3>2 DEF CanvasInv
      <4>2. LayersOf(d) \in Seq(Layer)
        BY <4>1 DEF CanvasState, LayersOf
      <4> QED BY <3>2, <4>2 DEF LayersIn, ToSet
    <3> QED BY <3>1, <3>2
  <2> QED BY <2>1 DEF Layered
<1>4. LayersIn(c)' = (LayersIn(c) \ A) \cup B
  BY <1>1 DEF LayersIn, LayersOf
<1>5. \A d \in Addresses : d # c => LayersIn(d)' = LayersIn(d)
  BY <1>1 DEF LayersIn, LayersOf
<1>6. Layered' = [Layered EXCEPT ![c] = (Layered[c] \ A) \cup B]
  <2>1. Layered' = [d \in Addresses |-> LayersIn(d)']
    BY DEF Layered
  <2> QED BY <2>1, <1>3, <1>4, <1>5 DEF Layered
<1>7. Owned(Layered', heap')
  <2> DEFINE L == Layered
  <2>1. Owned(L, heap)
    BY DEF CanvasInv
  <2>2. L \in [Addresses -> SUBSET Layer] /\ A \in SUBSET L[c]
    BY <1>3
  <2> HIDE DEF L
  <2>3. Owned([L EXCEPT ![c] = (L[c] \ A) \cup B], heap')
    BY <2>1, <2>2, OwnersChange
  <2> QED BY <2>3, <1>6 DEF L
<1> QED BY <1>1, <1>2, <1>7 DEF CanvasInv

-----------------------------------------------------------------------------
(* What the calls do to the heap. *)

HeapOK(h) == h \in [DOMAIN h -> Pixels] /\ DOMAIN h \subseteq Buffers

LEMMA HeapIsKept ==
    ASSUME NEW h, NEW A, NEW B, HeapOK(h),
           \/ A = {} /\ \A l \in B : l.px = NULL
           \/ \E l, k : /\ A = {l} /\ B = {k} /\ k.px = l.px /\ k.size = l.size
                        /\ l.px # NULL => l.px \in DOMAIN h /\ h[l.px].size = l.size
    PROVE  HeapFollows(h, h, A, B)
<1>1. CASE A = {} /\ \A l \in B : l.px = NULL
  <2>1. \A b \in DOMAIN h : b # NULL
    BY Nulls DEF HeapOK
  <2> QED BY <1>1, <2>1 DEF HeapFollows, HeapOK
<1>2. CASE \E l, k : /\ A = {l} /\ B = {k} /\ k.px = l.px /\ k.size = l.size
                     /\ l.px # NULL => l.px \in DOMAIN h /\ h[l.px].size = l.size
  <2>1. PICK l, k : /\ A = {l} /\ B = {k} /\ k.px = l.px /\ k.size = l.size
                    /\ l.px # NULL => l.px \in DOMAIN h /\ h[l.px].size = l.size
    BY <1>2
  <2> QED BY <2>1 DEF HeapFollows, HeapOK
<1> QED BY <1>1, <1>2

\* A buffer that is free is allocated.
LEMMA AllocatedHeap ==
    ASSUME NEW h, HeapOK(h), CanAllocate(h), NEW z \in LayerSizes, NEW p \in Shows
    PROVE  /\ NewBuffer(h) \in Buffers \ DOMAIN h
           /\ HeapOK(Allocated(h, z, p))
           /\ DOMAIN Allocated(h, z, p) = DOMAIN h \cup {NewBuffer(h)}
           /\ Allocated(h, z, p)[NewBuffer(h)].size = z
           /\ \A b \in DOMAIN h : Allocated(h, z, p)[b] = h[b]
<1>1. NewBuffer(h) \in Buffers \ DOMAIN h
  BY DEF NewBuffer, CanAllocate, HeapOK
<1> DEFINE n == NewBuffer(h)
           g == [b \in DOMAIN h \cup {n} |->
                    IF b = n THEN [size |-> z, shows |-> p] ELSE h[b]]
<1>2. Allocated(h, z, p) = g
  BY DEF Allocated
<1> HIDE DEF n
<1>3. n \in Buffers \ DOMAIN h
  BY <1>1 DEF n
<1>4. /\ DOMAIN g = DOMAIN h \cup {n} /\ g[n] = [size |-> z, shows |-> p]
      /\ \A b \in DOMAIN h : g[b] = h[b]
  BY <1>3
<1> HIDE DEF g
<1>5. [size |-> z, shows |-> p] \in Pixels /\ [size |-> z, shows |-> p].size = z
  BY DEF Pixels
<1>6. \A b \in DOMAIN g : g[b] \in Pixels /\ b \in Buffers
  BY <1>3, <1>4, <1>5 DEF HeapOK
<1>7. g = [b \in DOMAIN g |-> g[b]]
  BY DEF g
<1>8. HeapOK(g)
  BY <1>6, <1>7 DEF HeapOK
<1> QED BY <1>1, <1>2, <1>4, <1>5, <1>8 DEF n

LEMMA HeapGrows ==
    ASSUME NEW h, HeapOK(h), CanAllocate(h), NEW z \in LayerSizes, NEW p \in Shows,
           NEW l, l.px = NewBuffer(h), l.size = z
    PROVE  HeapFollows(h, Allocated(h, z, p), {}, {l})
<1> DEFINE g == Allocated(h, z, p)
<1>1. /\ NewBuffer(h) \in Buffers \ DOMAIN h /\ HeapOK(g)
      /\ DOMAIN g = DOMAIN h \cup {NewBuffer(h)}
      /\ g[NewBuffer(h)].size = z
      /\ \A b \in DOMAIN h : g[b] = h[b]
  BY AllocatedHeap
<1> HIDE DEF g
<1>2. HeapFollows(h, g, {}, {l})
  BY <1>1 DEF HeapFollows, HeapOK
<1> QED BY <1>2 DEF g

LEMMA HeapShrinks ==
    ASSUME NEW h, HeapOK(h), NEW A, NEW bs,
           \A b \in DOMAIN h : b \in bs <=> \E l \in A : l.px = b
    PROVE  HeapFollows(h, Freed(h, bs), A, {})
<1> DEFINE g == Freed(h, bs)
<1>1. DOMAIN g = DOMAIN h \ bs /\ \A b \in DOMAIN g : g[b] = h[b]
  BY DEF Freed
<1>2. g = [b \in DOMAIN g |-> g[b]]
  BY DEF Freed
<1> HIDE DEF g
<1>3. HeapOK(g)
  BY <1>1, <1>2 DEF HeapOK
<1>4. HeapFollows(h, g, A, {})
  BY <1>1, <1>3 DEF HeapFollows, HeapOK
<1> QED BY <1>4 DEF g

\* New pixels are allocated, then the old ones freed.
LEMMA HeapReplaces ==
    ASSUME NEW h, HeapOK(h), CanAllocate(h), NEW z \in LayerSizes, NEW p \in Shows,
           NEW l, l.px \in DOMAIN h \cup {NULL},
           NEW k, k.px = NewBuffer(h), k.size = z
    PROVE  HeapFollows(h, Freed(Allocated(h, z, p), {l.px} \ {NULL}), {l}, {k})
<1> DEFINE a == Allocated(h, z, p)
           g == Freed(a, {l.px} \ {NULL})
<1>1. /\ NewBuffer(h) \in Buffers \ DOMAIN h /\ HeapOK(a)
      /\ DOMAIN a = DOMAIN h \cup {NewBuffer(h)}
      /\ a[NewBuffer(h)].size = z
      /\ \A b \in DOMAIN h : a[b] = h[b]
  BY AllocatedHeap
<1> HIDE DEF a
<1>2. DOMAIN g = DOMAIN a \ ({l.px} \ {NULL}) /\ \A b \in DOMAIN g : g[b] = a[b]
  BY DEF Freed
<1>3. g = [b \in DOMAIN g |-> g[b]]
  BY DEF Freed
<1> HIDE DEF g
<1>4. HeapOK(g)
  BY <1>1, <1>2, <1>3 DEF HeapOK
<1>5. \A b \in DOMAIN a : b # NULL
  BY <1>1, Nulls DEF HeapOK
<1>6. NewBuffer(h) \in DOMAIN g
  BY <1>1, <1>2, <1>5
<1>7. HeapFollows(h, g, {l}, {k})
  BY <1>1, <1>2, <1>4, <1>5, <1>6 DEF HeapFollows, HeapOK
<1> QED BY <1>7 DEF g, a

-----------------------------------------------------------------------------
(* The calls of the canvas. *)

\* A layer a call names is in its canvas, at one place.
LEMMA NamedLayer ==
    ASSUME CanvasInv, NEW c \in Open
    PROVE  /\ c \in Addresses /\ canvases[c] # NULL /\ canvases[c] \in CanvasState
           /\ LayersOf(c) \in Seq(Layer) /\ canvases[c].next_layer_id \in Nat
           /\ CanvasOK(canvases[c]) /\ LayersOf(c) = canvases[c].layers
           /\ LayersIn(c) = ToSet(LayersOf(c)) /\ LayersIn(c) \subseteq Layer
           /\ HeapOK(heap)
           /\ \A l \in LayersIn(c) : l.px # NULL =>
                 l.px \in DOMAIN heap /\ heap[l.px].size = l.size
           /\ \A id \in IdsOf(c) :
                 /\ IndexOf(c, id) \in DOMAIN LayersOf(c)
                 /\ LayerOf(c, id) = LayersOf(c)[IndexOf(c, id)]
                 /\ LayerOf(c, id).id = id
                 /\ LayerOf(c, id) \in LayersIn(c)
<1>1. /\ c \in Addresses /\ canvases[c] # NULL /\ canvases[c] \in CanvasState
  BY DEF Open, CanvasInv
<1>2. /\ LayersOf(c) \in Seq(Layer) /\ canvases[c].next_layer_id \in Nat
      /\ CanvasOK(canvases[c]) /\ LayersOf(c) = canvases[c].layers
      /\ LayersIn(c) = ToSet(LayersOf(c))
  BY <1>1 DEF CanvasState, LayersOf, LayersIn, CanvasInv
<1>3. LayersIn(c) \subseteq Layer
  BY <1>2 DEF ToSet
<1>4. HeapOK(heap) /\ \A l \in LayersIn(c) : l.px # NULL =>
                 l.px \in DOMAIN heap /\ heap[l.px].size = l.size
  BY <1>1 DEF CanvasInv, Owned, HeapOK, Layered
<1>5. ASSUME NEW id \in IdsOf(c)
      PROVE  /\ IndexOf(c, id) \in DOMAIN LayersOf(c)
             /\ LayerOf(c, id) = LayersOf(c)[IndexOf(c, id)]
             /\ LayerOf(c, id).id = id
             /\ LayerOf(c, id) \in LayersIn(c)
  <2>1. \E i \in DOMAIN LayersOf(c) : LayersOf(c)[i].id = id
    BY DEF IdsOf
  <2>2. IndexOf(c, id) \in DOMAIN LayersOf(c) /\ LayersOf(c)[IndexOf(c, id)].id = id
    BY <2>1 DEF IndexOf
  <2> QED BY <2>2, <1>2 DEF LayerOf, ToSet
<1> QED BY <1>1, <1>2, <1>3, <1>4, <1>5

\* An address never goes back to an earlier canvas, and a canvas gives its new
\* layers ids it had not given.
Ages ==
    \A c \in Addresses :
        /\ births'[c] >= births[c]
        /\ births'[c] = births[c] /\ canvases'[c] # NULL =>
              /\ canvases[c] # NULL
              /\ canvases'[c].next_layer_id >= canvases[c].next_layer_id
              /\ \A l \in LayersIn(c)' :
                    \/ \E k \in LayersIn(c) : k.id = l.id
                    \/ l.id >= canvases[c].next_layer_id

LEMMA NothingAges ==
    ASSUME CanvasInv, UNCHANGED canvasVars
    PROVE  CanvasInv' /\ Ages
<1>1. canvases' = canvases /\ heap' = heap /\ births' = births
  BY DEF canvasVars
<1>2. CanvasInv'
  <2>1. CanvasInv => CanvasInv'
    BY <1>1 DEF CanvasInv, Open, CanvasOK, LayersOf, LayersIn, Layered, Owned
  <2> QED BY <2>1
<1>3. ASSUME NEW c \in Addresses PROVE LayersIn(c)' = LayersIn(c)
  BY <1>1 DEF LayersIn, LayersOf
<1>4. ASSUME NEW c \in Addresses
      PROVE  /\ births[c] \in Nat
             /\ canvases[c] # NULL => canvases[c].next_layer_id \in Nat
  BY NamedLayer DEF CanvasInv, Open
<1>5. Ages
  BY <1>1, <1>3, <1>4 DEF Ages
<1> QED BY <1>2, <1>5

\* The layers in B have ids below n; those not in A from m on.
IdsBelow(B, n) == \A l \in B : l.id < n
IdsOfOthers(A, B, m) == \A l \in B : (\E k \in A : k.id = l.id) \/ l.id >= m

\* A canvas that is created or destroyed.
LEMMA ComesOrGoes ==
    ASSUME CanvasInv, NEW c \in Addresses,
           canvases' \in [Addresses -> CanvasState \cup {NULL}],
           \A d \in Addresses : d # c => /\ canvases'[d] = canvases[d]
                                         /\ births'[d] = births[d],
           \/ births'[c] = births[c] + 1
           \/ births'[c] = births[c] /\ canvases'[c] = NULL
    PROVE  Ages
<1>1. ASSUME NEW d \in Addresses
      PROVE  /\ births'[d] >= births[d]
             /\ births'[d] = births[d] => canvases'[d] = NULL \/ d # c
  BY DEF CanvasInv
<1>2. ASSUME NEW d \in Addresses, d # c, canvases'[d] # NULL
      PROVE  /\ canvases[d] # NULL
             /\ canvases'[d].next_layer_id >= canvases[d].next_layer_id
             /\ LayersIn(d)' = LayersIn(d)
  <2>1. canvases'[d] = canvases[d]
    BY <1>2
  <2>2. LayersIn(d)' = LayersIn(d)
    BY <2>1 DEF LayersIn, LayersOf
  <2>3. canvases[d].next_layer_id \in Nat
    BY <1>2, <2>1, NamedLayer DEF Open
  <2> QED BY <2>1, <2>2, <2>3, <1>2
<1> QED BY <1>1, <1>2 DEF Ages

\* A call that leaves its canvas open.
LEMMA CallKeepsInv ==
    ASSUME CanvasInv, NEW c \in Open, NEW cv \in CanvasState,
           NEW A \in SUBSET LayersIn(c), NEW B \in SUBSET Layer,
           canvases' = [canvases EXCEPT ![c] = cv], births' = births,
           DistinctIds(cv.layers), Differs(LayersOf(c), cv.layers, A, B),
           cv.next_layer_id >= canvases[c].next_layer_id,
           IdsBelow(B, cv.next_layer_id),
           IdsOfOthers(A, B, canvases[c].next_layer_id),
           HeapFollows(heap, heap', A, B)
    PROVE  CanvasInv' /\ Ages
<1>1. /\ c \in Addresses /\ canvases[c].next_layer_id \in Nat /\ CanvasOK(canvases[c])
      /\ LayersOf(c) = canvases[c].layers /\ LayersIn(c) = ToSet(LayersOf(c))
      /\ LayersIn(c) \subseteq Layer
  BY NamedLayer
<1>2. cv.next_layer_id \in Nat /\ cv # NULL
  BY Nulls DEF CanvasState
<1>3. ToSet(cv.layers) = (LayersIn(c) \ A) \cup B
  BY <1>1 DEF Differs
<1>4. \A l \in ToSet(cv.layers) : l.id < cv.next_layer_id
  <2> TAKE l \in ToSet(cv.layers)
  <2>1. CASE l \in B
    BY <2>1 DEF IdsBelow
  <2>2. CASE l \in LayersIn(c)
    <3>1. l.id \in Nat /\ l.id < canvases[c].next_layer_id
      BY <2>2, <1>1 DEF CanvasOK, Layer
    <3> QED BY <3>1, <1>1, <1>2
  <2> QED BY <2>1, <2>2, <1>3
<1>5. CanvasOK(cv)
  BY <1>4 DEF CanvasOK
<1>6. births' \in [Addresses -> Nat] /\ births'[c] > 0
  BY DEF CanvasInv
<1>7. CanvasInv'
  BY <1>1, <1>2, <1>3, <1>5, <1>6, CanvasChange
<1>8. ASSUME NEW d \in Addresses, canvases'[d] # NULL
      PROVE  /\ canvases[d] # NULL
             /\ canvases'[d].next_layer_id >= canvases[d].next_layer_id
             /\ \A l \in LayersIn(d)' :
                   \/ \E k \in LayersIn(d) : k.id = l.id
                   \/ l.id >= canvases[d].next_layer_id
  <2>1. CASE d = c
    <3>1. canvases'[c] = cv /\ canvases[c] # NULL
      BY DEF CanvasInv, Open
    <3>2. LayersIn(c)' = ToSet(cv.layers)
      BY <3>1, <1>2 DEF LayersIn, LayersOf
    <3>3. ASSUME NEW l \in ToSet(cv.layers)
          PROVE  \/ \E k \in LayersIn(c) : k.id = l.id
                 \/ l.id >= canvases[c].next_layer_id
      BY <1>3 DEF IdsOfOthers
    <3> QED BY <2>1, <3>1, <3>2, <3>3
  <2>2. CASE d # c
    <3>1. canvases'[d] = canvases[d]
      BY <2>2 DEF CanvasInv
    <3>2. LayersIn(d)' = LayersIn(d)
      BY <3>1 DEF LayersIn, LayersOf
    <3>3. canvases[d].next_layer_id \in Nat
      BY <1>8, <3>1, NamedLayer DEF Open
    <3> QED BY <3>1, <3>2, <3>3, <1>8
  <2> QED BY <2>1, <2>2
<1>9. \A d \in Addresses : births'[d] >= births[d]
  BY DEF CanvasInv
<1>10. Ages
  BY <1>8, <1>9 DEF Ages
<1> QED BY <1>7, <1>10

LEMMA PlacedList ==
    ASSUME NEW S, NEW s \in Seq(S), NEW index \in Int, NEW e \in S,
           DistinctIds(s), \A x \in ToSet(s) : x.id # e.id
    PROVE  /\ Placed(s, index, e) \in Seq(S)
           /\ DistinctIds(Placed(s, index, e))
           /\ Differs(s, Placed(s, index, e), {}, {e})
<1>1. CASE index < 0 \/ index >= Len(s)
  <2>1. Placed(s, index, e) = Append(s, e)
    BY <1>1 DEF Placed
  <2> QED BY <2>1, AppendedList
<1>2. CASE ~(index < 0 \/ index >= Len(s))
  <2>1. Placed(s, index, e) = InsertAt(s, index + 1, e)
    BY <1>2 DEF Placed
  <2>2. index + 1 \in 1 .. Len(s) + 1
    BY <1>2
  <2> QED BY <2>1, <2>2, InsertedList
<1> QED BY <1>1, <1>2

\* Ids not given yet are not in the canvas.
LEMMA NextIdIsNew ==
    ASSUME CanvasInv, NEW c \in Open
    PROVE  \A l \in ToSet(LayersOf(c)) : l.id # canvases[c].next_layer_id
<1>1. /\ canvases[c].next_layer_id \in Nat /\ CanvasOK(canvases[c])
      /\ LayersOf(c) = canvases[c].layers
  BY NamedLayer
<1> QED BY <1>1 DEF CanvasOK

LEMMA ChangedCanvas ==
    ASSUME NEW cv \in CanvasState, NEW t, NEW n
    PROVE  [cv EXCEPT !.layers = t, !.next_layer_id = n]
              = [layers |-> t, next_layer_id |-> n, size |-> cv.size]
<1> DEFINE a == [cv EXCEPT !.layers = t, !.next_layer_id = n]
           b == [layers |-> t, next_layer_id |-> n, size |-> cv.size]
<1>1. DOMAIN a = {"layers", "next_layer_id", "size"} /\ a = [f \in DOMAIN a |-> a[f]]
  BY DEF CanvasState
<1>2. a["layers"] = t /\ a["next_layer_id"] = n /\ a["size"] = cv.size
  BY DEF CanvasState
<1>3. DOMAIN b = {"layers", "next_layer_id", "size"} /\ b = [f \in DOMAIN b |-> b[f]]
  OBVIOUS
<1>4. b["layers"] = t /\ b["next_layer_id"] = n /\ b["size"] = cv.size
  OBVIOUS
<1> HIDE DEF a, b
<1>5. a = b
  BY <1>1, <1>2, <1>3, <1>4
<1> QED BY <1>5 DEF a, b

LEMMA CreatedLayer ==
    ASSUME NEW n \in Nat, NEW t \in {"image", "solid", "group"},
           NEW a \in Names \cup {"Image", "Text", "SolidColor", "Group"},
           NEW z \in LayerSizes
    PROVE  /\ create_layer(n, t, a, z) \in Layer
           /\ create_layer(n, t, a, z).id = n
           /\ create_layer(n, t, a, z).size = z
           /\ create_layer(n, t, a, z).px = NULL
  BY DEF create_layer, Layer

\* Giving a canvas a layer, at any place, and an id to come after it.
LEMMA NewLayerKeepsInv ==
    ASSUME CanvasInv, NEW c \in Open, NEW l \in Layer, NEW cv, NEW t,
           l.id = canvases[c].next_layer_id,
           t \in Seq(Layer), DistinctIds(t), Differs(LayersOf(c), t, {}, {l}),
           cv = [layers |-> t, next_layer_id |-> canvases[c].next_layer_id + 1,
                 size |-> canvases[c].size],
           canvases' = [canvases EXCEPT ![c] = cv], births' = births,
           HeapFollows(heap, heap', {}, {l})
    PROVE  CanvasInv' /\ Ages
<1>1. /\ c \in Addresses /\ canvases[c] \in CanvasState
      /\ canvases[c].next_layer_id \in Nat
  BY NamedLayer
<1>2. cv \in CanvasState /\ cv.layers = t
      /\ cv.next_layer_id = canvases[c].next_layer_id + 1
  BY <1>1 DEF CanvasState
<1> DEFINE none == {}  B == {l}
<1>3. /\ cv.next_layer_id >= canvases[c].next_layer_id
      /\ IdsBelow(B, cv.next_layer_id)
      /\ IdsOfOthers(none, B, canvases[c].next_layer_id)
  BY <1>1, <1>2 DEF IdsBelow, IdsOfOthers
<1>4. none \in SUBSET LayersIn(c) /\ B \in SUBSET Layer
  OBVIOUS
<1>5. /\ DistinctIds(cv.layers) /\ Differs(LayersOf(c), cv.layers, none, B)
      /\ HeapFollows(heap, heap', none, B)
  BY <1>2
<1> HIDE DEF none, B
<1> QED BY <1>2, <1>3, <1>4, <1>5, CallKeepsInv

\* An id that is spent, and nothing else.
LEMMA OutOfMemoryKeepsInv ==
    ASSUME CanvasInv, NEW c \in Open, OutOfMemory(c)
    PROVE  CanvasInv' /\ Ages
<1> DEFINE cv == [layers |-> LayersOf(c), size |-> canvases[c].size,
                  next_layer_id |-> canvases[c].next_layer_id + 1]
<1>1. /\ c \in Addresses /\ canvases[c] \in CanvasState
      /\ canvases[c].next_layer_id \in Nat /\ CanvasOK(canvases[c])
      /\ LayersOf(c) = canvases[c].layers /\ HeapOK(heap)
  BY NamedLayer
<1>2. cv \in CanvasState /\ cv.layers = LayersOf(c)
      /\ cv.next_layer_id = canvases[c].next_layer_id + 1
  BY <1>1 DEF CanvasState
<1>3. /\ canvases' = [canvases EXCEPT ![c].next_layer_id = @ + 1]
      /\ heap' = heap /\ births' = births
  BY DEF OutOfMemory
<1>4. [canvases[c] EXCEPT !.next_layer_id = @ + 1] = cv
  BY <1>1 DEF CanvasState
<1>5. canvases' = [canvases EXCEPT ![c] = cv]
  BY <1>3, <1>4
<1> HIDE DEF cv
<1> DEFINE none == {}
<1>6. DistinctIds(cv.layers) /\ Differs(LayersOf(c), cv.layers, none, none)
  BY <1>1, <1>2 DEF CanvasOK, Differs
<1>7. HeapFollows(heap, heap', none, none)
  BY <1>1, <1>3, HeapIsKept
<1>8. none \in SUBSET LayersIn(c) /\ none \in SUBSET Layer
      /\ IdsBelow(none, cv.next_layer_id)
      /\ IdsOfOthers(none, none, canvases[c].next_layer_id)
  BY DEF IdsBelow, IdsOfOthers
<1>9. cv.next_layer_id >= canvases[c].next_layer_id
  BY <1>1, <1>2
<1> HIDE DEF none
<1> QED BY <1>1, <1>2, <1>3, <1>5, <1>6, <1>7, <1>8, <1>9, CallKeepsInv

\* A layer with pixels, at any place: an image, a color or text.
LEMMA PixelLayerKeepsInv ==
    ASSUME CanvasInv, NEW c \in Open, NEW index \in Int,
           NEW t \in {"image", "solid"}, NEW a \in {"Image", "Text", "SolidColor"},
           NEW z \in LayerSizes, NEW p \in Shows,
           CanAllocate(heap), heap' = Allocated(heap, z, p), births' = births,
           canvases' = [canvases EXCEPT ![c] =
                            WithPixelLayer(@, heap, t, a, z, index)]
    PROVE  CanvasInv' /\ Ages
<1> DEFINE cv == canvases[c]
           l == [create_layer(cv.next_layer_id, t, a, z) EXCEPT !.px = NewBuffer(heap)]
           list == Placed(cv.layers, index, l)
<1>1. /\ c \in Addresses /\ cv \in CanvasState /\ HeapOK(heap)
      /\ cv.next_layer_id \in Nat /\ CanvasOK(cv)
      /\ LayersOf(c) = cv.layers /\ LayersOf(c) \in Seq(Layer)
  BY NamedLayer
<1>2. NewBuffer(heap) \in Buffers
  BY <1>1, AllocatedHeap
<1>3. l \in Layer /\ l.id = cv.next_layer_id /\ l.px = NewBuffer(heap) /\ l.size = z
  <2> DEFINE n == cv.next_layer_id
             k == create_layer(n, t, a, z)
  <2>1. /\ n \in Nat /\ t \in {"image", "solid", "group"}
        /\ a \in Names \cup {"Image", "Text", "SolidColor", "Group"}
    BY <1>1
  <2> HIDE DEF n
  <2>2. k \in Layer /\ k.id = n /\ k.size = z
    BY <2>1, CreatedLayer
  <2> HIDE DEF k
  <2>3. [k EXCEPT !.px = NewBuffer(heap)] \in Layer
    BY <2>2, <1>2 DEF Layer
  <2>4. /\ [k EXCEPT !.px = NewBuffer(heap)].id = n
        /\ [k EXCEPT !.px = NewBuffer(heap)].size = z
        /\ [k EXCEPT !.px = NewBuffer(heap)].px = NewBuffer(heap)
    BY <2>2 DEF Layer
  <2> QED BY <2>3, <2>4 DEF k, n
<1>4. \A k \in ToSet(LayersOf(c)) : k.id # cv.next_layer_id
  BY NextIdIsNew
<1> HIDE DEF l
<1>5. /\ list \in Seq(Layer) /\ DistinctIds(list)
      /\ Differs(LayersOf(c), list, {}, {l})
  BY <1>1, <1>3, <1>4, PlacedList DEF CanvasOK
<1> HIDE DEF list
<1>6. WithPixelLayer(cv, heap, t, a, z, index) =
         [layers |-> list, next_layer_id |-> cv.next_layer_id + 1, size |-> cv.size]
  <2> HIDE DEF cv
  <2>1. WithPixelLayer(cv, heap, t, a, z, index) =
           [cv EXCEPT !.layers = list, !.next_layer_id = cv.next_layer_id + 1]
    BY DEF WithPixelLayer, list, l
  <2> QED BY <2>1, <1>1, ChangedCanvas
<1>7. HeapFollows(heap, heap', {}, {l})
  BY <1>1, <1>3, HeapGrows
<1>8. canvases' = [canvases EXCEPT ![c] =
         [layers |-> list, next_layer_id |-> cv.next_layer_id + 1, size |-> cv.size]]
  BY <1>6
<1> QED BY <1>3, <1>5, <1>7, <1>8, NewLayerKeepsInv

LEMMA AddPixelsKeepsInv ==
    ASSUME CanvasInv, NEW c \in Open, NEW index \in Int,
           NEW t \in {"image", "solid"}, NEW a \in {"Image", "Text", "SolidColor"},
           NEW z \in LayerSizes, NEW p \in Shows, AddPixels(c, t, a, z, p, index)
    PROVE  CanvasInv' /\ Ages
<1>1. CASE OutOfMemory(c)
  BY <1>1, OutOfMemoryKeepsInv
<1>2. CASE ~OutOfMemory(c)
  <2>1. /\ CanAllocate(heap) /\ heap' = Allocated(heap, z, p) /\ births' = births
        /\ canvases' = [canvases EXCEPT ![c] =
                            WithPixelLayer(@, heap, t, a, z, index)]
    BY <1>2 DEF AddPixels
  <2> QED BY <2>1, PixelLayerKeepsInv
<1> QED BY <1>1, <1>2

LEMMA AddGroupKeepsInv ==
    ASSUME CanvasInv, NEW c \in Open, NEW index \in Int, AddGroup(c, index)
    PROVE  CanvasInv' /\ Ages
<1> DEFINE cv == canvases[c]
           l == create_layer(cv.next_layer_id, "group", "Group", cv.size)
           list == Placed(cv.layers, index, l)
           new == [layers |-> list, next_layer_id |-> cv.next_layer_id + 1, size |-> cv.size]
<1>1. /\ c \in Addresses /\ cv \in CanvasState /\ HeapOK(heap)
      /\ cv.next_layer_id \in Nat /\ CanvasOK(cv)
      /\ LayersOf(c) = cv.layers /\ LayersOf(c) \in Seq(Layer)
  BY NamedLayer
<1>2. cv.size \in LayerSizes
  BY <1>1 DEF CanvasState, LayerSizes
<1>3. l \in Layer /\ l.id = cv.next_layer_id /\ l.px = NULL
  <2> DEFINE n == cv.next_layer_id  z == cv.size
             t == "group"  a == "Group"
  <2>1. /\ n \in Nat /\ t \in {"image", "solid", "group"} /\ z \in LayerSizes
        /\ a \in Names \cup {"Image", "Text", "SolidColor", "Group"}
    BY <1>1, <1>2
  <2> HIDE DEF n, z, t, a
  <2>2. /\ create_layer(n, t, a, z) \in Layer /\ create_layer(n, t, a, z).id = n
        /\ create_layer(n, t, a, z).px = NULL
    BY <2>1, CreatedLayer
  <2> QED BY <2>2 DEF n, z, t, a
<1>4. \A k \in ToSet(LayersOf(c)) : k.id # cv.next_layer_id
  BY NextIdIsNew
<1>5. /\ heap' = heap /\ births' = births
      /\ canvases' = [canvases EXCEPT ![c].layers = Placed(@, index, l),
                                      ![c].next_layer_id = @ + 1]
  BY DEF AddGroup
<1> HIDE DEF l
<1>6. /\ list \in Seq(Layer) /\ DistinctIds(list)
      /\ Differs(LayersOf(c), list, {}, {l})
  BY <1>1, <1>3, <1>4, PlacedList DEF CanvasOK
<1>7. canvases' = [canvases EXCEPT ![c] = new]
  <2>1. new = [[cv EXCEPT !.layers = list] EXCEPT !.next_layer_id = cv.next_layer_id + 1]
    <3> HIDE DEF list, cv
    <3> QED BY <1>1, ChangedCanvas
  <2> QED BY <2>1, <1>1, <1>5 DEF CanvasInv
<1> HIDE DEF list
<1>8. HeapFollows(heap, heap', {}, {l})
  BY <1>1, <1>3, <1>5, HeapIsKept
<1> QED BY <1>3, <1>5, <1>6, <1>7, <1>8, NewLayerKeepsInv

LEMMA CreateKeepsInv ==
    ASSUME CanvasInv, NEW c \in Addresses, NEW z \in CanvasSizes, canvas_create(c, z)
    PROVE  CanvasInv' /\ Ages
<1> DEFINE cv == NewCanvas(z)
<1>1. /\ canvases[c] = NULL /\ canvases' = [canvases EXCEPT ![c] = cv]
      /\ births' = [births EXCEPT ![c] = @ + 1] /\ heap' = heap
  BY DEF canvas_create
<1>2. /\ cv \in CanvasState /\ cv # NULL /\ CanvasOK(cv) /\ ToSet(cv.layers) = {}
  <2>1. cv \in CanvasState /\ cv.layers = <<>>
    BY DEF NewCanvas, CanvasState
  <2>2. ToSet(cv.layers) = {} /\ DistinctIds(cv.layers)
    BY <2>1 DEF ToSet, DistinctIds
  <2> QED BY <2>1, <2>2, Nulls DEF CanvasOK
<1> HIDE DEF cv
<1> DEFINE none == {}
<1>3. LayersIn(c) = {} /\ ToSet(cv.layers) = (LayersIn(c) \ none) \cup none
  BY <1>1, <1>2 DEF LayersIn
<1>4. /\ births' \in [Addresses -> Nat] /\ births'[c] > 0
      /\ \A d \in Addresses : d # c => births'[d] = births[d]
  BY <1>1 DEF CanvasInv
<1>5. HeapOK(heap)
  BY DEF CanvasInv, Owned, HeapOK
<1>6. HeapFollows(heap, heap', none, none)
  BY <1>1, <1>5, HeapIsKept
<1>7. none \in SUBSET LayersIn(c) /\ none \in SUBSET Layer
  OBVIOUS
<1> HIDE DEF none
<1>8. CanvasInv'
  BY <1>1, <1>2, <1>3, <1>4, <1>6, <1>7, CanvasChange
<1>9. /\ births'[c] = births[c] + 1
      /\ canvases' \in [Addresses -> CanvasState \cup {NULL}]
      /\ \A d \in Addresses : d # c => canvases'[d] = canvases[d]
  BY <1>1, <1>8 DEF CanvasInv
<1>10. Ages
  BY <1>4, <1>9, ComesOrGoes
<1> QED BY <1>8, <1>10

LEMMA ResizeKeepsInv ==
    ASSUME CanvasInv, NEW c \in Open, NEW z \in CanvasSizes, canvas_resize(c, z)
    PROVE  CanvasInv' /\ Ages
<1> DEFINE cv == [canvases[c] EXCEPT !.size = z]
           none == {}
<1>1. /\ c \in Addresses /\ canvases[c] \in CanvasState /\ HeapOK(heap)
      /\ canvases[c].next_layer_id \in Nat /\ CanvasOK(canvases[c])
      /\ LayersOf(c) = canvases[c].layers
  BY NamedLayer
<1>2. /\ canvases' = [canvases EXCEPT ![c] = cv] /\ births' = births /\ heap' = heap
  BY DEF canvas_resize
<1>3. /\ cv \in CanvasState /\ cv.layers = LayersOf(c)
      /\ cv.next_layer_id = canvases[c].next_layer_id
  BY <1>1 DEF CanvasState
<1> HIDE DEF cv
<1>4. DistinctIds(cv.layers) /\ Differs(LayersOf(c), cv.layers, none, none)
  BY <1>1, <1>3 DEF CanvasOK, Differs
<1>5. HeapFollows(heap, heap', none, none)
  BY <1>1, <1>2, HeapIsKept
<1>6. /\ none \in SUBSET LayersIn(c) /\ none \in SUBSET Layer
      /\ IdsBelow(none, cv.next_layer_id)
      /\ IdsOfOthers(none, none, canvases[c].next_layer_id)
      /\ cv.next_layer_id >= canvases[c].next_layer_id
  BY <1>1, <1>3 DEF IdsBelow, IdsOfOthers
<1> HIDE DEF none
<1> QED BY <1>2, <1>3, <1>4, <1>5, <1>6, CallKeepsInv

LEMMA DestroyKeepsInv ==
    ASSUME CanvasInv, NEW c \in Open, canvas_destroy(c)
    PROVE  CanvasInv' /\ Ages
<1> DEFINE none == {}
           all == LayersIn(c)
<1>1. /\ c \in Addresses /\ LayersIn(c) = ToSet(LayersOf(c)) /\ HeapOK(heap)
  BY NamedLayer
<1>2. /\ canvases' = [canvases EXCEPT ![c] = NULL] /\ births' = births
      /\ heap' = Freed(heap, PixelsOf(LayersOf(c)))
  BY DEF canvas_destroy
<1>3. \A b \in DOMAIN heap : b \in PixelsOf(LayersOf(c)) <=> \E l \in all : l.px = b
  BY <1>1, Nulls DEF PixelsOf, ToSet, HeapOK
<1>4. HeapFollows(heap, heap', all, none)
  BY <1>1, <1>2, <1>3, HeapShrinks
<1>5. (LayersIn(c) \ all) \cup none = {} /\ all \in SUBSET LayersIn(c)
      /\ none \in SUBSET Layer /\ births' \in [Addresses -> Nat]
  BY <1>2 DEF CanvasInv
<1> HIDE DEF none, all
<1>6. CanvasInv'
  BY <1>1, <1>2, <1>4, <1>5, CanvasChange
<1>7. /\ canvases' \in [Addresses -> CanvasState \cup {NULL}]
      /\ canvases'[c] = NULL
      /\ \A d \in Addresses : d # c => canvases'[d] = canvases[d]
  BY <1>1, <1>2, <1>6 DEF CanvasInv
<1>8. Ages
  BY <1>1, <1>2, <1>7, ComesOrGoes
<1> QED BY <1>6, <1>8

\* A call that changes the list of layers, and gives no id.
LEMMA ListKeepsInv ==
    ASSUME CanvasInv, NEW c \in Open, NEW t \in Seq(Layer),
           NEW A \in SUBSET LayersIn(c), NEW B \in SUBSET Layer,
           canvases' = [canvases EXCEPT ![c].layers = t], births' = births,
           DistinctIds(t), Differs(LayersOf(c), t, A, B),
           IdsBelow(B, canvases[c].next_layer_id),
           IdsOfOthers(A, B, canvases[c].next_layer_id),
           HeapFollows(heap, heap', A, B)
    PROVE  CanvasInv' /\ Ages
<1> DEFINE cv == [canvases[c] EXCEPT !.layers = t]
<1>1. canvases[c] \in CanvasState /\ canvases[c].next_layer_id \in Nat
  BY NamedLayer
<1>2. /\ cv \in CanvasState /\ cv.layers = t
      /\ cv.next_layer_id = canvases[c].next_layer_id
  BY <1>1 DEF CanvasState
<1>3. canvases' = [canvases EXCEPT ![c] = cv]
  OBVIOUS
<1> HIDE DEF cv
<1>4. cv.next_layer_id >= canvases[c].next_layer_id
  BY <1>1, <1>2
<1> QED BY <1>2, <1>3, <1>4, CallKeepsInv

LEMMA RemoveKeepsInv ==
    ASSUME CanvasInv, NEW c \in Open, NEW id \in IdsOf(c), remove_layer(c, id)
    PROVE  CanvasInv' /\ Ages
<1> DEFINE s == LayersOf(c)
           i == IndexOf(c, id)
           l == LayerOf(c, id)
           t == RemoveAt(s, i)
           none == {}
<1>1. /\ c \in Addresses /\ s \in Seq(Layer) /\ DistinctIds(s)
      /\ i \in DOMAIN s /\ l = s[i] /\ l \in LayersIn(c) /\ HeapOK(heap)
      /\ s = canvases[c].layers
  BY NamedLayer DEF CanvasOK
<1>2. /\ canvases' = [canvases EXCEPT ![c].layers = t] /\ births' = births
      /\ heap' = Freed(heap, {l.px} \ {NULL})
  BY <1>1 DEF remove_layer
<1> HIDE DEF s, i, l
<1>3. t \in Seq(Layer) /\ DistinctIds(t) /\ Differs(s, t, {l}, none)
  BY <1>1, RemovedList
<1>4. HeapFollows(heap, heap', {l}, none)
  <2>1. \A b \in DOMAIN heap : b \in {l.px} \ {NULL} <=> \E k \in {l} : k.px = b
    BY <1>1, Nulls DEF HeapOK
  <2> QED BY <2>1, <1>1, <1>2, HeapShrinks
<1> DEFINE A == {l}
<1>5. A \in SUBSET LayersIn(c) /\ none \in SUBSET Layer
      /\ IdsBelow(none, canvases[c].next_layer_id)
      /\ IdsOfOthers(A, none, canvases[c].next_layer_id)
  BY <1>1 DEF IdsBelow, IdsOfOthers
<1>6. HeapFollows(heap, heap', A, none) /\ Differs(s, t, A, none)
  BY <1>3, <1>4
<1> HIDE DEF t, none, A
<1> QED BY <1>2, <1>3, <1>5, <1>6, ListKeepsInv DEF s

LEMMA ReorderKeepsInv ==
    ASSUME CanvasInv, NEW c \in Open, NEW id \in IdsOf(c), NEW n \in Int,
           reorder_layer(c, id, n)
    PROVE  CanvasInv' /\ Ages
<1> DEFINE s == LayersOf(c)
           i == IndexOf(c, id)
           l == LayerOf(c, id)
           o == RemoveAt(s, i)
           at == Clamped(n, 0, Len(s) - 1)
           t == InsertAt(o, at + 1, l)
           none == {}
<1>1. /\ c \in Addresses /\ s \in Seq(Layer) /\ DistinctIds(s)
      /\ i \in DOMAIN s /\ l = s[i] /\ l \in LayersIn(c) /\ HeapOK(heap)
      /\ l \in Layer /\ LayersIn(c) = ToSet(s)
  BY NamedLayer DEF CanvasOK
<1>2. /\ canvases' = [canvases EXCEPT ![c].layers = t] /\ births' = births
      /\ heap' = heap
  BY DEF reorder_layer
<1> HIDE DEF s, i, l
<1>3. /\ o \in Seq(Layer) /\ Len(o) = Len(s) - 1 /\ DistinctIds(o)
      /\ Differs(s, o, {l}, {})
  BY <1>1, RemovedList
<1>4. Len(s) \in Nat /\ Len(s) > 0
  BY <1>1
<1>5. at + 1 \in 1 .. Len(o) + 1
  BY <1>3, <1>4 DEF Clamped
<1> HIDE DEF at, o
<1>6. \A x \in ToSet(o) : x.id # l.id
  <2> TAKE x \in ToSet(o)
  <2>1. x \in ToSet(s) /\ x # l
    BY <1>3 DEF Differs
  <2>2. PICK j \in DOMAIN s : x = s[j]
    BY <2>1 DEF ToSet
  <2> QED BY <2>1, <2>2, <1>1 DEF DistinctIds
<1>7. t \in Seq(Layer) /\ DistinctIds(t) /\ Differs(o, t, {}, {l})
  BY <1>1, <1>3, <1>5, <1>6, InsertedList
<1>8. Differs(s, t, none, none)
  BY <1>1, <1>3, <1>7 DEF Differs
<1>9. HeapFollows(heap, heap', none, none)
  BY <1>1, <1>2, HeapIsKept
<1>10. none \in SUBSET LayersIn(c) /\ none \in SUBSET Layer
      /\ IdsBelow(none, canvases[c].next_layer_id)
      /\ IdsOfOthers(none, none, canvases[c].next_layer_id)
  BY DEF IdsBelow, IdsOfOthers
<1> HIDE DEF t, none
<1> QED BY <1>2, <1>7, <1>8, <1>9, <1>10, ListKeepsInv DEF s

LEMMA DuplicateKeepsInv ==
    ASSUME CanvasInv, NEW c \in Open, NEW id \in IdsOf(c),
           deep_copy_layer(c, id), births' = births
    PROVE  CanvasInv' /\ Ages
<1> DEFINE s == LayersOf(c)
           i == IndexOf(c, id)
           o == LayerOf(c, id)
           n == canvases[c].next_layer_id
           l == [o EXCEPT !.id = n]
           copy == [l EXCEPT !.px = NewBuffer(heap)]
           bare == [l EXCEPT !.px = NULL]
           list(k) == InsertAt(s, i + 1, k)
           new(k) == [canvases[c] EXCEPT !.layers = list(k), !.next_layer_id = n + 1]
<1>1. /\ c \in Addresses /\ canvases[c] \in CanvasState /\ s = canvases[c].layers
      /\ s \in Seq(Layer) /\ DistinctIds(s) /\ n \in Nat
      /\ i \in DOMAIN s /\ o \in LayersIn(c) /\ HeapOK(heap)
      /\ o \in Layer /\ (o.px # NULL => o.px \in DOMAIN heap /\ heap[o.px].size = o.size)
  BY NamedLayer DEF CanvasOK
<1>2. i + 1 \in 1 .. Len(s) + 1
  <2> HIDE DEF s, i
  <2> QED BY <1>1
<1>3. \A k \in ToSet(s) : k.id # n
  BY NextIdIsNew
<1> HIDE DEF o
<1>4. l \in Layer /\ l.id = n /\ l.px = o.px /\ l.size = o.size
  BY <1>1 DEF Layer
<1> HIDE DEF l
<1>5. bare \in Layer /\ bare.id = n /\ bare.px = NULL
  BY <1>4 DEF Layer
<1>6. ASSUME CanAllocate(heap)
      PROVE  copy \in Layer /\ copy.id = n /\ copy.px = NewBuffer(heap) /\ copy.size = o.size
  <2>1. NewBuffer(heap) \in Buffers
    BY <1>1, <1>6 DEF NewBuffer, CanAllocate, HeapOK
  <2> QED BY <2>1, <1>4 DEF Layer
<1> HIDE DEF bare, copy
\* Whichever copy it gets, the canvas keeps the invariant.
<1>7. ASSUME NEW k \in Layer, k.id = n, HeapFollows(heap, heap', {}, {k}),
             canvases' = [canvases EXCEPT ![c].layers = list(k), ![c].next_layer_id = n + 1],
             births' = births
      PROVE  CanvasInv' /\ Ages
  <2> DEFINE t == list(k)
  <2>1. t \in Seq(Layer) /\ DistinctIds(t) /\ Differs(s, t, {}, {k})
    <3> HIDE DEF s, i, n
    <3> QED BY <1>1, <1>2, <1>3, <1>7, InsertedList
  <2>2. canvases' = [canvases EXCEPT ![c] = new(k)]
    <3> HIDE DEF t, n
    <3> QED BY <1>1, <1>7 DEF CanvasInv
  <2> HIDE DEF t
  <2>3. new(k) = [layers |-> t, next_layer_id |-> n + 1, size |-> canvases[c].size]
    BY <1>1, ChangedCanvas DEF t
  <2> QED BY <1>7, <2>1, <2>2, <2>3, NewLayerKeepsInv
<1>9. CASE /\ l.px # NULL /\ CanAllocate(heap)
           /\ heap' = Allocated(heap, heap[l.px].size, heap[l.px].shows)
           /\ canvases' = [canvases EXCEPT ![c].layers = list(copy), ![c].next_layer_id = n + 1]
  <2>1. heap[l.px].size \in LayerSizes /\ heap[l.px].shows \in Shows
        /\ heap[l.px].size = o.size
    BY <1>1, <1>4, <1>9 DEF HeapOK, Pixels
  <2>2. HeapFollows(heap, heap', {}, {copy})
    BY <2>1, <1>1, <1>6, <1>9, HeapGrows
  <2> QED BY <2>2, <1>6, <1>7, <1>9
<1>10. CASE /\ heap' = heap
            /\ canvases' = [canvases EXCEPT ![c].layers = list(bare), ![c].next_layer_id = n + 1]
  <2>1. HeapFollows(heap, heap', {}, {bare})
    BY <1>1, <1>5, <1>10, HeapIsKept
  <2> QED BY <2>1, <1>5, <1>7, <1>10
<1> QED BY <1>9, <1>10, <1>1 DEF deep_copy_layer, l, o, copy, bare

\* A layer becomes l, with its id and its pixels or new ones.
LEMMA ReplaceKeepsInv ==
    ASSUME CanvasInv, NEW c \in Open, NEW id \in IdsOf(c), NEW l \in Layer,
           l.id = id, births' = births,
           canvases' = [canvases EXCEPT ![c].layers[IndexOf(c, id)] = l],
           HeapFollows(heap, heap', {LayerOf(c, id)}, {l})
    PROVE  CanvasInv' /\ Ages
<1> DEFINE s == LayersOf(c)
           i == IndexOf(c, id)
           k == LayerOf(c, id)
           t == [s EXCEPT ![i] = l]
           A == {k}
           B == {l}
<1>1. /\ c \in Addresses /\ s \in Seq(Layer) /\ DistinctIds(s)
      /\ i \in DOMAIN s /\ k = s[i] /\ k.id = id /\ k \in LayersIn(c)
      /\ s = canvases[c].layers /\ id < canvases[c].next_layer_id
  BY NamedLayer DEF CanvasOK
<1>2. canvases' = [canvases EXCEPT ![c].layers = t]
  BY <1>1
<1> HIDE DEF s, i, k
<1>3. t \in Seq(Layer) /\ DistinctIds(t) /\ Differs(s, t, A, B)
  BY <1>1, ReplacedList
<1>4. A \in SUBSET LayersIn(c) /\ B \in SUBSET Layer
      /\ IdsBelow(B, canvases[c].next_layer_id)
      /\ IdsOfOthers(A, B, canvases[c].next_layer_id)
  BY <1>1 DEF IdsBelow, IdsOfOthers
<1>5. HeapFollows(heap, heap', A, B)
  BY DEF k
<1> HIDE DEF t, A, B
<1> QED BY <1>2, <1>3, <1>4, <1>5, ListKeepsInv DEF s

LEMMA SetOfKeepsInv ==
    ASSUME CanvasInv, NEW c \in Open, NEW id \in IdsOf(c), NEW l \in Layer,
           l.id = id, l.px = LayerOf(c, id).px, l.size = LayerOf(c, id).size,
           SetOf(c, id, l)
    PROVE  CanvasInv' /\ Ages
<1> DEFINE k == LayerOf(c, id)
<1>1. /\ HeapOK(heap) /\ (k.px # NULL => k.px \in DOMAIN heap /\ heap[k.px].size = k.size)
  BY NamedLayer
<1>2. /\ heap' = heap /\ births' = births
      /\ canvases' = [canvases EXCEPT ![c].layers[IndexOf(c, id)] = l]
  BY DEF SetOf
<1> HIDE DEF k
<1>3. l.px = k.px /\ l.size = k.size
  BY DEF k
<1>4. HeapFollows(heap, heap', {k}, {l})
  BY <1>1, <1>2, <1>3, HeapIsKept
<1> QED BY <1>2, <1>4, ReplaceKeepsInv DEF k

LEMMA UpdatePixelsKeepsInv ==
    ASSUME CanvasInv, NEW c \in Open, NEW id \in IdsOf(c), NEW z \in LayerSizes,
           NEW p \in Shows, update_layer_pixels(c, id, z, p)
    PROVE  CanvasInv' /\ Ages
<1> DEFINE k == LayerOf(c, id)
           i == IndexOf(c, id)
           l == [k EXCEPT !.px = NewBuffer(heap), !.size = z]
<1>1. /\ HeapOK(heap) /\ k \in Layer /\ k.id = id /\ k.px \in DOMAIN heap \cup {NULL}
      /\ c \in Addresses /\ i \in DOMAIN LayersOf(c) /\ k = LayersOf(c)[i]
      /\ LayersOf(c) = canvases[c].layers
  BY NamedLayer
<1>2. /\ births' = births /\ CanAllocate(heap)
      /\ heap' = Freed(Allocated(heap, z, p), {k.px} \ {NULL})
      /\ canvases' = [canvases EXCEPT ![c].layers[i] =
                          [@ EXCEPT !.px = NewBuffer(heap), !.size = z]]
  BY DEF update_layer_pixels
<1>3. canvases' = [canvases EXCEPT ![c].layers[i] = l]
  BY <1>1, <1>2
<1>4. NewBuffer(heap) \in Buffers
  BY <1>1, <1>2 DEF NewBuffer, CanAllocate, HeapOK
<1> HIDE DEF k
<1>5. l \in Layer /\ l.id = id /\ l.px = NewBuffer(heap) /\ l.size = z
  BY <1>1, <1>4 DEF Layer
<1> HIDE DEF l
<1>6. HeapFollows(heap, heap', {k}, {l})
  BY <1>1, <1>2, <1>5, HeapReplaces
<1> QED BY <1>2, <1>3, <1>5, <1>6, ReplaceKeepsInv DEF k

LEMMA LayerCallKeepsInv ==
    ASSUME CanvasInv, NEW c \in Open, NEW id \in IdsOf(c), LayerCall(c, id)
    PROVE  CanvasInv' /\ Ages
<1> DEFINE k == LayerOf(c, id)
<1>1. k \in Layer /\ k.id = id
  BY NamedLayer
\* A setter changes neither the layer's id nor its pixels.
<1>2. ASSUME NEW l \in Layer, l.id = k.id, l.px = k.px, l.size = k.size, SetOf(c, id, l)
      PROVE  CanvasInv' /\ Ages
  BY <1>1, <1>2, SetOfKeepsInv
<1> HIDE DEF k
<1>3. CASE remove_layer(c, id)
  BY <1>3, RemoveKeepsInv
<1>4. CASE duplicate_layer(c, id)
  <2>1. CASE OutOfMemory(c)
    BY <2>1, OutOfMemoryKeepsInv
  <2>2. CASE ~ OutOfMemory(c)
    <3>1. deep_copy_layer(c, id) /\ births' = births
      BY <1>4, <2>2 DEF duplicate_layer
    <3> QED BY <3>1, DuplicateKeepsInv
  <2> QED BY <2>1, <2>2
<1>5. ASSUME NEW i \in -1 .. MaxLayers, reorder_layer(c, id, i)
      PROVE  CanvasInv' /\ Ages
  <2>1. i \in Int
    BY BoundAssumption
  <2> QED BY <2>1, <1>5, ReorderKeepsInv
<1>6. ASSUME NEW v \in BOOLEAN, set_visible(c, id, v)
      PROVE  CanvasInv' /\ Ages
  <2> DEFINE l == [k EXCEPT !.visible = v]
  <2>1. l \in Layer /\ l.id = k.id /\ l.px = k.px /\ l.size = k.size
    BY <1>1 DEF Layer
  <2>2. SetOf(c, id, l)
    BY <1>6 DEF set_visible, k
  <2> HIDE DEF l
  <2> QED BY <2>1, <2>2, <1>2
<1>7. ASSUME NEW v \in BOOLEAN, set_locked(c, id, v)
      PROVE  CanvasInv' /\ Ages
  <2> DEFINE l == [k EXCEPT !.locked = v]
  <2>1. l \in Layer /\ l.id = k.id /\ l.px = k.px /\ l.size = k.size
    BY <1>1 DEF Layer
  <2>2. SetOf(c, id, l)
    BY <1>7 DEF set_locked, k
  <2> HIDE DEF l
  <2> QED BY <2>1, <2>2, <1>2
<1>8. ASSUME NEW o \in Opacities, set_opacity(c, id, o)
      PROVE  CanvasInv' /\ Ages
  <2> DEFINE l == [k EXCEPT !.opacity = Clamped(o, 0, 10)]
  <2>1. Clamped(o, 0, 10) \in 0 .. 10
    BY OpacityAssumption DEF Clamped
  <2>2. l \in Layer /\ l.id = k.id /\ l.px = k.px /\ l.size = k.size
    BY <1>1, <2>1 DEF Layer
  <2>3. SetOf(c, id, l)
    BY <1>8 DEF set_opacity, k
  <2> HIDE DEF l
  <2> QED BY <2>2, <2>3, <1>2
<1>9. ASSUME NEW m \in Modes, set_blend_mode(c, id, m)
      PROVE  CanvasInv' /\ Ages
  <2> DEFINE l == [k EXCEPT !.mode = m]
  <2>1. l \in Layer /\ l.id = k.id /\ l.px = k.px /\ l.size = k.size
    BY <1>1 DEF Layer
  <2>2. SetOf(c, id, l)
    BY <1>9 DEF set_blend_mode, k
  <2> HIDE DEF l
  <2> QED BY <2>1, <2>2, <1>2
<1>10. ASSUME NEW n \in Names, set_name(c, id, n)
       PROVE  CanvasInv' /\ Ages
  <2> DEFINE l == [k EXCEPT !.name = n]
  <2>1. l \in Layer /\ l.id = k.id /\ l.px = k.px /\ l.size = k.size
    BY <1>1 DEF Layer
  <2>2. SetOf(c, id, l)
    BY <1>10 DEF set_name, k
  <2> HIDE DEF l
  <2> QED BY <2>1, <2>2, <1>2
<1>11. ASSUME NEW p \in Places, set_transform(c, id, p)
       PROVE  CanvasInv' /\ Ages
  <2> DEFINE l == [k EXCEPT !.place = p]
  <2>1. l \in Layer /\ l.id = k.id /\ l.px = k.px /\ l.size = k.size
    BY <1>1 DEF Layer
  <2>2. SetOf(c, id, l)
    BY <1>11 DEF set_transform, k
  <2> HIDE DEF l
  <2> QED BY <2>1, <2>2, <1>2
<1> QED BY <1>3, <1>4, <1>5, <1>6, <1>7, <1>8, <1>9, <1>10, <1>11 DEF LayerCall

LEMMA CanvasCallKeepsInv ==
    ASSUME CanvasInv, NEW c \in Open, CanvasCall(c)
    PROVE  CanvasInv' /\ Ages
<1>1. CASE canvas_destroy(c)
  BY <1>1, DestroyKeepsInv
<1>2. ASSUME NEW z \in CanvasSizes, canvas_resize(c, z)
      PROVE  CanvasInv' /\ Ages
  BY <1>2, ResizeKeepsInv
<1>3. ASSUME NEW i \in -1 .. MaxLayers - 1, NEW z \in Sizes, NEW p \in Pictures,
             add_image_layer(c, z, p, i)
      PROVE  CanvasInv' /\ Ages
  <2> DEFINE t == "image"  a == "Image"
  <2>1. /\ i \in Int /\ z \in LayerSizes /\ p \in Shows /\ t \in {"image", "solid"}
        /\ a \in {"Image", "Text", "SolidColor"} /\ AddPixels(c, t, a, z, p, i)
    BY <1>3, BoundAssumption DEF LayerSizes, Shows, add_image_layer
  <2> HIDE DEF t, a
  <2> QED BY <2>1, AddPixelsKeepsInv
<1>4. ASSUME NEW i \in -1 .. MaxLayers - 1, NEW z \in Sizes, NEW p \in Colors,
             add_solid_layer(c, p, z, i)
      PROVE  CanvasInv' /\ Ages
  <2> DEFINE t == "solid"  a == "SolidColor"
  <2>1. /\ i \in Int /\ z \in LayerSizes /\ p \in Shows /\ t \in {"image", "solid"}
        /\ a \in {"Image", "Text", "SolidColor"} /\ AddPixels(c, t, a, z, p, i)
    BY <1>4, BoundAssumption DEF LayerSizes, Shows, add_solid_layer
  <2> HIDE DEF t, a
  <2> QED BY <2>1, AddPixelsKeepsInv
<1>5. ASSUME NEW i \in -1 .. MaxLayers - 1, add_group_layer(c, i)
      PROVE  CanvasInv' /\ Ages
  <2>1. i \in Int
    BY BoundAssumption
  <2>2. OutOfMemory(c) \/ AddGroup(c, i)
    BY <1>5 DEF add_group_layer
  <2> QED BY <2>1, <2>2, AddGroupKeepsInv, OutOfMemoryKeepsInv
<1>6. ASSUME NEW id \in IdsOf(c), LayerCall(c, id)
      PROVE  CanvasInv' /\ Ages
  BY <1>6, LayerCallKeepsInv
<1> QED BY <1>1, <1>2, <1>3, <1>4, <1>5, <1>6 DEF CanvasCall

-----------------------------------------------------------------------------
(* Masks and effects. *)

Mask == [enabled : BOOLEAN, len : LayerSizes, size : LayerSizes,
         shows : {"white", "black", "grey"}]
EffectInstance == [id : Nat, effect : Effects, enabled : BOOLEAN,
                   mix : Opacities \cup {10}, param : {"default", "set"}]

\* Masks and effects are kept for ids that have been given: at an address with
\* its first canvas, by that canvas.
Given(k) ==
    \E c \in Addresses, id \in Nat :
        /\ k = <<c, id>>
        /\ births[c] > 0
        /\ births[c] = 1 /\ canvases[c] # NULL => id < canvases[c].next_layer_id

\* The lists of instances e are not empty, and name them apart by ids below n.
InstancesOK(e, n) ==
    /\ e \in [DOMAIN e -> Seq(EffectInstance)]
    /\ \A k \in DOMAIN e :
          e[k] # <<>> /\ DistinctIds(e[k]) /\ \A x \in ToSet(e[k]) : x.id < n
    /\ \A h, k \in DOMAIN e : h # k =>
          \A x \in ToSet(e[h]), y \in ToSet(e[k]) : x.id # y.id

\* The inductive invariant of masks and effects.
ExtrasInv ==
    /\ masks \in [DOMAIN masks -> Mask]
    /\ next_instance_id \in Nat
    /\ InstancesOK(effects, next_instance_id)
    /\ \A k \in DOMAIN masks \cup DOMAIN effects : Given(k)

\* Whatever happens to the canvases, what was given stays given.
LEMMA GivenStays ==
    ASSUME CanvasInv, Ages, NEW k, Given(k), canvases' \in [Addresses -> CanvasState \cup {NULL}],
           births' \in [Addresses -> Nat]
    PROVE  Given(k)'
<1>1. PICK c \in Addresses, id \in Nat :
          /\ k = <<c, id>>
          /\ births[c] > 0
          /\ births[c] = 1 /\ canvases[c] # NULL => id < canvases[c].next_layer_id
  BY DEF Given
<1>2. births[c] \in Nat /\ births'[c] \in Nat /\ births'[c] >= births[c]
  BY DEF CanvasInv, Ages
<1>3. ASSUME births'[c] = 1, canvases'[c] # NULL
      PROVE  id < canvases'[c].next_layer_id
  <2>1. births'[c] = births[c] /\ births[c] = 1
    BY <1>1, <1>2, <1>3
  <2>2. canvases[c] # NULL /\ canvases'[c].next_layer_id >= canvases[c].next_layer_id
    BY <2>1, <1>3 DEF Ages
  <2>3. canvases[c].next_layer_id \in Nat /\ canvases'[c].next_layer_id \in Nat
    BY <2>2, <1>3 DEF CanvasInv, CanvasState
  <2> QED BY <2>1, <2>2, <2>3, <1>1
<1> QED BY <1>1, <1>2, <1>3 DEF Given

\* A call that leaves masks and effects alone.
LEMMA ExtrasStay ==
    ASSUME CanvasInv, CanvasInv', Ages, ExtrasInv, UNCHANGED extraVars
    PROVE  ExtrasInv'
<1>1. masks' = masks /\ effects' = effects /\ next_instance_id' = next_instance_id
  BY DEF extraVars
<1>2. \A k \in DOMAIN masks \cup DOMAIN effects : Given(k)'
  BY GivenStays DEF ExtrasInv, CanvasInv
<1> QED BY <1>1, <1>2 DEF ExtrasInv

\* A call on masks and effects, of ids that were given.
LEMMA ExtrasChange ==
    ASSUME CanvasInv, ExtrasInv, UNCHANGED canvasVars,
           masks' \in [DOMAIN masks' -> Mask],
           next_instance_id' \in Nat, InstancesOK(effects', next_instance_id'),
           \A k \in DOMAIN masks' \cup DOMAIN effects' :
               k \in DOMAIN masks \cup DOMAIN effects \/ Given(k)
    PROVE  CanvasInv' /\ Ages /\ ExtrasInv'
<1>1. CanvasInv' /\ Ages
  BY NothingAges
<1>2. ASSUME NEW k \in DOMAIN masks' \cup DOMAIN effects' PROVE Given(k)'
  <2>1. Given(k)
    BY DEF ExtrasInv
  <2> QED BY <2>1, <1>1, GivenStays DEF CanvasInv
<1> QED BY <1>1, <1>2 DEF ExtrasInv

LEMMA LayersAreGiven ==
    ASSUME CanvasInv, NEW c \in Open, NEW id \in IdsOf(c)
    PROVE  Given(<<c, id>>)
<1>1. /\ LayerOf(c, id) \in ToSet(LayersOf(c)) /\ LayerOf(c, id).id = id
      /\ LayerOf(c, id) \in Layer /\ c \in Addresses
  BY NamedLayer
<1>2. id \in Nat
  BY <1>1 DEF Layer
<1>3. births[c] > 0 /\ id < canvases[c].next_layer_id
  BY <1>1 DEF CanvasInv, CanvasOK, LayersOf
<1> QED BY <1>1, <1>2, <1>3 DEF Given

Listed(e, k) == IF k \in DOMAIN e THEN ToSet(e[k]) ELSE {}

\* The list of one layer becomes t: its ids are new, or were on the layer.
LEMMA InstancesChange ==
    ASSUME NEW e, NEW n \in Nat, InstancesOK(e, n), NEW k, NEW m \in Nat, m >= n,
           NEW t \in Seq(EffectInstance), t # <<>>, DistinctIds(t),
           IdsBelow(ToSet(t), m), IdsOfOthers(Listed(e, k), ToSet(t), n)
    PROVE  InstancesOK(With(e, k, t), m)
<1> DEFINE f == With(e, k, t)
<1>1. /\ DOMAIN f = DOMAIN e \cup {k} /\ f[k] = t
      /\ \A h \in DOMAIN e : h # k => f[h] = e[h]
      /\ f = [h \in DOMAIN f |-> f[h]]
  BY DEF With
<1> HIDE DEF f
<1>2. ASSUME NEW h \in DOMAIN e
      PROVE  /\ e[h] \in Seq(EffectInstance) /\ e[h] # <<>> /\ DistinctIds(e[h])
             /\ \A x \in ToSet(e[h]) : x.id \in Nat /\ x.id < n /\ x.id < m
  <2>1. /\ e[h] \in Seq(EffectInstance) /\ e[h] # <<>> /\ DistinctIds(e[h])
        /\ \A x \in ToSet(e[h]) : x.id < n
    BY DEF InstancesOK
  <2>2. \A x \in ToSet(e[h]) : x \in EffectInstance
    BY <2>1 DEF ToSet
  <2>3. \A x \in ToSet(e[h]) : x.id \in Nat
    BY <2>2 DEF EffectInstance
  <2> QED BY <2>1, <2>3
<1>3. f \in [DOMAIN f -> Seq(EffectInstance)]
  BY <1>1, <1>2
<1>4. \A h \in DOMAIN f :
          f[h] # <<>> /\ DistinctIds(f[h]) /\ \A x \in ToSet(f[h]) : x.id < m
  BY <1>1, <1>2 DEF IdsBelow
<1>5. ASSUME NEW h \in DOMAIN e, h # k, NEW x \in ToSet(t), NEW y \in ToSet(e[h])
      PROVE  x.id # y.id
  <2>1. CASE x.id >= n
    BY <2>1, <1>2
  <2>2. CASE k \in DOMAIN e /\ \E z \in ToSet(e[k]) : z.id = x.id
    BY <2>2, <1>5 DEF InstancesOK
  <2> QED BY <2>1, <2>2 DEF IdsOfOthers, Listed
<1>6. ASSUME NEW h \in DOMAIN f, NEW j \in DOMAIN f, h # j,
             NEW x \in ToSet(f[h]), NEW y \in ToSet(f[j])
      PROVE  x.id # y.id
  <2>1. CASE h = k
    BY <2>1, <1>1, <1>5, <1>6
  <2>2. CASE j = k
    BY <2>2, <1>1, <1>5, <1>6
  <2>3. CASE h # k /\ j # k
    BY <2>3, <1>1, <1>6 DEF InstancesOK
  <2> QED BY <2>1, <2>2, <2>3
<1> QED BY <1>3, <1>4, <1>6 DEF InstancesOK, f

\* An instance a call names is on the layer, at one place.
LEMMA NamedInstance ==
    ASSUME ExtrasInv, NEW k \in DOMAIN effects, NEW n \in InstancesOf(k)
    PROVE  /\ EffectsOf(k) = effects[k] /\ effects[k] \in Seq(EffectInstance)
           /\ DistinctIds(effects[k]) /\ \A x \in ToSet(effects[k]) : x.id < next_instance_id
           /\ InstanceAt(k, n) \in DOMAIN effects[k]
           /\ Instance(k, n) = effects[k][InstanceAt(k, n)]
           /\ Instance(k, n) \in EffectInstance /\ Instance(k, n).id = n
<1>1. /\ EffectsOf(k) = effects[k] /\ effects[k] \in Seq(EffectInstance)
      /\ DistinctIds(effects[k]) /\ \A x \in ToSet(effects[k]) : x.id < next_instance_id
  BY DEF EffectsOf, ExtrasInv, InstancesOK
<1>2. \E i \in DOMAIN EffectsOf(k) : EffectsOf(k)[i].id = n
  BY DEF InstancesOf
<1>3. InstanceAt(k, n) \in DOMAIN EffectsOf(k) /\ EffectsOf(k)[InstanceAt(k, n)].id = n
  BY <1>2 DEF InstanceAt
<1> QED BY <1>1, <1>3 DEF Instance

\* A call on the effects of a layer that leaves the list t.
LEMMA EffectsKeepInv ==
    ASSUME CanvasInv, ExtrasInv, EffectsOnly, NEW k, k \in DOMAIN effects \/ Given(k),
           NEW t \in Seq(EffectInstance), t # <<>>, DistinctIds(t),
           next_instance_id' \in Nat, next_instance_id' >= next_instance_id,
           IdsBelow(ToSet(t), next_instance_id'),
           IdsOfOthers(Listed(effects, k), ToSet(t), next_instance_id),
           effects' = With(effects, k, t)
    PROVE  CanvasInv' /\ Ages /\ ExtrasInv'
<1>1. UNCHANGED canvasVars /\ masks' = masks
  BY DEF EffectsOnly
<1>2. DOMAIN effects' = DOMAIN effects \cup {k}
  BY DEF With
<1>3. InstancesOK(effects', next_instance_id')
  <2>1. InstancesOK(effects, next_instance_id) /\ next_instance_id \in Nat
    BY DEF ExtrasInv
  <2>2. InstancesOK(With(effects, k, t), next_instance_id')
    BY <2>1, InstancesChange
  <2> QED BY <2>2
<1> QED BY <1>1, <1>2, <1>3, ExtrasChange DEF ExtrasInv

LEMMA AddEffectKeepsInv ==
    ASSUME CanvasInv, ExtrasInv, NEW c \in Open, NEW id \in IdsOf(c), NEW e \in Effects,
           add_effect(c, id, e)
    PROVE  CanvasInv' /\ Ages /\ ExtrasInv'
<1> DEFINE k == <<c, id>>
           n == next_instance_id
           x == [id |-> n, effect |-> e, enabled |-> TRUE, mix |-> 10, param |-> "default"]
           s == EffectsOf(k)
           t == Append(s, x)
<1>1. /\ effects' = With(effects, k, t) /\ next_instance_id' = n + 1 /\ EffectsOnly
  BY DEF add_effect
<1>2. Given(k)
  BY LayersAreGiven
<1> HIDE DEF k
<1>3. n \in Nat
  BY DEF ExtrasInv
<1>4. x \in EffectInstance /\ x.id = n
  BY <1>3 DEF EffectInstance
<1> HIDE DEF x
<1>5. s \in Seq(EffectInstance) /\ DistinctIds(s) /\ ToSet(s) = Listed(effects, k)
      /\ \A y \in ToSet(s) : y.id < n
  <2>1. CASE k \in DOMAIN effects
    BY <2>1 DEF ExtrasInv, InstancesOK, EffectsOf, Listed
  <2>2. CASE k \notin DOMAIN effects
    <3>1. s = <<>> /\ Listed(effects, k) = {}
      BY <2>2 DEF EffectsOf, Listed
    <3> QED BY <3>1 DEF DistinctIds, ToSet
  <2> QED BY <2>1, <2>2
<1> HIDE DEF s
<1>6. \A y \in ToSet(s) : y \in EffectInstance /\ y.id \in Nat
  <2>1. \A y \in ToSet(s) : y \in EffectInstance
    BY <1>5 DEF ToSet
  <2> QED BY <2>1 DEF EffectInstance
<1>7. \A y \in ToSet(s) : y.id # x.id
  BY <1>3, <1>4, <1>5, <1>6
<1>8. t \in Seq(EffectInstance) /\ DistinctIds(t) /\ Differs(s, t, {}, {x})
  BY <1>4, <1>5, <1>7, AppendedList
<1>9. t # <<>>
  BY <1>4, <1>5, AppendProperties
<1> HIDE DEF t
<1>10. IdsBelow(ToSet(t), n + 1) /\ IdsOfOthers(Listed(effects, k), ToSet(t), n)
  BY <1>3, <1>4, <1>5, <1>6, <1>8 DEF Differs, IdsBelow, IdsOfOthers
<1>11. next_instance_id' \in Nat /\ next_instance_id' >= next_instance_id
  BY <1>1, <1>3
<1>12. IdsBelow(ToSet(t), next_instance_id')
  BY <1>1, <1>10
<1> QED BY <1>1, <1>2, <1>8, <1>9, <1>10, <1>11, <1>12, EffectsKeepInv

LEMMA RemoveEffectKeepsInv ==
    ASSUME CanvasInv, ExtrasInv, NEW k \in DOMAIN effects, NEW n \in InstancesOf(k),
           remove_effect(k, n)
    PROVE  CanvasInv' /\ Ages /\ ExtrasInv'
<1> DEFINE s == effects[k]
           i == InstanceAt(k, n)
           t == RemoveAt(s, i)
           m == next_instance_id
<1>1. /\ s \in Seq(EffectInstance) /\ DistinctIds(s) /\ i \in DOMAIN s
      /\ EffectsOf(k) = s /\ \A x \in ToSet(s) : x.id < m
  BY NamedInstance
<1>2. /\ EffectsOnly /\ m' = m
      /\ effects' = IF t = <<>> THEN Without(effects, k) ELSE With(effects, k, t)
  BY <1>1 DEF remove_effect
<1>3. m \in Nat
  BY DEF ExtrasInv
<1> HIDE DEF i
<1>4. CASE t = <<>>
  <2> DEFINE f == Without(effects, k)
  <2>1. /\ DOMAIN f = DOMAIN effects \ {k} /\ f = [h \in DOMAIN f |-> f[h]]
        /\ \A h \in DOMAIN f : f[h] = effects[h]
    BY DEF Without
  <2> HIDE DEF f
  <2>2. InstancesOK(f, m)
    BY <2>1 DEF ExtrasInv, InstancesOK
  <2>3. effects' = f /\ UNCHANGED canvasVars /\ masks' = masks
    BY <1>2, <1>4 DEF EffectsOnly, f
  <2>4. DOMAIN effects' \subseteq DOMAIN effects
    BY <2>1, <2>3
  <2> QED BY <1>2, <1>3, <2>2, <2>3, <2>4, ExtrasChange DEF ExtrasInv
<1>5. CASE t # <<>>
  <2>0. Listed(effects, k) = ToSet(s)
    BY DEF Listed
  <2> HIDE DEF s
  <2>1. t \in Seq(EffectInstance) /\ DistinctIds(t) /\ Differs(s, t, {s[i]}, {})
    BY <1>1, RemovedList
  <2> HIDE DEF t
  <2>2. IdsBelow(ToSet(t), m) /\ IdsOfOthers(Listed(effects, k), ToSet(t), m)
    BY <1>1, <2>0, <2>1 DEF Differs, IdsBelow, IdsOfOthers
  <2>3. effects' = With(effects, k, t)
    BY <1>2, <1>5
  <2> QED BY <1>2, <1>3, <1>5, <2>1, <2>2, <2>3, EffectsKeepInv
<1> QED BY <1>4, <1>5

LEMMA SetInstanceKeepsInv ==
    ASSUME CanvasInv, ExtrasInv, NEW k \in DOMAIN effects, NEW n \in InstancesOf(k),
           NEW x \in EffectInstance, x.id = n, SetInstance(k, n, x)
    PROVE  CanvasInv' /\ Ages /\ ExtrasInv'
<1> DEFINE s == effects[k]
           i == InstanceAt(k, n)
           t == [s EXCEPT ![i] = x]
           m == next_instance_id
<1>1. /\ s \in Seq(EffectInstance) /\ DistinctIds(s) /\ i \in DOMAIN s
      /\ s[i].id = n /\ \A y \in ToSet(s) : y.id < m
  BY NamedInstance
<1>2. /\ EffectsOnly /\ m' = m /\ effects' = [effects EXCEPT ![k] = t]
  BY DEF SetInstance
<1>3. m \in Nat
  BY DEF ExtrasInv
<1>4. effects' = With(effects, k, t)
  <2> DEFINE f == [effects EXCEPT ![k] = t]
             g == With(effects, k, t)
  <2>1. /\ DOMAIN f = DOMAIN effects /\ f[k] = t
        /\ \A h \in DOMAIN effects : h # k => f[h] = effects[h]
    OBVIOUS
  <2>2. f = [h \in DOMAIN f |-> f[h]]
    BY DEF ExtrasInv, InstancesOK
  <2>3. /\ DOMAIN g = DOMAIN effects /\ g[k] = t
        /\ \A h \in DOMAIN effects : h # k => g[h] = effects[h]
        /\ g = [h \in DOMAIN g |-> g[h]]
    BY DEF With
  <2> HIDE DEF f, g, t
  <2>4. f = g
    BY <2>1, <2>2, <2>3
  <2> QED BY <2>4, <1>2 DEF f, g
<1>5. Listed(effects, k) = ToSet(s)
  BY DEF Listed
<1> HIDE DEF s, i
<1>6. t \in Seq(EffectInstance) /\ DistinctIds(t) /\ Differs(s, t, {s[i]}, {x})
  BY <1>1, ReplacedList
<1>7. t # <<>>
  BY <1>1
<1> HIDE DEF t
<1>8. s[i] \in ToSet(s)
  BY <1>1 DEF ToSet
<1>9. IdsBelow(ToSet(t), m) /\ IdsOfOthers(Listed(effects, k), ToSet(t), m)
  BY <1>1, <1>5, <1>6, <1>8 DEF Differs, IdsBelow, IdsOfOthers
<1> QED BY <1>2, <1>3, <1>4, <1>6, <1>7, <1>9, EffectsKeepInv

LEMMA EffectCallKeepsInv ==
    ASSUME CanvasInv, ExtrasInv, NEW k \in DOMAIN effects, NEW n \in InstancesOf(k),
           EffectCall(k, n)
    PROVE  CanvasInv' /\ Ages /\ ExtrasInv'
<1> DEFINE y == Instance(k, n)
<1>1. y \in EffectInstance /\ y.id = n
  BY NamedInstance
<1>2. ASSUME NEW x \in EffectInstance, x.id = n, SetInstance(k, n, x)
      PROVE  CanvasInv' /\ Ages /\ ExtrasInv'
  BY <1>2, SetInstanceKeepsInv
<1> HIDE DEF y
<1>3. CASE remove_effect(k, n)
  BY <1>3, RemoveEffectKeepsInv
<1>4. ASSUME NEW e \in BOOLEAN, effect_set_enabled(k, n, e)
      PROVE  CanvasInv' /\ Ages /\ ExtrasInv'
  <2> DEFINE x == [y EXCEPT !.enabled = e]
  <2>1. x \in EffectInstance /\ x.id = n
    BY <1>1 DEF EffectInstance
  <2>2. SetInstance(k, n, x)
    BY <1>4 DEF effect_set_enabled, y
  <2> HIDE DEF x
  <2> QED BY <2>1, <2>2, <1>2
<1>5. ASSUME NEW o \in Opacities, effect_set_mix(k, n, o)
      PROVE  CanvasInv' /\ Ages /\ ExtrasInv'
  <2> DEFINE x == [y EXCEPT !.mix = o]
  <2>1. x \in EffectInstance /\ x.id = n
    BY <1>1 DEF EffectInstance
  <2>2. SetInstance(k, n, x)
    BY <1>5 DEF effect_set_mix, y
  <2> HIDE DEF x
  <2> QED BY <2>1, <2>2, <1>2
<1>6. CASE effect_set_param(k, n)
  <2> DEFINE x == [y EXCEPT !.param = "set"]
  <2>1. x \in EffectInstance /\ x.id = n
    BY <1>1 DEF EffectInstance
  <2>2. SetInstance(k, n, x)
    BY <1>6 DEF effect_set_param, y
  <2> HIDE DEF x
  <2> QED BY <2>1, <2>2, <1>2
<1> QED BY <1>3, <1>4, <1>5, <1>6 DEF EffectCall

\* A call that changes the masks, of layers that are given.
LEMMA MasksChange ==
    ASSUME CanvasInv, ExtrasInv, MasksOnly, masks' \in [DOMAIN masks' -> Mask],
           \A k \in DOMAIN masks' : k \in DOMAIN masks \/ Given(k)
    PROVE  CanvasInv' /\ Ages /\ ExtrasInv'
<1>1. /\ UNCHANGED canvasVars /\ effects' = effects
      /\ next_instance_id' = next_instance_id
  BY DEF MasksOnly, effectVars
<1> QED BY <1>1, ExtrasChange DEF ExtrasInv

\* A mask becomes m.
LEMMA MaskSet ==
    ASSUME CanvasInv, ExtrasInv, NEW k \in DOMAIN masks, NEW m \in Mask,
           masks' = [masks EXCEPT ![k] = m], MasksOnly
    PROVE  CanvasInv' /\ Ages /\ ExtrasInv'
<1>1. masks' \in [DOMAIN masks' -> Mask] /\ DOMAIN masks' = DOMAIN masks
  BY DEF ExtrasInv
<1> QED BY <1>1, MasksChange

LEMMA AddMaskKeepsInv ==
    ASSUME CanvasInv, ExtrasInv, NEW c \in Open, NEW id \in IdsOf(c), add_mask(c, id)
    PROVE  CanvasInv' /\ Ages /\ ExtrasInv'
<1> DEFINE k == <<c, id>>
           m == NewMask(LayerOf(c, id).size)
<1>1. masks' = With(masks, k, m) /\ MasksOnly
  BY DEF add_mask
<1>2. Given(k)
  BY LayersAreGiven
<1>3. LayerOf(c, id).size \in LayerSizes
  BY NamedLayer DEF Layer
<1>4. m \in Mask
  BY <1>3 DEF NewMask, Mask
<1> HIDE DEF k, m
<1>5. masks' \in [DOMAIN masks' -> Mask] /\ DOMAIN masks' = DOMAIN masks \cup {k}
  BY <1>1, <1>4 DEF With, ExtrasInv
<1> QED BY <1>1, <1>2, <1>5, MasksChange

LEMMA MaskCallKeepsInv ==
    ASSUME CanvasInv, ExtrasInv, NEW c, NEW id, <<c, id>> \in DOMAIN masks,
           MaskCall(c, id)
    PROVE  CanvasInv' /\ Ages /\ ExtrasInv'
<1> DEFINE k == <<c, id>>
           m == masks[k]
<1>1. k \in DOMAIN masks /\ m \in Mask
  BY DEF ExtrasInv
<1>2. ASSUME NEW x \in Mask, masks' = [masks EXCEPT ![k] = x], MasksOnly
      PROVE  CanvasInv' /\ Ages /\ ExtrasInv'
  BY <1>1, <1>2, MaskSet
<1>3. CASE remove_mask(c, id)
  <2>1. masks' = Without(masks, k) /\ MasksOnly
    BY <1>3 DEF remove_mask
  <2> HIDE DEF k
  <2>2. masks' \in [DOMAIN masks' -> Mask] /\ DOMAIN masks' \subseteq DOMAIN masks
    BY <2>1 DEF Without, ExtrasInv
  <2> QED BY <2>1, <2>2, MasksChange
<1>4. ASSUME NEW w \in {"white", "black", "grey"},
             masks' = [masks EXCEPT ![k].shows = w], MasksOnly
      PROVE  CanvasInv' /\ Ages /\ ExtrasInv'
  <2> HIDE DEF k
  <2>1. [m EXCEPT !.shows = w] \in Mask
    BY <1>1 DEF Mask
  <2>2. masks' = [masks EXCEPT ![k] = [m EXCEPT !.shows = w]]
    BY <1>4
  <2> HIDE DEF m
  <2> QED BY <2>1, <2>2, <1>2, <1>4
<1>5. CASE invert_mask(c, id)
  <2>1. m.shows \in {"white", "black", "grey"}
    BY <1>1 DEF Mask
  <2>2. Inverse255[m.shows] \in {"white", "black", "grey"}
    BY <2>1 DEF Inverse255
  <2>3. masks' = [masks EXCEPT ![k].shows = Inverse255[m.shows]] /\ MasksOnly
    BY <1>5 DEF invert_mask
  <2> QED BY <2>2, <2>3, <1>4
<1>6. ASSUME NEW e \in BOOLEAN, set_mask_enabled(c, id, e)
      PROVE  CanvasInv' /\ Ages /\ ExtrasInv'
  <2>1. [m EXCEPT !.enabled = e] \in Mask
    <3> HIDE DEF m, k
    <3> QED BY <1>1 DEF Mask
  <2>2. masks' = [masks EXCEPT ![k] = [m EXCEPT !.enabled = e]] /\ MasksOnly
    BY <1>6 DEF set_mask_enabled
  <2> QED BY <2>1, <2>2, <1>2
<1>7. ASSUME NEW z \in Sizes, NEW w \in {"white", "black", "grey"}, set_mask_data(c, id, z, w)
      PROVE  CanvasInv' /\ Ages /\ ExtrasInv'
  <2>1. [m EXCEPT !.len = z, !.size = z, !.shows = w] \in Mask
    <3> HIDE DEF m, k
    <3> QED BY <1>1 DEF Mask, LayerSizes
  <2>2. masks' = [masks EXCEPT ![k] = [m EXCEPT !.len = z, !.size = z, !.shows = w]]
        /\ MasksOnly
    BY <1>7 DEF set_mask_data
  <2> QED BY <2>1, <2>2, <1>2
<1>8. ASSUME NEW w \in {"white", "black"}, mask_fill(c, id, w)
      PROVE  CanvasInv' /\ Ages /\ ExtrasInv'
  BY <1>8, <1>4 DEF mask_fill
<1>9. ASSUME NEW w \in {"white", "black"}, mask_paint(c, id, w)
      PROVE  CanvasInv' /\ Ages /\ ExtrasInv'
  <2>1. PICK v \in {m.shows, "grey", w} : masks' = [masks EXCEPT ![k].shows = v]
    BY <1>9 DEF mask_paint
  <2>2. v \in {"white", "black", "grey"} /\ MasksOnly
    BY <2>1, <1>1, <1>9 DEF Mask, mask_paint
  <2> QED BY <2>1, <2>2, <1>4
<1> QED BY <1>3, <1>5, <1>6, <1>7, <1>8, <1>9 DEF MaskCall

LEMMA ApplyMaskKeepsInv ==
    ASSUME CanvasInv, ExtrasInv, NEW c \in Open, NEW id \in IdsOf(c),
           <<c, id>> \in DOMAIN masks, apply_mask(c, id)
    PROVE  CanvasInv' /\ Ages /\ ExtrasInv'
<1> DEFINE l == LayerOf(c, id)
           p == heap[l.px].shows
           w == masks[<<c, id>>].shows
<1>1. /\ l \in Layer /\ l.px \in DOMAIN heap \cup {NULL} /\ HeapOK(heap)
  BY NamedLayer
<1>2. /\ l.px # NULL /\ update_layer_pixels(c, id, l.size, Masked(p, w))
      /\ UNCHANGED extraVars
  BY DEF apply_mask, CanApply
<1>3. p \in Shows /\ l.size \in LayerSizes
  <2>1. l.px \in DOMAIN heap
    BY <1>1, <1>2
  <2>2. heap[l.px] \in Pixels
    BY <1>1, <2>1 DEF HeapOK
  <2>3. l.size \in LayerSizes
    BY <1>1 DEF Layer
  <2> QED BY <2>2, <2>3 DEF Pixels
<1>4. w \in {"white", "black", "grey"}
  BY DEF ExtrasInv, Mask
<1>5. Masked(p, w) \in Shows
  <2> HIDE DEF p, w
  <2>1. CASE w = "white"
    BY <2>1, <1>3 DEF Masked
  <2>2. CASE w = "black"
    BY <2>2 DEF Masked, Shows
  <2>3. CASE w = "grey"
    BY <2>3 DEF Masked, Shows
  <2> QED BY <2>1, <2>2, <2>3, <1>4
<1>6. CanvasInv' /\ Ages
  BY <1>2, <1>3, <1>5, UpdatePixelsKeepsInv
<1> QED BY <1>2, <1>6, ExtrasStay

LEMMA TextKeepsInv ==
    ASSUME CanvasInv, ExtrasInv, NEW c \in Open, NEW i \in -1 .. MaxLayers - 1,
           NEW z \in Sizes, NEW p \in Pictures, add_text_layer(c, z, p, i)
    PROVE  CanvasInv' /\ Ages /\ ExtrasInv'
<1> DEFINE t == "image"  a == "Text"
<1>1. /\ i \in Int /\ z \in LayerSizes /\ p \in Shows /\ t \in {"image", "solid"}
      /\ a \in {"Image", "Text", "SolidColor"} /\ UNCHANGED extraVars
  BY BoundAssumption DEF LayerSizes, Shows, add_text_layer
<1>2. AddPixels(c, t, a, z, p, i)
  BY DEF add_text_layer, AddPixels
<1> HIDE DEF t, a
<1>3. CanvasInv' /\ Ages
  BY <1>1, <1>2, AddPixelsKeepsInv
<1> QED BY <1>1, <1>3, ExtrasStay

LEMMA ExtrasCallKeepsInv ==
    ASSUME CanvasInv, ExtrasInv, ExtrasCall
    PROVE  CanvasInv' /\ Ages /\ ExtrasInv'
<1>1. ASSUME UNCHANGED <<canvasVars, effectVars, masks>>
      PROVE  CanvasInv' /\ Ages /\ ExtrasInv'
  <2>1. /\ UNCHANGED canvasVars /\ effects' = effects /\ masks' = masks
        /\ next_instance_id' = next_instance_id
    BY <1>1 DEF effectVars
  <2> QED BY <2>1, ExtrasChange DEF ExtrasInv
<1>2. CASE effects_init
  BY <1>1, <1>2 DEF effects_init
<1>3. CASE effects_shutdown
  BY <1>1, <1>3 DEF effects_shutdown
<1>4. ASSUME NEW c \in Open, NEW id \in IdsOf(c), add_mask(c, id)
      PROVE  CanvasInv' /\ Ages /\ ExtrasInv'
  BY <1>4, AddMaskKeepsInv
<1>5. ASSUME NEW c \in Open, NEW id \in IdsOf(c), NEW e \in Effects, add_effect(c, id, e)
      PROVE  CanvasInv' /\ Ages /\ ExtrasInv'
  BY <1>5, AddEffectKeepsInv
<1>6. ASSUME NEW c \in Open, NEW id \in IdsOf(c), NEW z \in Sizes, NEW p \in Pictures,
             update_text_layer(c, id, z, p)
      PROVE  CanvasInv' /\ Ages /\ ExtrasInv'
  <2>1. /\ z \in LayerSizes /\ p \in Shows /\ update_layer_pixels(c, id, z, p)
        /\ UNCHANGED extraVars
    BY <1>6 DEF LayerSizes, Shows, update_text_layer
  <2>2. CanvasInv' /\ Ages
    BY <2>1, UpdatePixelsKeepsInv
  <2> QED BY <2>1, <2>2, ExtrasStay
<1>7. ASSUME NEW c \in Open, NEW id \in IdsOf(c), <<c, id>> \in DOMAIN masks,
             apply_mask(c, id)
      PROVE  CanvasInv' /\ Ages /\ ExtrasInv'
  BY <1>7, ApplyMaskKeepsInv
<1>8. ASSUME NEW c \in Open, NEW i \in -1 .. MaxLayers - 1, NEW z \in Sizes,
             NEW p \in Pictures, add_text_layer(c, z, p, i)
      PROVE  CanvasInv' /\ Ages /\ ExtrasInv'
  BY <1>8, TextKeepsInv
<1>9. ASSUME NEW k \in DOMAIN masks, MaskCall(k[1], k[2])
      PROVE  CanvasInv' /\ Ages /\ ExtrasInv'
  <2>1. k = <<k[1], k[2]>>
    BY DEF ExtrasInv, Given
  <2> QED BY <2>1, <1>9, MaskCallKeepsInv
<1>10. ASSUME NEW k \in DOMAIN effects, NEW n \in InstancesOf(k), EffectCall(k, n)
       PROVE  CanvasInv' /\ Ages /\ ExtrasInv'
  BY <1>10, EffectCallKeepsInv
<1> QED BY <1>2, <1>3, <1>4, <1>5, <1>6, <1>7, <1>8, <1>9, <1>10 DEF ExtrasCall

-----------------------------------------------------------------------------
(* Project files. *)

\* What a file tells of a layer, and of what the canvas painted of it.
FileEntry == [layer : Layer, shows : Shows \cup {NULL}]
Strokes == [solid : BOOLEAN, shows : Shows, size : LayerSizes,
            place : Places \cup {"origin"}, opacity : 0 .. 10, mode : Modes \cup {"normal"}]
PaintsEntry(e) == e.layer.visible /\ e.layer.opacity > 0 /\ e.shows # NULL
EntryStroke(e) == [solid |-> e.layer.type = "solid", shows |-> e.shows,
                   size |-> e.layer.size, place |-> e.layer.place,
                   opacity |-> e.layer.opacity, mode |-> e.layer.mode]
Painted(es) == {i \in DOMAIN es : PaintsEntry(es[i])}
PaintingOf(es) == [m \in 1 .. Cardinality(Painted(es)) |-> EntryStroke(es[Nth(Painted(es), m)])]

\* The entries of a file are those of what was painted, or the first of them.
FileOK(d) ==
    /\ d.size \in CanvasSizes
    /\ d.entries \in Seq(FileEntry)
    /\ d.saved \in Seq(Strokes)
    /\ IsPrefix(PaintingOf(d.entries), d.saved)
    /\ d.whole => PaintingOf(d.entries) = d.saved

DiskInv == disk # NULL => FileOK(disk)

\* A prefix, element by element.
LEMMA PrefixProperties ==
    ASSUME NEW S, NEW s \in Seq(S), NEW t \in Seq(S)
    PROVE  IsPrefix(s, t) <=> Len(s) <= Len(t) /\ \A i \in 1 .. Len(s) : s[i] = t[i]
<1>1. Len(s) \in Nat /\ Len(t) \in Nat
  OBVIOUS
<1>2. s = SubSeq(s, 1, Len(s))
  OBVIOUS
<1>3. CASE ~(Len(s) <= Len(t))
  BY <1>3 DEF IsPrefix
<1>4. CASE Len(s) <= Len(t)
  <2>1. /\ SubSeq(t, 1, Len(s)) \in Seq(S) /\ Len(SubSeq(t, 1, Len(s))) = Len(s)
        /\ \A i \in 1 .. Len(s) : SubSeq(t, 1, Len(s))[i] = t[i]
    BY <1>1, <1>4
  <2>2. s = SubSeq(t, 1, Len(s)) <=> \A i \in 1 .. Len(s) : s[i] = t[i]
    <3> DEFINE u == SubSeq(t, 1, Len(s))
    <3>1. u \in Seq(S) /\ Len(u) = Len(s) /\ \A i \in 1 .. Len(s) : u[i] = t[i]
      BY <2>1
    <3> HIDE DEF u
    <3>2. ASSUME \A i \in 1 .. Len(s) : s[i] = u[i] PROVE s = u
      BY <3>1, <3>2, SeqEqual
    <3>3. s = u <=> \A i \in 1 .. Len(s) : s[i] = u[i]
      BY <3>2
    <3>4. s = u <=> \A i \in 1 .. Len(s) : s[i] = t[i]
      BY <3>1, <3>3
    <3> QED BY <3>4 DEF u
  <2> QED BY <2>2, <1>2, <1>4 DEF IsPrefix
<1> QED BY <1>3, <1>4

\* What entries paint is a sequence of strokes.
LEMMA EntriesPaint ==
    ASSUME NEW es \in Seq(FileEntry)
    PROVE  /\ Painted(es) \in SUBSET (1 .. Len(es)) /\ Len(es) \in Nat
           /\ Cardinality(Painted(es)) \in Nat
           /\ PaintingOf(es) \in Seq(Strokes)
           /\ Len(PaintingOf(es)) = Cardinality(Painted(es))
           /\ \A m \in 1 .. Cardinality(Painted(es)) :
                 /\ Nth(Painted(es), m) \in Painted(es)
                 /\ PaintingOf(es)[m] = EntryStroke(es[Nth(Painted(es), m)])
<1> DEFINE I == Painted(es)
<1>1. I \in SUBSET (1 .. Len(es)) /\ Len(es) \in Nat
  BY DEF Painted
<1>2. Cardinality(I) \in Nat /\ \A m \in 1 .. Cardinality(I) : Nth(I, m) \in I
  BY <1>1, PositionsAreFinite, NthProperties
<1>3. ASSUME NEW i \in I PROVE EntryStroke(es[i]) \in Strokes
  <2>1. es[i] \in FileEntry /\ es[i].shows # NULL
    BY DEF Painted, PaintsEntry
  <2>2. es[i].layer \in Layer /\ es[i].shows \in Shows
    BY <2>1 DEF FileEntry
  <2> QED BY <2>2 DEF EntryStroke, Strokes, Layer
<1>4. PaintingOf(es) = [m \in 1 .. Cardinality(I) |-> EntryStroke(es[Nth(I, m)])]
  BY DEF PaintingOf
<1> HIDE DEF I
<1>5. PaintingOf(es) \in [1 .. Cardinality(I) -> Strokes]
  BY <1>2, <1>3, <1>4
<1> QED BY <1>1, <1>2, <1>4, <1>5 DEF I

\* What the first entries paint is the first of what all of them paint.
LEMMA FirstEntriesPaint ==
    ASSUME NEW es \in Seq(FileEntry), NEW n \in 0 .. Len(es)
    PROVE  /\ SubSeq(es, 1, n) \in Seq(FileEntry)
           /\ IsPrefix(PaintingOf(SubSeq(es, 1, n)), PaintingOf(es))
<1> DEFINE first == SubSeq(es, 1, n)
           I == Painted(first)
           F == Painted(es)
<1>1. /\ n \in Nat /\ Len(es) \in Nat /\ first \in Seq(FileEntry) /\ Len(first) = n
      /\ \A i \in 1 .. n : first[i] = es[i]
  OBVIOUS
<1> HIDE DEF first
<1>2. I = UpTo(F, n)
  <2>1. DOMAIN first = 1 .. n /\ DOMAIN es = 1 .. Len(es)
    BY <1>1
  <2>2. DOMAIN first = {i \in DOMAIN es : i <= n}
    BY <1>1, <2>1
  <2>3. \A i \in DOMAIN first : first[i] = es[i]
    BY <1>1, <2>1
  <2> QED BY <2>2, <2>3 DEF Painted, UpTo
<1>3. F \in SUBSET (1 .. Len(es))
  BY EntriesPaint
<1>9. \A i \in I : i \in 1 .. n
  BY <1>1, <1>2, <1>3 DEF UpTo
<1>10. Positions(F)
  BY <1>1, <1>3 DEF Positions
<1> HIDE DEF I, F
<1>4. /\ Cardinality(I) \in Nat /\ Cardinality(F) \in Nat /\ Cardinality(I) <= Cardinality(F)
      /\ \A k \in 1 .. Cardinality(I) : Nth(F, k) = Nth(I, k)
  BY <1>1, <1>2, <1>10, NthOfPrefix
<1>5. /\ PaintingOf(first) \in Seq(Strokes) /\ Len(PaintingOf(first)) = Cardinality(I)
      /\ \A m \in 1 .. Cardinality(I) :
            Nth(I, m) \in I /\ PaintingOf(first)[m] = EntryStroke(first[Nth(I, m)])
  BY <1>1, EntriesPaint DEF I
<1>6. /\ PaintingOf(es) \in Seq(Strokes) /\ Len(PaintingOf(es)) = Cardinality(F)
      /\ \A m \in 1 .. Cardinality(F) : PaintingOf(es)[m] = EntryStroke(es[Nth(F, m)])
  BY EntriesPaint DEF F
<1>7. \A m \in 1 .. Cardinality(I) : PaintingOf(first)[m] = PaintingOf(es)[m]
  <2> TAKE m \in 1 .. Cardinality(I)
  <2>1. m \in 1 .. Cardinality(F)
    BY <1>4
  <2>2. Nth(I, m) \in 1 .. n
    BY <1>5, <1>9
  <2> QED BY <2>1, <2>2, <1>1, <1>4, <1>5, <1>6
<1>8. IsPrefix(PaintingOf(first), PaintingOf(es))
  BY <1>4, <1>5, <1>6, <1>7, PrefixProperties
<1> QED BY <1>1, <1>8 DEF first

\* A file holds what its canvas paints.
LEMMA SaveKeepsInv ==
    ASSUME CanvasInv, NEW c \in Open, save_to_file(c), disk' # NULL
    PROVE  FileOK(disk')
<1> DEFINE layers == LayersOf(c)
           es == [i \in DOMAIN layers |-> Entry(layers[i])]
           I == {i \in DOMAIN layers : Paints(layers[i])}
<1>1. /\ layers \in Seq(Layer) /\ canvases[c].size \in CanvasSizes
      /\ HeapOK(heap) /\ \A i \in DOMAIN layers :
            layers[i].px # NULL => layers[i].px \in DOMAIN heap
  <2>1. /\ layers \in Seq(Layer) /\ canvases[c] \in CanvasState /\ HeapOK(heap)
        /\ LayersIn(c) = ToSet(layers)
        /\ \A l \in LayersIn(c) : l.px # NULL => l.px \in DOMAIN heap
    BY NamedLayer
  <2> QED BY <2>1 DEF CanvasState, ToSet
<1> HIDE DEF layers
<1>2. ASSUME NEW i \in DOMAIN layers
      PROVE  /\ Entry(layers[i]) \in FileEntry
             /\ PaintsEntry(Entry(layers[i])) <=> Paints(layers[i])
             /\ Paints(layers[i]) => EntryStroke(Entry(layers[i])) = Stroke(layers[i])
  <2> DEFINE l == layers[i]
  <2>1. l \in Layer
    BY <1>1
  <2>2. l.px # NULL => heap[l.px].shows \in Shows /\ heap[l.px].shows # NULL
    <3>1. l.px # NULL => heap[l.px] \in Pixels
      BY <1>1 DEF HeapOK
    <3> QED BY <3>1, Nulls DEF Pixels
  <2> HIDE DEF l
  <2>3. Entry(l).layer = l /\ Entry(l).shows = IF l.px = NULL THEN NULL ELSE heap[l.px].shows
    BY DEF Entry
  <2>4. Entry(l) \in FileEntry
    BY <2>1, <2>2 DEF Entry, FileEntry
  <2>5. PaintsEntry(Entry(l)) <=> Paints(l)
    BY <2>2, <2>3 DEF PaintsEntry, Paints
  <2>6. Paints(l) => EntryStroke(Entry(l)) = Stroke(l)
    BY <2>3 DEF EntryStroke, Stroke, Paints
  <2> QED BY <2>4, <2>5, <2>6 DEF l
<1>3. es \in Seq(FileEntry) /\ DOMAIN es = DOMAIN layers /\ \A i \in DOMAIN layers : es[i] = Entry(layers[i])
  <2>1. layers \in [1 .. Len(layers) -> Layer] /\ Len(layers) \in Nat /\ DOMAIN layers = 1 .. Len(layers)
    BY <1>1
  <2> QED BY <1>2, <2>1
<1> HIDE DEF es
<1>4. Painted(es) = I
  BY <1>2, <1>3 DEF Painted
<1>5. /\ Cardinality(I) \in Nat
      /\ DOMAIN Select(layers, I) = 1 .. Cardinality(I)
      /\ \A n \in 1 .. Cardinality(I) :
            Nth(I, n) \in I /\ Select(layers, I)[n] = layers[Nth(I, n)]
  <2>1. I \in SUBSET DOMAIN layers
    OBVIOUS
  <2> HIDE DEF I
  <2> QED BY <2>1, <1>1, SelectProperties
<1>6. Painting(layers) = [n \in 1 .. Cardinality(I) |-> Stroke(layers[Nth(I, n)])]
  <2>1. Painting(layers) = [n \in DOMAIN Select(layers, I) |-> Stroke(Select(layers, I)[n])]
    BY DEF Painting
  <2> HIDE DEF I
  <2> QED BY <2>1, <1>5
<1>7. ASSUME NEW i \in I PROVE EntryStroke(es[i]) = Stroke(layers[i])
  BY <1>2, <1>3
<1>8. PaintingOf(es) = Painting(layers)
  <2>1. PaintingOf(es) = [n \in 1 .. Cardinality(I) |-> EntryStroke(es[Nth(I, n)])]
    BY <1>4 DEF PaintingOf
  <2> HIDE DEF I
  <2> QED BY <2>1, <1>5, <1>6, <1>7
<1>9. /\ Saved(c).size = canvases[c].size /\ Saved(c).entries = es
      /\ Saved(c).saved = Painting(layers) /\ Saved(c).whole = TRUE
  BY DEF Saved, es, layers
<1>10. PaintingOf(es) \in Seq(Strokes) /\ IsPrefix(PaintingOf(es), PaintingOf(es))
  <2>1. PaintingOf(es) \in Seq(Strokes)
    BY <1>3, EntriesPaint
  <2> QED BY <2>1, PrefixProperties
<1>11. CASE disk' = Saved(c)
  BY <1>1, <1>3, <1>8, <1>9, <1>10, <1>11 DEF FileOK
<1>12. ASSUME NEW n \in 0 .. Len(es),
              disk' = [Saved(c) EXCEPT !.entries = SubSeq(@, 1, n), !.whole = FALSE]
       PROVE  FileOK(disk')
  <2>1. /\ disk'.size = canvases[c].size /\ disk'.entries = SubSeq(es, 1, n)
        /\ disk'.saved = Painting(layers) /\ disk'.whole = FALSE
    BY <1>9, <1>12 DEF Saved
  <2>2. SubSeq(es, 1, n) \in Seq(FileEntry) /\ IsPrefix(PaintingOf(SubSeq(es, 1, n)), PaintingOf(es))
    BY <1>3, FirstEntriesPaint
  <2> QED BY <2>1, <2>2, <1>1, <1>8, <1>10 DEF FileOK
<1>13. \/ disk' = Saved(c)
       \/ \E n \in 0 .. Len(Saved(c).entries) :
             disk' = [Saved(c) EXCEPT !.entries = SubSeq(@, 1, n), !.whole = FALSE]
  BY DEF save_to_file
<1> QED BY <1>9, <1>11, <1>12, <1>13

\* What loading makes of the file d: of the entries at K those at L become
\* layers, each with a buffer of its own.
Loading(d, c, K, L, buffer, layers) ==
    /\ K \in SUBSET (1 .. Len(d.entries)) /\ L \subseteq K
    /\ \A i \in K : d.entries[i] \in FileEntry /\ d.entries[i].shows \in Shows
    /\ buffer \in [L -> Buffers \ DOMAIN heap]
    /\ \A i, j \in L : buffer[i] = buffer[j] => i = j
    /\ Len(layers) = Cardinality(L)
    /\ layers = [n \in 1 .. Cardinality(L) |->
                    LoadedLayer(d.entries[Nth(L, n)], Rank(K, Nth(L, n)), buffer[Nth(L, n)])]
    /\ canvases' = [canvases EXCEPT ![c] =
           [layers |-> layers, next_layer_id |-> Cardinality(K) + 1, size |-> d.size]]
    /\ DOMAIN heap' = DOMAIN heap \cup {buffer[i] : i \in L}
    /\ heap' = [b \in DOMAIN heap' |-> heap'[b]]
    /\ \A b \in DOMAIN heap : heap'[b] = heap[b]
    /\ \A i \in L : heap'[buffer[i]] = [size |-> d.entries[i].layer.size,
                                        shows |-> LoadedShows(d.entries[i])]

LEMMA FilesLoad ==
    ASSUME CanvasInv, DiskInv, disk # NULL, NEW c \in Addresses,
           NEW failed \in MayFail, project_load(c, failed)
    PROVE  \E buffer, layers :
               Loading(disk, c, HavePixels, HavePixels \ failed, buffer, layers)
<1> DEFINE K == HavePixels
           L == K \ failed
           free == Buffers \ DOMAIN heap
           buffer == CHOOSE f \in Injection(L, free) : TRUE
           layers == [n \in 1 .. Cardinality(L) |->
                         LoadedLayer(disk.entries[Nth(L, n)], Rank(K, Nth(L, n)),
                                     buffer[Nth(L, n)])]
<1>1. /\ K \in SUBSET (1 .. Len(disk.entries)) /\ Len(disk.entries) \in Nat
      /\ \A i \in K : disk.entries[i] \in FileEntry /\ disk.entries[i].shows \in Shows
  <2>1. disk.entries \in Seq(FileEntry)
    BY DEF DiskInv, FileOK
  <2>2. \A i \in DOMAIN disk.entries : disk.entries[i] \in FileEntry
    BY <2>1
  <2>3. \A e \in FileEntry : e.shows # NULL => e.shows \in Shows
    BY DEF FileEntry
  <2>4. DOMAIN disk.entries = 1 .. Len(disk.entries) /\ Len(disk.entries) \in Nat
    BY <2>1
  <2> QED BY <2>2, <2>3, <2>4 DEF HavePixels
<1>2. L \subseteq K /\ L \in SUBSET (1 .. Len(disk.entries))
  BY <1>1
<1>3. IsFiniteSet(L) /\ Cardinality(L) \in Nat
  BY <1>1, <1>2, PositionsAreFinite
<1>4. IsFiniteSet(free)
  BY BufferAssumption, FS_Subset
<1>5. Cardinality(L) <= Cardinality(free)
  BY DEF MayFail
<1> HIDE DEF K, L, free
<1>6. buffer \in Injection(L, free)
  <2>1. Injection(L, free) # {}
    BY <1>3, <1>4, <1>5, InjectionExists
  <2> QED BY <2>1
<1> HIDE DEF buffer
<1>7. buffer \in [L -> free] /\ \A i, j \in L : buffer[i] = buffer[j] => i = j
  BY <1>6 DEF Injection, IsInjective
<1>8. /\ canvases' = [canvases EXCEPT ![c] =
             [layers |-> layers, next_layer_id |-> Cardinality(K) + 1, size |-> disk.size]]
      /\ heap' = [b \in DOMAIN heap \cup {buffer[i] : i \in L} |->
             IF b \in DOMAIN heap THEN heap[b]
             ELSE [size |-> disk.entries[CHOOSE i \in L : buffer[i] = b].layer.size,
                   shows |-> LoadedShows(disk.entries[CHOOSE i \in L : buffer[i] = b])]]
  BY DEF project_load, LoadedId, K, L, free, buffer
<1>9. Len(layers) = Cardinality(L)
  BY <1>3
<1> HIDE DEF layers
<1>10. \A i \in L : (CHOOSE j \in L : buffer[j] = buffer[i]) = i
  BY <1>7
<1>11. \A i \in L : buffer[i] \notin DOMAIN heap
  BY <1>7 DEF free
<1>12. \A i \in L : heap'[buffer[i]] = [size |-> disk.entries[i].layer.size,
                                        shows |-> LoadedShows(disk.entries[i])]
  BY <1>8, <1>10, <1>11
<1>13. /\ DOMAIN heap' = DOMAIN heap \cup {buffer[i] : i \in L}
       /\ heap' = [b \in DOMAIN heap' |-> heap'[b]]
       /\ \A b \in DOMAIN heap : heap'[b] = heap[b]
  BY <1>8
<1>14. buffer \in [L -> Buffers \ DOMAIN heap]
  BY <1>7 DEF free
<1>15. layers = [n \in 1 .. Cardinality(L) |->
                    LoadedLayer(disk.entries[Nth(L, n)], Rank(K, Nth(L, n)), buffer[Nth(L, n)])]
  BY DEF layers
<1>16. canvases' = [canvases EXCEPT ![c] =
           [layers |-> layers, next_layer_id |-> Cardinality(K) + 1, size |-> disk.size]]
  BY <1>8
<1>17. Loading(disk, c, K, L, buffer, layers)
  BY <1>1, <1>2, <1>7, <1>9, <1>12, <1>13, <1>14, <1>15, <1>16 DEF Loading
<1> QED BY <1>17 DEF K, L

\* The layers that were loaded.
LEMMA LoadedLayers ==
    ASSUME NEW d, NEW c, NEW K, NEW L, NEW buffer, NEW layers,
           Loading(d, c, K, L, buffer, layers), d.entries \in Seq(FileEntry)
    PROVE  /\ Cardinality(L) \in Nat /\ Cardinality(K) \in Nat
           /\ \A n \in 1 .. Cardinality(L) : Nth(L, n) \in L
           /\ layers \in Seq(Layer) /\ DOMAIN layers = 1 .. Cardinality(L)
           /\ DistinctIds(layers)
           /\ \A i \in L : LET l == LoadedLayer(d.entries[i], Rank(K, i), buffer[i])
                           IN  /\ l \in Layer /\ l.px = buffer[i]
                               /\ l.size = d.entries[i].layer.size
                               /\ l.id <= Cardinality(K)
           /\ \A l \in ToSet(layers) :
                  \E i \in L : l = LoadedLayer(d.entries[i], Rank(K, i), buffer[i])
           /\ \A i \in L : LoadedLayer(d.entries[i], Rank(K, i), buffer[i]) \in ToSet(layers)
<1> DEFINE new(i) == LoadedLayer(d.entries[i], Rank(K, i), buffer[i])
<1>1. /\ K \in SUBSET (1 .. Len(d.entries)) /\ L \subseteq K
      /\ \A i \in K : d.entries[i] \in FileEntry /\ d.entries[i].shows \in Shows
      /\ buffer \in [L -> Buffers \ DOMAIN heap]
  BY DEF Loading
<1>2. Len(layers) = Cardinality(L) /\ layers = [n \in 1 .. Cardinality(L) |-> new(Nth(L, n))]
  BY DEF Loading
<1>3. Len(d.entries) \in Nat /\ L \in SUBSET (1 .. Len(d.entries))
  BY <1>1
<1>4. /\ Cardinality(L) \in Nat /\ Cardinality(K) \in Nat
      /\ \A n \in 1 .. Cardinality(L) : Nth(L, n) \in L
      /\ \A i \in L : \E n \in 1 .. Cardinality(L) : Nth(L, n) = i
      /\ \A n, k \in 1 .. Cardinality(L) : Nth(L, n) = Nth(L, k) => n = k
  BY <1>1, <1>3, PositionsAreFinite, NthProperties, NthInjective
<1>5. /\ \A i \in K : Rank(K, i) \in 1 .. Cardinality(K) /\ Nth(K, Rank(K, i)) = i
  BY <1>1, <1>3, RankProperties
<1>6. ASSUME NEW i \in L
      PROVE  /\ new(i) \in Layer /\ new(i).px = buffer[i] /\ new(i).id = Rank(K, i)
             /\ new(i).size = d.entries[i].layer.size
  <2>1. d.entries[i].layer \in Layer
    BY <1>1 DEF FileEntry
  <2>2. LoadedType(d.entries[i]) \in {"image", "solid"}
    BY DEF LoadedType
  <2>3. buffer[i] \in Buffers /\ Rank(K, i) \in Nat
    BY <1>1, <1>4, <1>5
  <2> QED BY <2>1, <2>2, <2>3 DEF LoadedLayer, create_layer, Layer
<1> HIDE DEF new
<1>7. DOMAIN layers = 1 .. Cardinality(L) /\ layers \in [1 .. Cardinality(L) -> Layer]
  BY <1>2, <1>4, <1>6
<1>8. layers \in Seq(Layer)
  BY <1>4, <1>7
<1>9. DistinctIds(layers)
  <2> SUFFICES ASSUME NEW n \in DOMAIN layers, NEW k \in DOMAIN layers,
                      layers[n].id = layers[k].id
               PROVE  n = k
    BY DEF DistinctIds
  <2>1. layers[n] = new(Nth(L, n)) /\ layers[k] = new(Nth(L, k))
    BY <1>2, <1>7
  <2>2. Nth(L, n) \in L /\ Nth(L, k) \in L
    BY <1>4, <1>7
  <2>3. Rank(K, Nth(L, n)) = Rank(K, Nth(L, k))
    BY <2>1, <2>2, <1>6
  <2>4. Nth(L, n) = Nth(L, k)
    BY <2>2, <2>3, <1>1, <1>5
  <2> QED BY <2>4, <1>4, <1>7
<1>10. \A i \in L : new(i).id <= Cardinality(K)
  BY <1>1, <1>5, <1>6
<1>11. \A l \in ToSet(layers) : \E i \in L : l = new(i)
  BY <1>2, <1>4, <1>7 DEF ToSet
<1>12. \A i \in L : new(i) \in ToSet(layers)
  <2> TAKE i \in L
  <2>1. PICK n \in 1 .. Cardinality(L) : Nth(L, n) = i
    BY <1>4
  <2>2. n \in DOMAIN layers /\ layers[n] = new(i)
    BY <2>1, <1>2, <1>7
  <2> QED BY <2>2 DEF ToSet
<1> QED BY <1>4, <1>6, <1>7, <1>8, <1>9, <1>10, <1>11, <1>12 DEF new

LEMMA LoadKeepsInv ==
    ASSUME CanvasInv, DiskInv, NEW c \in Addresses, NEW failed, load_from_file(c, failed)
    PROVE  CanvasInv' /\ Ages
<1>1. /\ disk # NULL /\ canvases[c] = NULL /\ failed \in MayFail /\ project_load(c, failed)
      /\ births' = [births EXCEPT ![c] = @ + 1]
  BY DEF load_from_file
<1> DEFINE K == HavePixels
           L == K \ failed
<1>2. PICK buffer, layers : Loading(disk, c, K, L, buffer, layers)
  BY <1>1, FilesLoad
<1> HIDE DEF K, L
<1>3. disk.entries \in Seq(FileEntry) /\ disk.size \in CanvasSizes
  BY <1>1 DEF DiskInv, FileOK
<1> DEFINE new(i) == LoadedLayer(disk.entries[i], Rank(K, i), buffer[i])
           cv == [layers |-> layers, next_layer_id |-> Cardinality(K) + 1, size |-> disk.size]
           B == ToSet(layers)
           none == {}
<1>4. /\ Cardinality(L) \in Nat /\ Cardinality(K) \in Nat
      /\ layers \in Seq(Layer) /\ DistinctIds(layers)
      /\ \A i \in L : /\ new(i) \in Layer /\ new(i).px = buffer[i]
                      /\ new(i).size = disk.entries[i].layer.size
                      /\ new(i).id <= Cardinality(K)
      /\ \A l \in B : \E i \in L : l = new(i)
      /\ \A i \in L : new(i) \in B
  BY <1>2, <1>3, LoadedLayers
<1>5. /\ \A i \in K : disk.entries[i] \in FileEntry /\ disk.entries[i].shows \in Shows
      /\ L \subseteq K
      /\ buffer \in [L -> Buffers \ DOMAIN heap]
      /\ \A i, j \in L : buffer[i] = buffer[j] => i = j
      /\ canvases' = [canvases EXCEPT ![c] = cv]
      /\ DOMAIN heap' = DOMAIN heap \cup {buffer[i] : i \in L}
      /\ heap' = [b \in DOMAIN heap' |-> heap'[b]]
      /\ \A b \in DOMAIN heap : heap'[b] = heap[b]
      /\ \A i \in L : heap'[buffer[i]] = [size |-> disk.entries[i].layer.size,
                                          shows |-> LoadedShows(disk.entries[i])]
  BY <1>2 DEF Loading
<1> HIDE DEF new
<1>6. cv \in CanvasState /\ cv # NULL /\ CanvasOK(cv) /\ cv.layers = layers
  <2>1. cv \in CanvasState
    BY <1>3, <1>4 DEF CanvasState
  <2>2. cv.layers = layers /\ cv.next_layer_id = Cardinality(K) + 1
    OBVIOUS
  <2>3. \A l \in B : l.id < Cardinality(K) + 1
    <3> TAKE l \in B
    <3>1. PICK i \in L : l = new(i)
      BY <1>4
    <3>2. new(i).id \in Nat /\ new(i).id <= Cardinality(K)
      BY <1>4 DEF Layer
    <3> QED BY <3>1, <3>2, <1>4
  <2> HIDE DEF cv
  <2> QED BY <2>1, <2>2, <2>3, <1>4, Nulls DEF CanvasOK
<1> HIDE DEF cv
<1>7. HeapOK(heap) /\ \A b \in DOMAIN heap : heap[b] \in Pixels
  BY DEF CanvasInv, Owned, HeapOK
<1>8. ASSUME NEW i \in L
      PROVE  heap'[buffer[i]] \in Pixels /\ heap'[buffer[i]].size = disk.entries[i].layer.size
  <2>1. disk.entries[i].layer.size \in LayerSizes /\ disk.entries[i].shows \in Shows
    BY <1>5 DEF FileEntry, Layer
  <2>2. LoadedShows(disk.entries[i]) \in Shows
    BY <2>1, WhiteAssumption DEF LoadedShows, Shows
  <2>3. heap'[buffer[i]] = [size |-> disk.entries[i].layer.size,
                            shows |-> LoadedShows(disk.entries[i])]
    BY <1>5
  <2> QED BY <2>1, <2>2, <2>3 DEF Pixels
<1>9. HeapFollows(heap, heap', none, B)
  <2>1. heap' \in [DOMAIN heap' -> Pixels] /\ DOMAIN heap' \subseteq Buffers
    <3>1. \A b \in DOMAIN heap' : heap'[b] \in Pixels
      BY <1>5, <1>7, <1>8
    <3>2. DOMAIN heap' \subseteq Buffers
      BY <1>5, <1>7 DEF HeapOK
    <3> QED BY <3>1, <3>2, <1>5
  <2>2. \A b \in DOMAIN heap : b \in DOMAIN heap' /\ heap'[b] = heap[b]
    BY <1>5
  <2>3. ASSUME NEW b \in DOMAIN heap', \A l \in B : l.px # b
        PROVE  b \in DOMAIN heap
    <3>1. \A i \in L : buffer[i] # b
      BY <2>3, <1>4
    <3> QED BY <3>1, <1>5
  <2>4. ASSUME NEW l \in B
        PROVE  /\ l.px \in DOMAIN heap' /\ heap'[l.px].size = l.size
               /\ l.px \notin DOMAIN heap
               /\ \A k \in B : l.px = k.px => l = k
    <3>1. PICK i \in L : l = new(i)
      BY <1>4
    <3>2. l.px = buffer[i] /\ l.size = disk.entries[i].layer.size
      BY <3>1, <1>4
    <3>3. buffer[i] \in DOMAIN heap' /\ buffer[i] \notin DOMAIN heap
      BY <1>5
    <3>4. ASSUME NEW k \in B, l.px = k.px PROVE l = k
      <4>1. PICK j \in L : k = new(j)
        BY <1>4
      <4>2. buffer[i] = buffer[j]
        BY <4>1, <3>2, <3>4, <1>4
      <4>3. i = j
        BY <4>2, <1>5
      <4> QED BY <4>1, <4>3, <3>1
    <3> QED BY <3>2, <3>3, <3>4, <1>8
  <2> HIDE DEF B
  <2> QED BY <2>1, <2>2, <2>3, <2>4 DEF HeapFollows
<1>10. LayersIn(c) = {} /\ B \in SUBSET Layer /\ none \in SUBSET LayersIn(c)
  <2>1. B \in SUBSET Layer
    BY <1>4 DEF ToSet
  <2> QED BY <2>1, <1>1 DEF LayersIn
<1>11. ToSet(cv.layers) = (LayersIn(c) \ none) \cup B
  BY <1>6, <1>10
<1> HIDE DEF none, B
<1>12. /\ births' \in [Addresses -> Nat] /\ births'[c] > 0 /\ births'[c] = births[c] + 1
       /\ \A d \in Addresses : d # c => births'[d] = births[d]
  BY <1>1 DEF CanvasInv
<1>13. canvases' = [canvases EXCEPT ![c] = cv]
  BY <1>5
<1>14. CanvasInv'
  BY <1>6, <1>9, <1>10, <1>11, <1>12, <1>13, CanvasChange
<1>15. /\ canvases' \in [Addresses -> CanvasState \cup {NULL}]
       /\ \A d \in Addresses : d # c => canvases'[d] = canvases[d]
  BY <1>13, <1>14 DEF CanvasInv
<1>16. Ages
  BY <1>12, <1>15, ComesOrGoes
<1> QED BY <1>14, <1>16

-----------------------------------------------------------------------------
(* The engine whole. *)

\* The inductive invariant of the image engine.
IInv == CanvasInv /\ ExtrasInv /\ DiskInv

LEMMA InitHasInv == Init => IInv
<1> SUFFICES ASSUME Init PROVE IInv
  OBVIOUS
<1>1. /\ canvases = [c \in Addresses |-> NULL] /\ heap = << >>
      /\ births = [c \in Addresses |-> 0] /\ disk = NULL
      /\ masks = << >> /\ effects = << >> /\ next_instance_id = 1
  BY DEF Init, CanvasInit, ExtrasInit
<1>2. DOMAIN heap = {} /\ DOMAIN masks = {} /\ DOMAIN effects = {}
  BY <1>1
<1>3. CanvasInv
  <2>1. Open = {} /\ \A c \in Addresses : LayersIn(c) = {}
    BY <1>1 DEF Open, LayersIn
  <2>2. Owned(Layered, heap)
    <3>1. \A c \in Addresses : Layered[c] = {}
      BY <2>1 DEF Layered
    <3>2. heap \in [DOMAIN heap -> Pixels]
      BY <1>1, <1>2
    <3> QED BY <1>2, <3>1, <3>2 DEF Owned
  <2> QED BY <2>1, <2>2, <1>1 DEF CanvasInv
<1>4. ExtrasInv
  <2>1. masks \in [DOMAIN masks -> Mask] /\ effects \in [DOMAIN effects -> Seq(EffectInstance)]
    BY <1>1, <1>2
  <2> QED BY <2>1, <1>1, <1>2 DEF ExtrasInv, InstancesOK
<1>5. DiskInv
  BY <1>1 DEF DiskInv
<1> QED BY <1>3, <1>4, <1>5 DEF IInv

\* What a step does, whatever else: canvases age, and it changes either them
\* or what is kept beside them.
Step == IInv' /\ Ages /\ (UNCHANGED extraVars \/ UNCHANGED canvasVars)

LEMMA CanvasStep ==
    ASSUME IInv, CanvasInv', Ages, UNCHANGED extraVars, UNCHANGED disk
    PROVE  Step
<1>1. ExtrasInv'
  BY ExtrasStay DEF IInv
<1>2. DiskInv'
  BY DEF IInv, DiskInv
<1> QED BY <1>1, <1>2 DEF Step, IInv

LEMMA ExtrasStep ==
    ASSUME IInv, ExtrasCall, UNCHANGED disk
    PROVE  Step
<1>1. CanvasInv' /\ Ages /\ ExtrasInv'
  BY ExtrasCallKeepsInv DEF IInv
<1>2. DiskInv'
  BY DEF IInv, DiskInv
<1>3. UNCHANGED extraVars \/ UNCHANGED canvasVars
  <2>1. CASE effects_init \/ effects_shutdown
    BY <2>1 DEF effects_init, effects_shutdown
  <2>2. ASSUME NEW c, NEW id,
               \/ add_mask(c, id) \/ MaskCall(c, id)
               \/ \E e \in Effects : add_effect(c, id, e)
        PROVE  UNCHANGED canvasVars
    BY <2>2 DEF add_mask, MaskCall, add_effect, MasksOnly, EffectsOnly, remove_mask,
                invert_mask, set_mask_enabled, set_mask_data, mask_fill, mask_paint
  <2>3. ASSUME NEW k, NEW n, EffectCall(k, n)
        PROVE  UNCHANGED canvasVars
    BY <2>3 DEF EffectCall, remove_effect, effect_set_enabled, effect_set_mix,
                effect_set_param, SetInstance, EffectsOnly
  <2>4. ASSUME NEW c, NEW id,
               \/ apply_mask(c, id)
               \/ \E s \in Sizes, p \in Pictures : update_text_layer(c, id, s, p)
               \/ \E i \in -1 .. MaxLayers - 1, s \in Sizes, p \in Pictures :
                     add_text_layer(c, s, p, i)
        PROVE  UNCHANGED extraVars
    BY <2>4 DEF apply_mask, update_text_layer, add_text_layer
  <2>5. \/ effects_init \/ effects_shutdown
        \/ \E c, id : \/ add_mask(c, id) \/ MaskCall(c, id)
                      \/ \E e \in Effects : add_effect(c, id, e)
        \/ \E k, n : EffectCall(k, n)
        \/ \E c, id : \/ apply_mask(c, id)
                      \/ \E s \in Sizes, p \in Pictures : update_text_layer(c, id, s, p)
                      \/ \E i \in -1 .. MaxLayers - 1, s \in Sizes, p \in Pictures :
                            add_text_layer(c, s, p, i)
    BY DEF ExtrasCall
  <2> QED BY <2>1, <2>2, <2>3, <2>4, <2>5
<1> QED BY <1>1, <1>2, <1>3 DEF Step, IInv

LEMMA SaveStep ==
    ASSUME IInv, NEW c \in Open, save_to_file(c)
    PROVE  Step
<1>1. UNCHANGED canvasVars /\ UNCHANGED extraVars
  BY DEF save_to_file
<1>2. CanvasInv' /\ Ages
  BY <1>1, NothingAges DEF IInv
<1>3. ExtrasInv'
  BY <1>1, <1>2, ExtrasStay DEF IInv
<1>4. DiskInv'
  BY SaveKeepsInv DEF IInv, DiskInv
<1> QED BY <1>1, <1>2, <1>3, <1>4 DEF Step, IInv

LEMMA NextSteps ==
    ASSUME IInv, Next
    PROVE  Step
<1>1. ASSUME NEW c \in Addresses, NEW s \in CanvasSizes, canvas_create(c, s),
             UNCHANGED <<extraVars, disk>>
      PROVE  Step
  BY <1>1, CreateKeepsInv, CanvasStep DEF IInv
<1>2. ASSUME NEW c \in Open, CanvasCall(c), UNCHANGED <<extraVars, disk>>
      PROVE  Step
  BY <1>2, CanvasCallKeepsInv, CanvasStep DEF IInv
<1>3. ASSUME ExtrasCall, UNCHANGED disk
      PROVE  Step
  BY <1>3, ExtrasStep
<1>4. ASSUME NEW c \in Open, save_to_file(c)
      PROVE  Step
  BY <1>4, SaveStep
<1>5. ASSUME NEW c \in Addresses, NEW failed, load_from_file(c, failed)
      PROVE  Step
  <2>1. CanvasInv' /\ Ages
    BY <1>5, LoadKeepsInv DEF IInv
  <2>2. UNCHANGED <<extraVars, disk>>
    BY <1>5 DEF load_from_file
  <2> QED BY <2>1, <2>2, CanvasStep
<1>6. \/ \E c \in Addresses, s \in CanvasSizes :
            canvas_create(c, s) /\ UNCHANGED <<extraVars, disk>>
      \/ \E c \in Open : CanvasCall(c) /\ UNCHANGED <<extraVars, disk>>
      \/ ExtrasCall /\ UNCHANGED disk
      \/ \E c \in Open : save_to_file(c)
      \/ \E c \in Addresses : \E failed : load_from_file(c, failed)
  BY DEF Next
<1> QED BY <1>1, <1>2, <1>3, <1>4, <1>5, <1>6

LEMMA Stutters ==
    ASSUME IInv, UNCHANGED vars
    PROVE  Step
<1>1. UNCHANGED canvasVars /\ UNCHANGED extraVars /\ disk' = disk
  BY DEF vars
<1>2. CanvasInv' /\ Ages
  BY <1>1, NothingAges DEF IInv
<1> QED BY <1>1, <1>2, CanvasStep

\* Whatever calls are made of the engine, its canvases name their layers apart,
\* every buffer of the heap belongs to one of them, masks and effects are kept
\* for ids that have been given, and the file holds what was painted.
THEOREM ImageEngineInvariance == Spec => []IInv
<1>1. Init => IInv
  BY InitHasInv
<1>2. IInv /\ [Next]_vars => IInv'
  BY NextSteps, Stutters DEF Step
<1> QED BY <1>1, <1>2, PTL DEF Spec

\* Nothing leaks and no two layers share pixels, through every add, duplicate,
\* replace, mask, text, remove, destroy, save and load.
THEOREM OneOwner == Spec => []PixelsHaveOneOwner
<1>1. IInv => PixelsHaveOneOwner
  <2> SUFFICES ASSUME IInv PROVE PixelsHaveOneOwner
    OBVIOUS
  <2>1. Owned(Layered, heap)
    BY DEF IInv, CanvasInv
  <2>2. \A c \in Addresses : Layered[c] = LayersIn(c)
    BY DEF Layered
  <2>3. \A c \in Open : c \in Addresses /\ LayersIn(c) = ToSet(LayersOf(c))
    BY DEF Open, LayersIn
  <2>4. \A c \in Addresses : LayersIn(c) # {} => c \in Open
    BY DEF Open, LayersIn
  <2>5. \A b \in Buffers : b # NULL
    BY Nulls
  <2>6. ASSUME NEW b \in DOMAIN heap
        PROVE  \E c \in Open : b \in PixelsOf(LayersOf(c))
    <3>1. PICK c \in Addresses : \E l \in Layered[c] : l.px = b
      BY <2>1 DEF Owned
    <3>2. c \in Open /\ \E i \in DOMAIN LayersOf(c) : LayersOf(c)[i].px = b
      BY <3>1, <2>2, <2>3, <2>4 DEF ToSet
    <3>3. b # NULL
      BY <2>1, <2>5 DEF Owned
    <3> QED BY <3>2, <3>3 DEF PixelsOf
  <2>7. ASSUME NEW c \in Open, NEW b \in PixelsOf(LayersOf(c))
        PROVE  b \in DOMAIN heap
    <3>1. b # NULL /\ \E l \in LayersIn(c) : l.px = b
      BY <2>3 DEF PixelsOf, ToSet
    <3> QED BY <3>1, <2>1, <2>2, <2>3 DEF Owned
  <2>8. ASSUME NEW c \in Open, NEW d \in Open,
               NEW i \in DOMAIN LayersOf(c), NEW j \in DOMAIN LayersOf(d),
               LayersOf(c)[i].px # NULL, LayersOf(c)[i].px = LayersOf(d)[j].px
        PROVE  c = d /\ i = j
    <3>1. /\ c \in Addresses /\ LayersOf(c)[i] \in Layered[c]
          /\ d \in Addresses /\ LayersOf(d)[j] \in Layered[d]
      BY <2>2, <2>3 DEF ToSet
    <3>2. c = d /\ LayersOf(c)[i] = LayersOf(d)[j]
      BY <3>1, <2>1, <2>8 DEF Owned
    <3>3. DistinctIds(LayersOf(c))
      BY DEF IInv, CanvasInv, CanvasOK, LayersOf
    <3> QED BY <3>2, <3>3 DEF DistinctIds
  <2>9. DOMAIN heap = UNION {PixelsOf(LayersOf(c)) : c \in Open}
    BY <2>6, <2>7
  <2>10. ASSUME NEW a \in AllLayers, NEW b \in AllLayers,
                LayersOf(a[1])[a[2]].px # NULL,
                LayersOf(a[1])[a[2]].px = LayersOf(b[1])[b[2]].px
         PROVE  a = b
    <3>1. PICK c \in Open : \E i \in DOMAIN LayersOf(c) : a = <<c, i>>
      BY DEF AllLayers
    <3>2. PICK i \in DOMAIN LayersOf(c) : a = <<c, i>>
      BY <3>1
    <3>3. PICK d \in Open : \E j \in DOMAIN LayersOf(d) : b = <<d, j>>
      BY DEF AllLayers
    <3>4. PICK j \in DOMAIN LayersOf(d) : b = <<d, j>>
      BY <3>3
    <3>5. a[1] = c /\ a[2] = i /\ b[1] = d /\ b[2] = j
      BY <3>2, <3>4
    <3>6. c = d /\ i = j
      BY <3>5, <2>8, <2>10
    <3> QED BY <3>2, <3>4, <3>6
  <2> QED BY <2>9, <2>10 DEF PixelsHaveOneOwner
<1> QED BY <1>1, ImageEngineInvariance, PTL

\* The compositor, which takes a layer's size as that of its buffer, never
\* reads past the end of one.
THEOREM ContentFits == Spec => []ContentFitsBuffer
<1>1. IInv => ContentFitsBuffer
  <2> SUFFICES ASSUME IInv, NEW c \in Open, NEW i \in DOMAIN LayersOf(c),
                      LayersOf(c)[i].px # NULL
               PROVE  /\ LayersOf(c)[i].px \in DOMAIN heap
                      /\ heap[LayersOf(c)[i].px].size = LayersOf(c)[i].size
    BY DEF ContentFitsBuffer
  <2>1. LayersOf(c)[i] \in LayersIn(c)
    BY DEF LayersIn, Open, ToSet
  <2> QED BY <2>1, NamedLayer DEF IInv
<1> QED BY <1>1, ImageEngineInvariance, PTL

\* Effect instances are told apart by their ids, across all layers and
\* canvases, removed ones too, and no list of them is left empty.
THEOREM UniqueInstances == Spec => []InstancesAreUnique
<1>1. IInv => InstancesAreUnique
  <2> SUFFICES ASSUME IInv, NEW k \in DOMAIN effects
               PROVE  /\ effects[k] # <<>>
                      /\ \A i \in DOMAIN effects[k] :
                            /\ effects[k][i].id < next_instance_id
                            /\ \A h \in DOMAIN effects : \A j \in DOMAIN effects[h] :
                                  effects[h][j].id = effects[k][i].id => h = k /\ j = i
    BY DEF InstancesAreUnique
  <2>1. InstancesOK(effects, next_instance_id)
    BY DEF IInv, ExtrasInv
  <2>2. ASSUME NEW h \in DOMAIN effects, NEW i \in DOMAIN effects[h]
        PROVE  effects[h][i] \in ToSet(effects[h])
    BY DEF ToSet
  <2>3. ASSUME NEW i \in DOMAIN effects[k], NEW h \in DOMAIN effects,
               NEW j \in DOMAIN effects[h], effects[h][j].id = effects[k][i].id
        PROVE  h = k /\ j = i
    <3>1. h = k
      BY <2>1, <2>2, <2>3 DEF InstancesOK
    <3> QED BY <3>1, <2>1, <2>3 DEF InstancesOK, DistinctIds
  <2> QED BY <2>1, <2>2, <2>3 DEF InstancesOK
<1> QED BY <1>1, ImageEngineInvariance, PTL

\* Masks and effects stay in their maps when layers and canvases go; still, a
\* new layer of an address's first canvas finds none, since its id is new.
THEOREM CleanLayers == Spec => NewLayersStartClean
<1>1. ASSUME IInv, Step, NEW c \in Addresses, canvases'[c] # NULL, births'[c] = 1,
             NEW id \in IdsOf(c)' \ (IF canvases[c] = NULL THEN {} ELSE IdsOf(c)),
             <<c, id>> \in DOMAIN masks' \cup DOMAIN effects'
      PROVE  FALSE
  <2>1. Given(<<c, id>>)
    <3>1. CASE UNCHANGED extraVars
      BY <3>1, <1>1 DEF extraVars, IInv, ExtrasInv
    <3>2. CASE UNCHANGED canvasVars
      <4>1. Given(<<c, id>>)'
        BY <1>1 DEF Step, IInv, ExtrasInv
      <4> QED BY <4>1, <3>2 DEF canvasVars, Given
    <3> QED BY <3>1, <3>2, <1>1 DEF Step
  <2>2. births[c] > 0 /\ (births[c] = 1 /\ canvases[c] # NULL => id < canvases[c].next_layer_id)
    BY <2>1 DEF Given
  <2>3. /\ births'[c] >= births[c] /\ births[c] \in Nat
        /\ births'[c] = births[c] =>
              /\ canvases[c] # NULL
              /\ \A l \in LayersIn(c)' :
                    \/ \E k \in LayersIn(c) : k.id = l.id
                    \/ l.id >= canvases[c].next_layer_id
    BY <1>1 DEF Step, Ages, IInv, CanvasInv
  <2>4. births[c] = 1 /\ births'[c] = births[c]
    BY <2>2, <2>3, <1>1
  <2>5. canvases[c] # NULL /\ id < canvases[c].next_layer_id /\ c \in Open
    BY <2>2, <2>3, <2>4 DEF Open
  <2>6. PICK l \in LayersIn(c)' : l.id = id
    BY <1>1 DEF IdsOf, LayersIn, ToSet
  <2>7. \A k \in LayersIn(c) : k.id \in IdsOf(c)
    BY <2>5 DEF LayersIn, IdsOf, ToSet
  <2>8. id >= canvases[c].next_layer_id
    BY <2>3, <2>4, <2>5, <2>6, <2>7, <1>1
  <2>9. canvases[c].next_layer_id \in Nat
    BY <2>5, <1>1, NamedLayer DEF IInv
  <2>10. id \in Nat
    <3>1. \E e \in Addresses, n \in Nat : <<c, id>> = <<e, n>>
      BY <2>1 DEF Given
    <3> QED BY <3>1
  <2> QED BY <2>5, <2>8, <2>9, <2>10
<1>2. IInv /\ [Next]_vars =>
        [\A c \in Addresses :
            canvases'[c] # NULL /\ births'[c] = 1 =>
                \A id \in IdsOf(c)' \ (IF canvases[c] = NULL THEN {} ELSE IdsOf(c)) :
                    <<c, id>> \notin DOMAIN masks' \cup DOMAIN effects']_vars
  BY <1>1, NextSteps
<1> QED BY <1>2, ImageEngineInvariance, PTL DEF Spec, NewLayersStartClean

\* What a layer paints with the pixels of the heap h, and what the layer made
\* of an entry does.
PaintedBy(h, l) == [solid |-> l.type = "solid", shows |-> h[l.px].shows, size |-> l.size,
                    place |-> l.place, opacity |-> l.opacity, mode |-> l.mode]
LoadedStroke(e) == [solid |-> e.layer.type = "solid", shows |-> LoadedShows(e),
                    size |-> e.layer.size, place |-> e.layer.place,
                    opacity |-> e.layer.opacity, mode |-> e.layer.mode]

\* A file that loads without a failing malloc gives a canvas that paints what
\* was painted when it was saved, the same layers in the same order with the
\* same attributes, but for the colors of solid layers; a file cut short gives
\* the first of it.
LEMMA LoadPaints ==
    ASSUME IInv, NEW c \in Addresses, load_from_file(c, {})
    PROVE  LET got == Painting(LayersOf(c))'
           IN  /\ Len(got) <= Len(disk.saved)
               /\ \A n \in DOMAIN got : Agrees(got[n], disk.saved[n])
               /\ disk.whole => Len(got) = Len(disk.saved)
<1> DEFINE none == {}
           K == HavePixels
           es == disk.entries
           I == Painted(es)
<1>1. /\ disk # NULL /\ canvases[c] = NULL /\ none \in MayFail /\ project_load(c, none)
  BY DEF load_from_file
<1>2. /\ es \in Seq(FileEntry) /\ disk.saved \in Seq(Strokes)
      /\ IsPrefix(PaintingOf(es), disk.saved)
      /\ disk.whole => PaintingOf(es) = disk.saved
  BY <1>1 DEF IInv, DiskInv, FileOK
<1>3. K \ none = K
  OBVIOUS
<1> HIDE DEF none
<1>4. PICK buffer, layers : Loading(disk, c, K, K, buffer, layers)
  <2>1. PICK buffer, layers : Loading(disk, c, K, K \ none, buffer, layers)
    BY <1>1, FilesLoad DEF IInv
  <2> QED BY <2>1, <1>3
<1>5. K = {i \in DOMAIN es : es[i].shows # NULL}
  BY DEF HavePixels
<1> HIDE DEF K
<1> DEFINE new(i) == LoadedLayer(disk.entries[i], Rank(K, i), buffer[i])
           J == {n \in DOMAIN layers : Paints(layers[n])}
<1>6. /\ Cardinality(K) \in Nat
      /\ \A n \in 1 .. Cardinality(K) : Nth(K, n) \in K
      /\ layers \in Seq(Layer) /\ DOMAIN layers = 1 .. Cardinality(K)
  BY <1>2, <1>4, LoadedLayers
<1>7. /\ K \in SUBSET (1 .. Len(es)) /\ Len(es) \in Nat
      /\ \A i \in K : es[i] \in FileEntry /\ es[i].shows \in Shows
      /\ buffer \in [K -> Buffers \ DOMAIN heap]
      /\ layers = [n \in 1 .. Cardinality(K) |-> new(Nth(K, n))]
      /\ \A i \in K : heap'[buffer[i]] = [size |-> es[i].layer.size,
                                          shows |-> LoadedShows(es[i])]
      /\ LayersOf(c)' = layers
  <2>1. canvases' = [canvases EXCEPT ![c] = [layers |-> layers,
                         next_layer_id |-> Cardinality(K) + 1, size |-> disk.size]]
    BY <1>4 DEF Loading
  <2>2. c \in DOMAIN canvases
    BY DEF IInv, CanvasInv
  <2>3. LayersOf(c)' = layers
    BY <2>1, <2>2 DEF LayersOf
  <2> QED BY <1>2, <1>4, <2>3 DEF Loading
\* A loaded layer paints if its entry did, and the same, in white if solid.
<1>8. ASSUME NEW i \in K
      PROVE  /\ Paints(new(i)) <=> PaintsEntry(es[i])
             /\ PaintedBy(heap', new(i)) = LoadedStroke(es[i])
  <2>1. /\ new(i).visible = es[i].layer.visible /\ new(i).opacity = es[i].layer.opacity
        /\ new(i).px = buffer[i] /\ new(i).size = es[i].layer.size
        /\ new(i).place = es[i].layer.place /\ new(i).mode = es[i].layer.mode
        /\ new(i).type = LoadedType(es[i])
    BY DEF LoadedLayer, create_layer
  <2>2. buffer[i] # NULL /\ es[i].shows # NULL
    BY <1>7, Nulls
  <2>3. Paints(new(i)) <=> PaintsEntry(es[i])
    BY <2>1, <2>2 DEF Paints, PaintsEntry
  <2>4. heap'[buffer[i]].shows = LoadedShows(es[i])
    <3>1. heap'[buffer[i]] = [size |-> es[i].layer.size, shows |-> LoadedShows(es[i])]
      BY <1>7
    <3> QED BY <3>1
  <2>5. (LoadedType(es[i]) = "solid") = (es[i].layer.type = "solid")
    BY DEF LoadedType
  <2> HIDE DEF new
  <2>6. PaintedBy(heap', new(i)) = LoadedStroke(es[i])
    BY <2>1, <2>4, <2>5 DEF PaintedBy, LoadedStroke
  <2> QED BY <2>3, <2>6
<1> HIDE DEF new
<1>9. I \in SUBSET K /\ K \in SUBSET (1 .. Len(es))
  BY <1>5, <1>7 DEF Painted, PaintsEntry
<1>10. J = Within(K, I)
  <2>1. \A n \in 1 .. Cardinality(K) : Paints(layers[n]) <=> Nth(K, n) \in I
    <3> TAKE n \in 1 .. Cardinality(K)
    <3>1. Nth(K, n) \in K /\ layers[n] = new(Nth(K, n))
      BY <1>6, <1>7
    <3>2. Nth(K, n) \in DOMAIN es
      BY <3>1, <1>5
    <3> QED BY <3>1, <3>2, <1>8 DEF Painted
  <2> HIDE DEF I
  <2> QED BY <2>1, <1>6 DEF Within
<1> HIDE DEF J, I
<1>11. /\ Cardinality(J) = Cardinality(I)
       /\ \A n \in 1 .. Cardinality(I) :
              Nth(I, n) \in I /\ Nth(J, n) \in J /\ Nth(K, Nth(J, n)) = Nth(I, n)
  <2>1. Positions(K) /\ I \subseteq K
    BY <1>7, <1>9 DEF Positions
  <2> QED BY <2>1, <1>10, NthOfPart
<1>12. /\ Cardinality(J) \in Nat
       /\ DOMAIN Select(layers, J) = 1 .. Cardinality(J)
       /\ \A n \in 1 .. Cardinality(J) : Select(layers, J)[n] = layers[Nth(J, n)]
  <2>1. J \in SUBSET DOMAIN layers
    BY DEF J
  <2> QED BY <2>1, <1>6, SelectProperties
<1> DEFINE got == Painting(LayersOf(c))'
<1>13. got = [n \in 1 .. Cardinality(I) |-> PaintedBy(heap', Select(layers, J)[n])]
  <2>1. got = [n \in DOMAIN Select(layers, J) |-> PaintedBy(heap', Select(layers, J)[n])]
    BY <1>7 DEF Painting, Stroke, PaintedBy, J, Paints
  <2> QED BY <2>1, <1>11, <1>12
<1>14. ASSUME NEW n \in 1 .. Cardinality(I)
       PROVE  Nth(I, n) \in K /\ got[n] = LoadedStroke(es[Nth(I, n)])
  <2>1. Nth(I, n) \in K
    BY <1>9, <1>11
  <2>2. Nth(J, n) \in DOMAIN layers /\ layers[Nth(J, n)] = new(Nth(I, n))
    BY <1>6, <1>7, <1>11 DEF J
  <2>3. Select(layers, J)[n] = new(Nth(I, n))
    BY <2>2, <1>11, <1>12
  <2>4. got[n] = PaintedBy(heap', Select(layers, J)[n])
    BY <1>13
  <2> HIDE DEF got
  <2> QED BY <2>1, <2>3, <2>4, <1>8
<1>15. /\ PaintingOf(es) \in Seq(Strokes) /\ Len(PaintingOf(es)) = Cardinality(I)
       /\ \A n \in 1 .. Cardinality(I) : PaintingOf(es)[n] = EntryStroke(es[Nth(I, n)])
       /\ Cardinality(I) \in Nat
  BY <1>2, EntriesPaint DEF I
<1>16. /\ Cardinality(I) <= Len(disk.saved) /\ Len(disk.saved) \in Nat
       /\ \A n \in 1 .. Cardinality(I) : disk.saved[n] = EntryStroke(es[Nth(I, n)])
       /\ disk.whole => Len(disk.saved) = Cardinality(I)
  BY <1>2, <1>15, PrefixProperties
<1>17. DOMAIN got = 1 .. Cardinality(I) /\ Len(got) = Cardinality(I)
  <2>1. DOMAIN got = 1 .. Cardinality(I)
    BY <1>13
  <2> HIDE DEF got
  <2> QED BY <2>1, <1>15
<1> HIDE DEF got
<1>18. ASSUME NEW n \in 1 .. Cardinality(I)
       PROVE  Agrees(got[n], disk.saved[n])
  <2> DEFINE e == es[Nth(I, n)]
             t == EntryStroke(e)
             g == LoadedStroke(e)
  <2>1. got[n] = g /\ disk.saved[n] = t
    BY <1>14, <1>16
  <2> HIDE DEF e
  <2>2. t.solid = (e.layer.type = "solid")
    BY DEF EntryStroke
  <2>3. CASE e.layer.type = "solid"
    <3>1. g = [t EXCEPT !.shows = g.shows]
      BY <2>3 DEF EntryStroke, LoadedStroke
    <3> HIDE DEF t, g
    <3> QED BY <3>1, <2>1, <2>2, <2>3 DEF Agrees
  <2>4. CASE e.layer.type # "solid"
    <3>1. g = t
      BY <2>4 DEF EntryStroke, LoadedStroke, LoadedShows
    <3> HIDE DEF t, g
    <3> QED BY <3>1, <2>1 DEF Agrees
  <2> QED BY <2>3, <2>4
<1> QED BY <1>16, <1>17, <1>18 DEF got

\* Loading a saved canvas paints what was saved, but for the colors of solid
\* layers, whatever happened in between to it, to other canvases and to the heap.
THEOREM LoadIsFaithful == Spec => LoadPaintsWhatWasSaved
<1>1. IInv /\ [Next]_vars =>
        [\A c \in Addresses :
            load_from_file(c, {}) =>
                LET got == Painting(LayersOf(c))'
                IN  /\ Len(got) <= Len(disk.saved)
                    /\ \A n \in DOMAIN got : Agrees(got[n], disk.saved[n])
                    /\ disk.whole => Len(got) = Len(disk.saved)]_vars
  BY LoadPaints
<1> QED BY <1>1, ImageEngineInvariance, PTL DEF Spec, LoadPaintsWhatWasSaved
=============================================================================
