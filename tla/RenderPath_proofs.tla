-------------------------- MODULE RenderPath_proofs --------------------------
(* Proofs about the frame cache and the renders that share it.              *)
EXTENDS RenderPath, Sublists_proofs

-----------------------------------------------------------------------------
(* Bytes of entries *)

\* What Bytes counts: a pair per byte.
Cell(e) == {e.frame} \X (1 .. e.byte_size)
Cells(es) == UNION {Cell(e) : e \in es}

LEMMA CellsAreFinite ==
    ASSUME NEW es, IsFiniteSet(es), \A e \in es : e.byte_size \in Nat
    PROVE  IsFiniteSet(Cells(es)) /\ Cardinality(Cells(es)) \in Nat
<1> DEFINE parts == {Cell(e) : e \in es}
           part == [e \in es |-> Cell(e)]
<1>1. part \in Surjection(es, parts)
  BY DEF Surjection
<1>2. IsFiniteSet(parts)
  <2> HIDE DEF part, parts
  <2> QED BY <1>1, FS_Surjection
<1>3. \A p \in parts : IsFiniteSet(p)
  <2> SUFFICES ASSUME NEW e \in es PROVE IsFiniteSet(Cell(e))
    OBVIOUS
  <2>1. IsFiniteSet({e.frame})
    BY FS_Singleton
  <2>2. IsFiniteSet(1 .. e.byte_size)
    BY FS_Interval
  <2> QED BY <2>1, <2>2, FS_Product DEF Cell
<1>4. IsFiniteSet(UNION parts)
  <2> HIDE DEF parts
  <2> QED BY <1>2, <1>3, FS_UNION
<1>5. Cells(es) = UNION parts
  BY DEF Cells
<1> HIDE DEF parts
<1> QED BY <1>4, <1>5, FS_CardinalityType

\* The bytes of entries with frames of their own add up.
LEMMA CellsAddUp ==
    ASSUME NEW A, NEW B, IsFiniteSet(A), IsFiniteSet(B),
           \A e \in A \cup B : e.byte_size \in Nat,
           \A a \in A, b \in B : a.frame # b.frame
    PROVE  Cardinality(Cells(A \cup B)) = Cardinality(Cells(A)) + Cardinality(Cells(B))
<1>1. /\ IsFiniteSet(Cells(A)) /\ Cardinality(Cells(A)) \in Nat
      /\ IsFiniteSet(Cells(B)) /\ Cardinality(Cells(B)) \in Nat
  BY CellsAreFinite
<1>2. Cells(A \cup B) = Cells(A) \cup Cells(B)
  BY DEF Cells
<1>3. Cells(A) \cap Cells(B) = {}
  <2> SUFFICES ASSUME NEW p \in Cells(A), p \in Cells(B) PROVE FALSE
    OBVIOUS
  <2>1. PICK a \in A : p \in Cell(a)
    BY DEF Cells
  <2>2. PICK b \in B : p \in Cell(b)
    BY DEF Cells
  <2>3. p[1] = a.frame /\ p[1] = b.frame
    BY <2>1, <2>2 DEF Cell
  <2> QED BY <2>3
<1>4. Cardinality(Cells(A) \cap Cells(B)) = 0
  BY <1>3, FS_EmptySet
<1>5. Cardinality(Cells(A) \cup Cells(B))
        = Cardinality(Cells(A)) + Cardinality(Cells(B)) - Cardinality(Cells(A) \cap Cells(B))
  BY <1>1, FS_Union
<1>6. \A m, n \in Nat : m + n - 0 = m + n
  OBVIOUS
<1> QED BY <1>1, <1>2, <1>4, <1>5, <1>6, Zenon

LEMMA CellsOfOne ==
    ASSUME NEW e, e.byte_size \in Nat
    PROVE  Cardinality(Cells({e})) = e.byte_size
<1>1. Cells({e}) = {e.frame} \X (1 .. e.byte_size)
  BY DEF Cells, Cell
<1>2. IsFiniteSet({e.frame}) /\ Cardinality({e.frame}) = 1
  BY FS_Singleton
<1>3. IsFiniteSet(1 .. e.byte_size) /\ Cardinality(1 .. e.byte_size) = e.byte_size
  BY FS_Interval
<1>4. Cardinality({e.frame} \X (1 .. e.byte_size))
        = Cardinality({e.frame}) * Cardinality(1 .. e.byte_size)
  <2> DEFINE P == {e.frame}
             Q == 1 .. e.byte_size
  <2>1. IsFiniteSet(P) /\ IsFiniteSet(Q)
    BY <1>2, <1>3
  <2> HIDE DEF P, Q
  <2>2. Cardinality(P \X Q) = Cardinality(P) * Cardinality(Q)
    BY <2>1, FS_Product
  <2> QED BY <2>2 DEF P, Q
<1>5. 1 * e.byte_size = e.byte_size
  OBVIOUS
<1> QED BY <1>1, <1>2, <1>3, <1>4, <1>5, Zenon

\* The elements of a sequence are finitely many.
LEMMA ElementsAreFinite ==
    ASSUME NEW S, NEW s \in Seq(S)
    PROVE  IsFiniteSet(ToSet(s)) /\ ToSet(s) \subseteq S
<1>1. s \in Surjection(DOMAIN s, ToSet(s)) /\ ToSet(s) \subseteq S
  BY DEF Surjection, ToSet
<1>2. IsFiniteSet(DOMAIN s)
  BY FS_Interval
<1> QED BY <1>1, <1>2, FS_Surjection

-----------------------------------------------------------------------------
(* The cache *)

Entries == [key : Keys, frame : Frames, byte_size : FrameSizes]

\* What every operation of the cache keeps: a frame is listed once, and the
\* byte count is that of the list.
CacheInv ==
    /\ lru_list \in Seq(Entries)
    /\ DOMAIN map \subseteq Keys
    /\ max_bytes \in Nat
    /\ \A i, j \in DOMAIN lru_list : lru_list[i].frame = lru_list[j].frame => i = j
    /\ current_bytes = Bytes(lru_list)
    /\ MapPointsIntoList


Apart(s) == \A i, j \in DOMAIN s : s[i].frame = s[j].frame => i = j

\* a consists of the elements of s at the positions I.
TakenFrom(a, s, I) == ToSet(a) = {s[i] : i \in I}

\* Every element of s is in a or in b, by its position.
SplitInto(s, a, b) ==
    \E I \in SUBSET DOMAIN s : TakenFrom(a, s, I) /\ TakenFrom(b, s, DOMAIN s \ I)

LEMMA EntryTypes ==
    /\ FrameSizes \subseteq Nat \ {0}
    /\ Budgets \subseteq Nat
    /\ \A e \in Entries : /\ e.byte_size \in Nat /\ e.byte_size >= 1
                          /\ e.frame \in Frames /\ e.key \in Keys
<1> SUFFICES ASSUME NEW e \in Entries
             PROVE  e.byte_size \in Nat \ {0} /\ e.frame \in Frames /\ e.key \in Keys
  BY CacheAssumption
<1> QED BY CacheAssumption DEF Entries

\* An entry of a frame of its own goes to the front of a list.
LEMMA PushFront ==
    ASSUME NEW x \in Entries, NEW t \in Seq(Entries), Apart(t), x.frame \notin EntryFrames(t)
    PROVE  /\ <<x>> \o t \in Seq(Entries)
           /\ Len(<<x>> \o t) = Len(t) + 1
           /\ Apart(<<x>> \o t)
           /\ ToSet(<<x>> \o t) = {x} \cup ToSet(t)
<1> DEFINE u == <<x>> \o t
<1>1. <<x>> \in Seq(Entries) /\ Len(<<x>>) = 1 /\ <<x>>[1] = x
  OBVIOUS
<1>2. /\ u \in Seq(Entries) /\ Len(u) = Len(t) + 1
      /\ \A i \in 1 .. Len(t) + 1 : u[i] = IF i = 1 THEN x ELSE t[i - 1]
  <2>1. /\ u \in Seq(Entries) /\ Len(u) = 1 + Len(t)
        /\ \A i \in 1 .. 1 + Len(t) : u[i] = IF i <= 1 THEN <<x>>[i] ELSE t[i - 1]
    BY <1>1, ConcatProperties
  <2> HIDE DEF u
  <2> QED BY <1>1, <2>1
<1> HIDE DEF u
<1>3. DOMAIN u = 1 .. Len(t) + 1 /\ DOMAIN t = 1 .. Len(t) /\ Len(t) \in Nat
  BY <1>2
<1>4. u[1] = x /\ \A i \in DOMAIN u : i # 1 => i - 1 \in DOMAIN t /\ u[i] = t[i - 1]
  BY <1>2, <1>3
<1>5. \A i \in DOMAIN t : i + 1 \in DOMAIN u /\ u[i + 1] = t[i]
  BY <1>2, <1>3
<1>6. ToSet(u) = {x} \cup ToSet(t)
  BY <1>3, <1>4, <1>5 DEF ToSet
<1>7. \A i \in DOMAIN u : i # 1 => u[i].frame # x.frame
  BY <1>4 DEF EntryFrames, ToSet
<1>8. Apart(u)
  <2> SUFFICES ASSUME NEW i \in DOMAIN u, NEW j \in DOMAIN u, u[i].frame = u[j].frame
               PROVE  i = j
    BY DEF Apart
  <2>1. CASE i = 1 \/ j = 1
    BY <2>1, <1>4, <1>7
  <2>2. CASE i # 1 /\ j # 1
    <3>1. i - 1 = j - 1
      BY <2>2, <1>4 DEF Apart
    <3> QED BY <3>1, <1>3
  <2> QED BY <2>1, <2>2
<1> QED BY <1>2, <1>6, <1>8 DEF u

LEMMA PartOfEntries ==
    ASSUME NEW s \in Seq(Entries), Apart(s), NEW I \in SUBSET DOMAIN s
    PROVE  /\ Select(s, I) \in Seq(Entries)
           /\ Apart(Select(s, I))
           /\ TakenFrom(Select(s, I), s, I)
<1>1. DOMAIN s = 1 .. Len(s) /\ Len(s) \in Nat
  OBVIOUS
<1>2. \A n, k \in 1 .. Cardinality(I) : Nth(I, n) = Nth(I, k) => n = k
  BY <1>1, NthInjective
<1>3. /\ Select(s, I) \in Seq(Entries)
      /\ DOMAIN Select(s, I) = 1 .. Cardinality(I)
      /\ \A n \in 1 .. Cardinality(I) : Nth(I, n) \in I /\ Select(s, I)[n] = s[Nth(I, n)]
      /\ ToSet(Select(s, I)) = {s[i] : i \in I}
  BY SelectProperties
<1>4. Apart(Select(s, I))
  BY <1>2, <1>3 DEF Apart
<1> QED BY <1>3, <1>4 DEF TakenFrom

LEMMA FrontAndBack ==
    ASSUME NEW s \in Seq(Entries), Apart(s), NEW n \in 0 .. Len(s)
    PROVE  /\ SubSeq(s, 1, n) \in Seq(Entries) /\ SubSeq(s, n + 1, Len(s)) \in Seq(Entries)
           /\ Len(SubSeq(s, 1, n)) = n
           /\ Apart(SubSeq(s, 1, n))
           /\ TakenFrom(SubSeq(s, 1, n), s, 1 .. n)
           /\ SplitInto(s, SubSeq(s, 1, n), SubSeq(s, n + 1, Len(s)))
<1> DEFINE a == SubSeq(s, 1, n)
           b == SubSeq(s, n + 1, Len(s))
<1>1. DOMAIN s = 1 .. Len(s) /\ Len(s) \in Nat /\ n \in Nat /\ n <= Len(s)
      /\ \A i \in DOMAIN s : s[i] \in Entries
  OBVIOUS
<1>2. /\ a \in Seq(Entries) /\ Len(a) = n
      /\ \A i \in 1 .. n : a[i] = s[i]
  <2>1. /\ SubSeq(s, 1, n) \in Seq(Entries)
        /\ Len(SubSeq(s, 1, n)) = IF 1 <= n THEN n - 1 + 1 ELSE 0
        /\ \A i \in 1 .. n - 1 + 1 : SubSeq(s, 1, n)[i] = s[1 + i - 1]
    BY <1>1, SubSeqProperties
  <2>2. 1 .. n - 1 + 1 = 1 .. n /\ \A i \in 1 .. n : 1 + i - 1 = i
    BY <1>1
  <2> QED BY <2>1, <2>2, <1>1
<1>3. /\ b \in Seq(Entries) /\ Len(b) = Len(s) - n
      /\ \A i \in 1 .. Len(s) - n : b[i] = s[n + i]
  <2>1. /\ b \in Seq(Entries)
        /\ Len(b) = IF n + 1 <= Len(s) THEN Len(s) - (n + 1) + 1 ELSE 0
        /\ \A i \in 1 .. Len(s) - (n + 1) + 1 : b[i] = s[(n + 1) + i - 1]
    BY <1>1, SubSeqProperties
  <2> HIDE DEF b
  <2>2. \A p, q \in Nat : q <= p =>
            /\ p - (q + 1) + 1 = p - q
            /\ (IF q + 1 <= p THEN p - (q + 1) + 1 ELSE 0) = p - q
    OBVIOUS
  <2>3. Len(s) \in Nat /\ n \in Nat /\ n <= Len(s)
    BY <1>1
  <2>4. Len(s) - (n + 1) + 1 = Len(s) - n
    BY <2>2, <2>3, Zenon
  <2>5. Len(b) = Len(s) - n
    BY <2>1, <2>2, <2>3, Zenon
  <2>6. ASSUME NEW i \in 1 .. Len(s) - n PROVE b[i] = s[n + i]
    <3>1. b[i] = s[(n + 1) + i - 1]
      BY <2>1, <2>4
    <3>2. (n + 1) + i - 1 = n + i
      BY <1>1
    <3> QED BY <3>1, <3>2
  <2> QED BY <2>1, <2>5, <2>6
<1> HIDE DEF a, b
<1>4. DOMAIN a = 1 .. n /\ DOMAIN b = 1 .. Len(s) - n
  BY <1>1, <1>2, <1>3
<1>5. ToSet(a) = {s[i] : i \in 1 .. n}
  BY <1>2, <1>4 DEF ToSet
<1>6. ToSet(b) = {s[i] : i \in DOMAIN s \ 1 .. n}
  <2>1. \A i \in 1 .. Len(s) - n : n + i \in DOMAIN s \ 1 .. n
    BY <1>1
  <2>2. \A k \in DOMAIN s \ 1 .. n : k - n \in 1 .. Len(s) - n /\ n + (k - n) = k
    BY <1>1
  <2>3. ASSUME NEW k \in DOMAIN s \ 1 .. n PROVE s[k] \in ToSet(b)
    <3>1. k - n \in DOMAIN b /\ b[k - n] = s[n + (k - n)]
      BY <1>3, <1>4, <2>2
    <3> QED BY <2>2, <3>1 DEF ToSet
  <2>4. ASSUME NEW i \in DOMAIN b PROVE b[i] \in {s[k] : k \in DOMAIN s \ 1 .. n}
    BY <1>3, <1>4, <2>1
  <2> QED BY <2>3, <2>4 DEF ToSet
<1>7. Apart(a)
  <2>1. \A i \in DOMAIN a : i \in DOMAIN s /\ a[i] = s[i]
    BY <1>1, <1>2, <1>4
  <2> QED BY <2>1 DEF Apart
<1>8. 1 .. n \in SUBSET DOMAIN s
  BY <1>1
<1>9. TakenFrom(a, s, 1 .. n) /\ SplitInto(s, a, b)
  BY <1>5, <1>6, <1>8 DEF TakenFrom, SplitInto
<1> QED BY <1>2, <1>3, <1>7, <1>9 DEF a, b

\* A list taken apart: its bytes add up, its frames go to one part or the other.
LEMMA TakenApart ==
    ASSUME NEW s \in Seq(Entries), Apart(s),
           NEW a \in Seq(Entries), NEW b \in Seq(Entries), SplitInto(s, a, b)
    PROVE  /\ Bytes(a) \in Nat /\ Bytes(b) \in Nat
           /\ Bytes(s) = Bytes(a) + Bytes(b)
           /\ EntryFrames(a) = EntryFrames(s) \ EntryFrames(b)
           /\ EntryFrames(b) \subseteq EntryFrames(s)
<1> PICK I \in SUBSET DOMAIN s : TakenFrom(a, s, I) /\ TakenFrom(b, s, DOMAIN s \ I)
  BY DEF SplitInto
<1>1. /\ IsFiniteSet(ToSet(a)) /\ ToSet(a) \subseteq Entries
      /\ IsFiniteSet(ToSet(b)) /\ ToSet(b) \subseteq Entries
  BY ElementsAreFinite
<1>2. \A x \in ToSet(a), y \in ToSet(b) : x.frame # y.frame
  BY DEF Apart, TakenFrom
<1>3. ToSet(s) = ToSet(a) \cup ToSet(b)
  BY DEF ToSet, TakenFrom
<1>4. \A e \in ToSet(a) \cup ToSet(b) : e.byte_size \in Nat
  BY <1>1, EntryTypes
<1>5. /\ Bytes(s) = Cardinality(Cells(ToSet(s)))
      /\ Bytes(a) = Cardinality(Cells(ToSet(a)))
      /\ Bytes(b) = Cardinality(Cells(ToSet(b)))
  BY DEF Bytes, Cells, Cell
<1>6. Bytes(a) \in Nat /\ Bytes(b) \in Nat
  BY <1>1, <1>4, <1>5, CellsAreFinite
<1>7. Bytes(s) = Bytes(a) + Bytes(b)
  BY <1>1, <1>2, <1>3, <1>4, <1>5, CellsAddUp
<1>8. EntryFrames(a) = EntryFrames(s) \ EntryFrames(b)
  BY <1>2, <1>3 DEF EntryFrames
<1>9. EntryFrames(b) \subseteq EntryFrames(s)
  BY <1>3 DEF EntryFrames
<1> QED BY <1>6, <1>7, <1>8, <1>9

-----------------------------------------------------------------------------
(* What each operation keeps *)

LEMMA GetKeepsInv ==
    ASSUME CacheInv, NEW k, Get(k)
    PROVE  CacheInv' /\ ToSet(lru_list') = ToSet(lru_list)
<1> USE DEF CacheInv
<1> DEFINE hit == CHOOSE i \in DOMAIN lru_list : lru_list[i].frame = map[k]
           rest == Select(lru_list, DOMAIN lru_list \ {hit})
<1>1. k \in DOMAIN map
  BY DEF Get
<1>2. \E i \in DOMAIN lru_list : lru_list[i].frame = map[k]
  BY <1>1 DEF MapPointsIntoList, ToSet
<1>3. hit \in DOMAIN lru_list
  BY <1>2
<1>4. lru_list' = <<lru_list[hit]>> \o rest
  BY DEF Get, MovedToFront
<1> HIDE DEF hit
<1>5. /\ rest \in Seq(Entries) /\ Apart(rest)
      /\ ToSet(rest) = {lru_list[i] : i \in DOMAIN lru_list \ {hit}}
  BY PartOfEntries DEF Apart, TakenFrom
<1> HIDE DEF rest
<1>6. lru_list[hit] \in Entries
  BY <1>3
<1>7. lru_list[hit].frame \notin EntryFrames(rest)
  BY <1>3, <1>5 DEF EntryFrames
<1>8. /\ lru_list' \in Seq(Entries) /\ Apart(lru_list')
      /\ ToSet(lru_list') = {lru_list[hit]} \cup ToSet(rest)
  BY <1>4, <1>5, <1>6, <1>7, PushFront
<1>9. ToSet(lru_list') = ToSet(lru_list)
  BY <1>3, <1>5, <1>8 DEF ToSet
<1>10. UNCHANGED <<map, current_bytes, max_bytes>>
  BY DEF Get
<1>11. Bytes(lru_list') = Bytes(lru_list)
  BY <1>9 DEF Bytes
<1>12. MapPointsIntoList'
  BY <1>9, <1>10 DEF MapPointsIntoList
<1> QED BY <1>8, <1>9, <1>10, <1>11, <1>12 DEF Apart

\* Eviction stops within the target.
LEMMA KeptUntilStopsInTime ==
    ASSUME CacheInv, NEW target \in Nat
    PROVE  /\ KeptUntil(target) \in 0 .. Len(lru_list)
           /\ Bytes(Newest(KeptUntil(target))) <= target
<1> DEFINE K == {n \in 0 .. Len(lru_list) : current_bytes - Bytes(Oldest(n)) <= target}
           kept == KeptUntil(target)
<1>1. /\ Len(lru_list) \in Nat /\ lru_list \in Seq(Entries) /\ Apart(lru_list)
      /\ current_bytes = Bytes(lru_list)
  BY DEF CacheInv, Apart
<1>2. ASSUME NEW n \in 0 .. Len(lru_list)
      PROVE  /\ Bytes(Newest(n)) \in Nat /\ Bytes(Oldest(n)) \in Nat
             /\ current_bytes = Bytes(Newest(n)) + Bytes(Oldest(n))
  <2>1. /\ Newest(n) \in Seq(Entries) /\ Oldest(n) \in Seq(Entries)
        /\ SplitInto(lru_list, Newest(n), Oldest(n))
    BY <1>1, FrontAndBack DEF Newest, Oldest
  <2>2. /\ Bytes(Newest(n)) \in Nat /\ Bytes(Oldest(n)) \in Nat
        /\ Bytes(lru_list) = Bytes(Newest(n)) + Bytes(Oldest(n))
    BY <1>1, <2>1, TakenApart
  <2> QED BY <1>1, <2>2, Zenon
<1>3. \A n \in K : Bytes(Newest(n)) <= target
  <2> SUFFICES ASSUME NEW n \in 0 .. Len(lru_list),
                      current_bytes - Bytes(Oldest(n)) <= target
               PROVE  Bytes(Newest(n)) <= target
    OBVIOUS
  <2>1. \A p, q \in Nat : (p + q) - q = p
    OBVIOUS
  <2> QED BY <1>2, <2>1, Zenon
<1>4. 0 \in K
  <2>1. Newest(0) = <<>>
    BY <1>1, SubSeqEmpty DEF Newest
  <2>2. ToSet(Newest(0)) = {}
    BY <2>1 DEF ToSet
  <2>3. Cells({}) = {}
    BY DEF Cells
  <2>4. Bytes(Newest(0)) = 0
    BY <2>2, <2>3, FS_EmptySet DEF Bytes, Cells, Cell
  <2>5. 0 \in 0 .. Len(lru_list)
    BY <1>1
  <2>6. /\ Bytes(Oldest(0)) \in Nat /\ current_bytes = 0 + Bytes(Oldest(0))
    BY <1>2, <2>4, <2>5
  <2>7. \A q \in Nat : (0 + q) - q = 0
    OBVIOUS
  <2>8. current_bytes - Bytes(Oldest(0)) = 0
    BY <2>6, <2>7, Zenon
  <2> QED BY <2>5, <2>8
<1>5. K \in SUBSET (0 .. Len(lru_list))
  OBVIOUS
<1>6. kept = CHOOSE m \in {0} \cup K : \A n \in {0} \cup K : m >= n
  BY DEF KeptUntil, Max
<1> HIDE DEF K
<1>7. \E m \in K : \A n \in K : m >= n
  BY <1>1, <1>4, <1>5, MaximumExists
<1>8. {0} \cup K = K
  BY <1>4
<1>9. kept \in K
  BY <1>6, <1>7, <1>8
<1> QED BY <1>3, <1>5, <1>9

\* The entries that put() of a frame of this size evicts.
Evicted(size) ==
    Oldest(KeptUntil(IF max_bytes > size THEN max_bytes - size ELSE 0))

LEMMA PutKeepsInv ==
    ASSUME CacheInv, NEW k \in Keys, NEW f \in Frames, NEW size \in FrameSizes,
           f \notin EntryFrames(lru_list), Put(k, f, size)
    PROVE  /\ CacheInv'
           /\ Bytes(lru_list') <= max_bytes' \/ Len(lru_list') = 1
           /\ DOMAIN map' \subseteq DOMAIN map \cup {k} /\ map'[k] = f
           /\ \A j \in DOMAIN map' : j # k => map'[j] = map[j]
           /\ ToSet(lru_list') \subseteq
                  {[key |-> k, frame |-> f, byte_size |-> size]} \cup ToSet(lru_list)
           /\ EntryFrames(Evicted(size)) \subseteq EntryFrames(lru_list)
           /\ EntryFrames(lru_list') = (EntryFrames(lru_list) \ EntryFrames(Evicted(size))) \cup {f}
           /\ live' = (live \ EntryFrames(Evicted(size))) \cup {f}
<1> DEFINE target == IF max_bytes > size THEN max_bytes - size ELSE 0
           n == KeptUntil(target)
           front == Newest(n)
           evicted == Oldest(n)
           new == [key |-> k, frame |-> f, byte_size |-> size]
<1>1. /\ lru_list' = <<new>> \o front
      /\ map' = With(Without(map, EntryKeys(evicted)), k, f)
      /\ current_bytes' = (current_bytes - Bytes(evicted)) + size
      /\ live' = (live \ EntryFrames(evicted)) \cup {f}
      /\ max_bytes' = max_bytes
  BY DEF Put
<1>2. /\ lru_list \in Seq(Entries) /\ Apart(lru_list) /\ DOMAIN map \subseteq Keys
      /\ max_bytes \in Nat /\ current_bytes = Bytes(lru_list) /\ MapPointsIntoList
  BY DEF CacheInv, Apart
<1>3. size \in Nat /\ size > 0
  BY CacheAssumption
<1>4. target \in Nat /\ (target + size <= max_bytes \/ target = 0)
  BY <1>2, <1>3
<1>5. n \in 0 .. Len(lru_list) /\ Bytes(front) <= target
  BY <1>4, KeptUntilStopsInTime
<1>6. /\ front \in Seq(Entries) /\ evicted \in Seq(Entries)
      /\ Len(front) = n /\ Apart(front)
      /\ TakenFrom(front, lru_list, 1 .. n)
      /\ SplitInto(lru_list, front, evicted)
  <2> HIDE DEF n
  <2> QED BY <1>2, <1>5, FrontAndBack DEF Newest, Oldest
<1> HIDE DEF target, n, front, evicted
<1>7. /\ Bytes(front) \in Nat /\ Bytes(evicted) \in Nat
      /\ Bytes(lru_list) = Bytes(front) + Bytes(evicted)
      /\ EntryFrames(front) = EntryFrames(lru_list) \ EntryFrames(evicted)
      /\ EntryFrames(evicted) \subseteq EntryFrames(lru_list)
  BY <1>2, <1>6, TakenApart
<1>8. new \in Entries /\ new.frame = f /\ new.key = k /\ new.byte_size = size
  BY DEF Entries
<1> HIDE DEF new
<1>9. f \notin EntryFrames(front)
  BY <1>7
<1>10. /\ lru_list' \in Seq(Entries) /\ Apart(lru_list')
       /\ Len(lru_list') = n + 1
       /\ ToSet(lru_list') = {new} \cup ToSet(front)
  BY <1>1, <1>6, <1>8, <1>9, PushFront
<1>11. ToSet(front) \subseteq ToSet(lru_list)
       /\ ToSet(lru_list) = ToSet(front) \cup ToSet(evicted)
  BY <1>6 DEF SplitInto, TakenFrom, ToSet
<1>12. EntryFrames(lru_list') = (EntryFrames(lru_list) \ EntryFrames(evicted)) \cup {f}
  BY <1>7, <1>8, <1>10 DEF EntryFrames
<1>13. Bytes(lru_list') = size + Bytes(front)
  <2>1. IsFiniteSet(ToSet(front)) /\ ToSet(front) \subseteq Entries /\ IsFiniteSet({new})
    BY <1>6, ElementsAreFinite, FS_Singleton
  <2>2. \A e \in {new} \cup ToSet(front) : e.byte_size \in Nat
    BY <2>1, <1>8, EntryTypes
  <2>3. \A x \in {new}, y \in ToSet(front) : x.frame # y.frame
    BY <1>8, <1>9 DEF EntryFrames
  <2>4. Cardinality(Cells({new} \cup ToSet(front)))
          = Cardinality(Cells({new})) + Cardinality(Cells(ToSet(front)))
    BY <2>1, <2>2, <2>3, CellsAddUp
  <2>5. Cardinality(Cells({new})) = size
    BY <1>3, <1>8, CellsOfOne
  <2> QED BY <2>4, <2>5, <1>10 DEF Bytes, Cells, Cell
<1>14. current_bytes' = Bytes(lru_list')
  <2> DEFINE p == Bytes(front)
             q == Bytes(evicted)
  <2>1. p \in Nat /\ q \in Nat /\ current_bytes = p + q
    BY <1>2, <1>7, Zenon
  <2>2. current_bytes' = (current_bytes - q) + size /\ Bytes(lru_list') = size + p
    BY <1>1, <1>13, Zenon
  <2> HIDE DEF p, q
  <2> QED BY <2>1, <2>2, <1>3
<1>15. Bytes(lru_list') <= max_bytes' \/ Len(lru_list') = 1
  <2>1. CASE target + size <= max_bytes
    BY <2>1, <1>1, <1>2, <1>3, <1>4, <1>5, <1>7, <1>13
  <2>2. CASE target = 0
    <3> SUFFICES ASSUME n # 0 PROVE FALSE
      BY <1>10
    <3>1. 1 \in DOMAIN front /\ front[1] \in ToSet(front) /\ front[1] \in Entries
      BY <1>5, <1>6 DEF ToSet
    <3>2. <<front[1].frame, 1>> \in Cells(ToSet(front))
      <4>1. 1 \in 1 .. front[1].byte_size
        BY <3>1, EntryTypes
      <4>2. <<front[1].frame, 1>> \in Cell(front[1])
        BY <4>1 DEF Cell
      <4> QED BY <3>1, <4>2 DEF Cells
    <3>3. IsFiniteSet(ToSet(front)) /\ \A e \in ToSet(front) : e.byte_size \in Nat
      BY <1>6, ElementsAreFinite, EntryTypes
    <3>4. IsFiniteSet(Cells(ToSet(front)))
      BY <3>3, CellsAreFinite
    <3>5. Cardinality(Cells(ToSet(front))) # 0
      BY <3>2, <3>4, FS_EmptySet
    <3>6. Bytes(front) # 0
      BY <3>5 DEF Bytes, Cells, Cell
    <3> QED BY <2>2, <3>6, <1>5, <1>7
  <2> QED BY <1>4, <2>1, <2>2
<1>16. /\ DOMAIN map' = {k} \cup (DOMAIN map \ EntryKeys(evicted))
       /\ map'[k] = f
       /\ \A j \in DOMAIN map' : j # k => map'[j] = map[j]
  BY <1>1 DEF Without, With
<1>17. MapPointsIntoList'
  <2> SUFFICES ASSUME NEW j \in DOMAIN map'
               PROVE  \E e \in ToSet(lru_list') : e.frame = map'[j] /\ e.key = j
    BY DEF MapPointsIntoList
  <2>1. CASE j = k
    BY <2>1, <1>8, <1>10, <1>16
  <2>2. CASE j # k
    <3>1. PICK e \in ToSet(lru_list) : e.frame = map[j] /\ e.key = j
      BY <2>2, <1>2, <1>16 DEF MapPointsIntoList
    <3>2. e \notin ToSet(evicted)
      BY <2>2, <3>1, <1>16 DEF EntryKeys
    <3> QED BY <2>2, <3>1, <3>2, <1>10, <1>11, <1>16
  <2> QED BY <2>1, <2>2
<1>18. CacheInv'
  BY <1>1, <1>2, <1>10, <1>14, <1>16, <1>17 DEF CacheInv, Apart
<1>19. Evicted(size) = evicted
  BY DEF Evicted, evicted, n, target
<1> QED BY <1>1, <1>7, <1>10, <1>11, <1>12, <1>15, <1>16, <1>18, <1>19 DEF new

\* The entries that invalidate_clip() drops.
Dropped(c) ==
    Select(lru_list, {i \in DOMAIN lru_list :
                        lru_list[i].frame \in {map[k] : k \in {j \in DOMAIN map : j.clip_id = c}}})

LEMMA InvalidateClipKeepsInv ==
    ASSUME CacheInv, NEW c, invalidate_clip(c)
    PROVE  /\ CacheInv'
           /\ DOMAIN map' = {k \in DOMAIN map : k.clip_id # c}
           /\ \A k \in DOMAIN map' : map'[k] = map[k]
           /\ ToSet(lru_list') \subseteq ToSet(lru_list)
           /\ EntryFrames(Dropped(c)) \subseteq EntryFrames(lru_list)
           /\ EntryFrames(lru_list') = EntryFrames(lru_list) \ EntryFrames(Dropped(c))
           /\ live' = live \ EntryFrames(Dropped(c))
<1> DEFINE keys == {k \in DOMAIN map : k.clip_id = c}
           found == {map[k] : k \in keys}
           hits == {i \in DOMAIN lru_list : lru_list[i].frame \in found}
           dropped == Select(lru_list, hits)
           left == DOMAIN lru_list \ hits
<1>1. /\ lru_list' = Select(lru_list, left)
      /\ map' = Without(map, keys)
      /\ current_bytes' = current_bytes - Bytes(dropped)
      /\ live' = live \ EntryFrames(dropped)
      /\ max_bytes' = max_bytes
  BY DEF invalidate_clip
<1>2. /\ lru_list \in Seq(Entries) /\ Apart(lru_list) /\ DOMAIN map \subseteq Keys
      /\ max_bytes \in Nat /\ current_bytes = Bytes(lru_list) /\ MapPointsIntoList
  BY DEF CacheInv, Apart
<1>3. hits \in SUBSET DOMAIN lru_list /\ left \in SUBSET DOMAIN lru_list
      /\ hits = DOMAIN lru_list \ left
  OBVIOUS
<1>4. \A i \in left : lru_list[i].frame \notin found
  OBVIOUS
<1> HIDE DEF hits, left, dropped
<1>5. /\ lru_list' \in Seq(Entries) /\ Apart(lru_list') /\ TakenFrom(lru_list', lru_list, left)
      /\ Select(lru_list, hits) \in Seq(Entries)
      /\ TakenFrom(Select(lru_list, hits), lru_list, hits)
  BY <1>1, <1>2, <1>3, PartOfEntries
<1>6. dropped \in Seq(Entries) /\ SplitInto(lru_list, lru_list', dropped)
  BY <1>3, <1>5 DEF SplitInto, dropped
<1>7. /\ Bytes(lru_list') \in Nat /\ Bytes(dropped) \in Nat
      /\ Bytes(lru_list) = Bytes(lru_list') + Bytes(dropped)
      /\ EntryFrames(lru_list') = EntryFrames(lru_list) \ EntryFrames(dropped)
      /\ EntryFrames(dropped) \subseteq EntryFrames(lru_list)
  BY <1>2, <1>5, <1>6, TakenApart
<1>8. current_bytes' = Bytes(lru_list')
  <2>1. \A p, q \in Nat : (p + q) - q = p
    OBVIOUS
  <2> QED BY <2>1, <1>1, <1>2, <1>7, Zenon
<1>9. /\ DOMAIN map' = {k \in DOMAIN map : k.clip_id # c}
      /\ \A k \in DOMAIN map' : map'[k] = map[k]
  BY <1>1 DEF Without
<1>10. MapPointsIntoList'
  <2> SUFFICES ASSUME NEW j \in DOMAIN map'
               PROVE  \E e \in ToSet(lru_list') : e.frame = map'[j] /\ e.key = j
    BY DEF MapPointsIntoList
  <2>1. PICK e \in ToSet(lru_list) : e.frame = map[j] /\ e.key = j
    BY <1>2, <1>9 DEF MapPointsIntoList
  <2>2. PICK i \in DOMAIN lru_list : lru_list[i] = e
    BY DEF ToSet
  <2>3. i \notin hits
    <3> SUFFICES ASSUME NEW k \in DOMAIN map, k.clip_id = c, map[k] = e.frame PROVE FALSE
      BY <2>2 DEF hits
    <3>1. PICK d \in ToSet(lru_list) : d.frame = map[k] /\ d.key = k
      BY <1>2 DEF MapPointsIntoList
    <3>2. d = e
      BY <2>1, <3>1, <1>2 DEF Apart, ToSet
    <3> QED BY <2>1, <3>1, <3>2, <1>9
  <2>4. e \in ToSet(lru_list')
    BY <2>2, <2>3, <1>3, <1>5 DEF TakenFrom
  <2> QED BY <2>1, <2>4, <1>9
<1>11. ToSet(lru_list') \subseteq ToSet(lru_list)
  BY <1>3, <1>5 DEF TakenFrom, ToSet
<1>12. CacheInv'
  BY <1>1, <1>2, <1>5, <1>8, <1>9, <1>10 DEF CacheInv, Apart
<1>13. Dropped(c) = dropped
  BY DEF Dropped, dropped, hits
<1> QED BY <1>1, <1>7, <1>9, <1>11, <1>12, <1>13

LEMMA InvalidateAllKeepsInv ==
    ASSUME CacheInv, invalidate_all
    PROVE  CacheInv' /\ ToSet(lru_list') = {} /\ DOMAIN map' = {}
<1>1. lru_list' = <<>> /\ map' = <<>> /\ current_bytes' = 0 /\ max_bytes' = max_bytes
  BY DEF invalidate_all
<1>2. ToSet(lru_list') = {} /\ DOMAIN map' = {} /\ DOMAIN lru_list' = {}
  BY <1>1 DEF ToSet
<1>3. Cells({}) = {}
  BY DEF Cells
<1>4. Bytes(lru_list') = 0
  BY <1>2, <1>3, FS_EmptySet DEF Bytes, Cells, Cell
<1> QED BY <1>1, <1>2, <1>4, EmptySeq DEF CacheInv, MapPointsIntoList

-----------------------------------------------------------------------------
(* The renders *)

Places == {"idle", "lookup", "decode", "put", "composite", "invalidate", "invalidate_all"}

Payloads == [key : Keys, content : Nat, late : BOOLEAN]

RenderTypeOK ==
    /\ live \subseteq Frames
    /\ pc \in [Renderers -> Places]
    /\ index \in [Renderers -> FrameIndices \cup {NONE}]
    /\ todo \in [Renderers -> SUBSET Clips]
    /\ clip \in [Renderers -> Clips \cup {NONE}]
    /\ seen \in [Renderers -> Nat]
    /\ layer \in [Renderers -> Frames \cup {NONE}]
    /\ content \in [Clips -> Nat]
    /\ payload \in [Frames -> Payloads \cup {NONE}]
    /\ untold \subseteq Clips

\* A renderer at work has a frame index and, past its lookup, a clip; only the
\* editor edits.
AtWork ==
    \A r \in Renderers :
        /\ pc[r] \in {"lookup", "decode", "put", "composite"} => index[r] \in FrameIndices
        /\ pc[r] \in {"decode", "put", "composite", "invalidate"} => clip[r] \in Clips
        /\ pc[r] \in {"invalidate", "invalidate_all"} => r = Editor

\* A frame about to be put holds what was asked for, and has one owner.
PutsAreApart ==
    /\ \A r \in Renderers : pc[r] = "put" =>
           payload[layer[r]] \in Payloads /\ payload[layer[r]].key = KeyOf(r)
    /\ \A r, q \in Renderers :
           pc[r] = "put" /\ pc[q] = "put" /\ layer[r] = layer[q] => r = q

\* A listed frame holds the clip and index its entry names.
EntriesShowTheirKey ==
    \A e \in ToSet(lru_list) : payload[e.frame].key = e.key

\* Until an export renders, what the preview decodes is the clip as it is.
DecodesAreFresh ==
    Alone => /\ pc[Editor] = "decode" => seen[Editor] = content[clip[Editor]]
             /\ pc[Editor] = "put" =>
                    payload[layer[Editor]].content = content[clip[Editor]]

RenderInv ==
    /\ CacheInv
    /\ RenderTypeOK
    /\ AtWork
    /\ NoFrameLost
    /\ PutsAreApart
    /\ EntriesShowTheirKey
    /\ DecodesAreFresh
    /\ PreviewIsValid
    /\ StaleFramesHaveACause
    /\ NothingIsPutLate

LEMMA CacheInvStutters ==
    ASSUME CacheInv, UNCHANGED <<lru_list, map, current_bytes, max_bytes>>
    PROVE  CacheInv'
BY DEF CacheInv, MapPointsIntoList

\* Until an export renders, whoever renders is the editor.
LEMMA AloneIsTheEditor ==
    ASSUME RenderInv, Alone, NEW r \in Renderers,
           pc[r] \in {"lookup", "decode", "put", "composite"}
    PROVE  r = Editor
<1>1. index[r] # NONE
  BY RenderAssumption DEF RenderInv, AtWork
<1> QED BY <1>1 DEF Alone

LEMMA InitialRender == RInit => RenderInv
<1> SUFFICES ASSUME RInit PROVE RenderInv
  OBVIOUS
<1> USE DEF RInit, Init
<1>1. ToSet(lru_list) = {} /\ DOMAIN map = {} /\ DOMAIN lru_list = {} /\ lru_list \in Seq(Entries)
  BY EmptySeq DEF ToSet
<1>2. EntryFrames(lru_list) = {}
  BY <1>1 DEF EntryFrames
<1>3. CacheInv
  <2>1. Cells({}) = {}
    BY DEF Cells
  <2>2. Bytes(lru_list) = 0
    BY <1>1, <2>1, FS_EmptySet DEF Bytes, Cells, Cell
  <2>3. max_bytes \in Nat
    BY CacheAssumption
  <2> QED BY <1>1, <2>2, <2>3 DEF CacheInv, MapPointsIntoList
<1>4. RenderTypeOK
  BY DEF RenderTypeOK, Places
<1>5. \A r \in Renderers : pc[r] = "idle"
  OBVIOUS
<1>6. AtWork /\ PutsAreApart /\ PreviewIsValid
  BY <1>5 DEF AtWork, PutsAreApart, PreviewIsValid, LayerIsValid
<1>7. NoFrameLost
  BY <1>2, <1>5 DEF NoFrameLost
<1>8. EntriesShowTheirKey /\ StaleFramesHaveACause /\ NothingIsPutLate
  BY <1>1 DEF EntriesShowTheirKey, StaleFramesHaveACause, NothingIsPutLate
<1>9. DecodesAreFresh
  BY <1>5, RenderAssumption DEF DecodesAreFresh
<1> QED BY <1>3, <1>4, <1>6, <1>7, <1>8, <1>9 DEF RenderInv

LEMMA BeginKeepsInv ==
    ASSUME RenderInv, NEW r \in Renderers, NEW i \in FrameIndices, NEW active \in SUBSET Clips,
           Begin(r, i, active)
    PROVE  RenderInv'
<1> USE DEF RenderInv
<1>1. /\ pc[r] = "idle" /\ pc' = [pc EXCEPT ![r] = "lookup"]
      /\ index' = [index EXCEPT ![r] = i] /\ todo' = [todo EXCEPT ![r] = active]
      /\ UNCHANGED <<lru_list, map, current_bytes, max_bytes, live>>
      /\ UNCHANGED <<clip, seen, layer, content, payload, untold>>
  BY DEF Begin, cacheVars
<1>2. CacheInv'
  BY <1>1, CacheInvStutters
<1>3. RenderTypeOK'
  BY <1>1 DEF RenderTypeOK, Places
<1>4. /\ pc'[r] = "lookup" /\ \A q \in Renderers : q # r => pc'[q] = pc[q]
      /\ index'[r] = i /\ \A q \in Renderers : q # r => index'[q] = index[q]
  BY <1>1 DEF RenderTypeOK
<1>5. AtWork'
  BY <1>1, <1>4 DEF AtWork
<1>6. \A q \in Renderers : pc'[q] = "put" <=> pc[q] = "put"
  BY <1>1, <1>4
<1>7. NoFrameLost'
  BY <1>1, <1>6 DEF NoFrameLost
<1>8. PutsAreApart'
  BY <1>1, <1>4, <1>6 DEF PutsAreApart, KeyOf
<1>9. EntriesShowTheirKey'
  BY <1>1 DEF EntriesShowTheirKey
<1>10. Alone' => Alone
  <2>1. i # NONE
    BY RenderAssumption
  <2> QED BY <2>1, <1>1, <1>4 DEF Alone
<1>11. DecodesAreFresh'
  BY <1>1, <1>4, <1>10, RenderAssumption DEF DecodesAreFresh
<1>12. PreviewIsValid'
  BY <1>1, <1>4, <1>10 DEF PreviewIsValid, LayerIsValid, KeyOf
<1>13. BeingEdited' = BeingEdited
  BY <1>1, <1>4, RenderAssumption DEF BeingEdited
<1>14. StaleFramesHaveACause' /\ NothingIsPutLate'
  BY <1>1, <1>10, <1>13 DEF StaleFramesHaveACause, NothingIsPutLate
<1> QED BY <1>2, <1>3, <1>5, <1>7, <1>8, <1>9, <1>11, <1>12, <1>14

LEMMA HitKeepsInv ==
    ASSUME RenderInv, NEW r \in Renderers, NEW c \in Clips, Hit(r, c)
    PROVE  RenderInv'
<1> USE DEF RenderInv
<1> DEFINE k == [frame_index |-> index[r], clip_id |-> c]
<1>1. /\ pc[r] = "lookup" /\ pc' = [pc EXCEPT ![r] = "composite"]
      /\ clip' = [clip EXCEPT ![r] = c] /\ layer' = [layer EXCEPT ![r] = map[k]]
      /\ Get(k)
      /\ UNCHANGED <<index, todo, seen, content, payload, untold>>
  BY DEF Hit
<1>2. k \in DOMAIN map /\ UNCHANGED <<map, current_bytes, max_bytes, live>>
  BY <1>1 DEF Get
<1> HIDE DEF k
<1>3. CacheInv' /\ ToSet(lru_list') = ToSet(lru_list)
  BY <1>1, GetKeepsInv
<1>4. PICK e \in ToSet(lru_list) : e.frame = map[k] /\ e.key = k
  BY <1>2 DEF CacheInv, MapPointsIntoList
<1>5. EntryFrames(lru_list') = EntryFrames(lru_list) /\ map[k] \in EntryFrames(lru_list)
  BY <1>3, <1>4 DEF EntryFrames
<1>6. map[k] \in live
  BY <1>5 DEF NoFrameLost
<1>7. /\ pc'[r] = "composite" /\ clip'[r] = c /\ layer'[r] = map[k]
      /\ \A q \in Renderers : q # r => /\ pc'[q] = pc[q] /\ clip'[q] = clip[q]
                                       /\ layer'[q] = layer[q]
  BY <1>1 DEF RenderTypeOK
<1>8. RenderTypeOK'
  BY <1>1, <1>2, <1>6 DEF RenderTypeOK, Places
<1>9. AtWork'
  BY <1>1, <1>7 DEF AtWork
<1>10. \A q \in Renderers : pc'[q] = "put" <=> pc[q] = "put" /\ q # r
  BY <1>1, <1>7
<1>11. \A q \in Renderers : pc[q] = "put" => q # r
  BY <1>1
<1>12. {layer'[q] : q \in {x \in Renderers : pc'[x] = "put"}}
         = {layer[q] : q \in {x \in Renderers : pc[x] = "put"}}
  BY <1>7, <1>10, <1>11
<1>13. NoFrameLost'
  BY <1>2, <1>5, <1>7, <1>10, <1>12 DEF NoFrameLost
<1>14. PutsAreApart'
  BY <1>1, <1>7, <1>10 DEF PutsAreApart, KeyOf
<1>15. EntriesShowTheirKey'
  BY <1>1, <1>3 DEF EntriesShowTheirKey
<1>16. Alone' <=> Alone
  BY <1>1 DEF Alone
<1>17. DecodesAreFresh'
  BY <1>1, <1>7, <1>16, RenderAssumption DEF DecodesAreFresh
<1>18. payload[map[k]].key = k
  BY <1>4 DEF EntriesShowTheirKey
<1>19. KeyOf(r)' = k
  BY <1>1, <1>7 DEF KeyOf, k
<1>20. PreviewIsValid'
  BY <1>1, <1>2, <1>6, <1>7, <1>16, <1>18, <1>19 DEF PreviewIsValid, LayerIsValid, KeyOf
<1>21. BeingEdited' = BeingEdited
  BY <1>1, <1>7, RenderAssumption DEF BeingEdited
<1>22. StaleFramesHaveACause' /\ NothingIsPutLate'
  BY <1>1, <1>2, <1>16, <1>21 DEF StaleFramesHaveACause, NothingIsPutLate
<1> QED BY <1>3, <1>8, <1>9, <1>13, <1>14, <1>15, <1>17, <1>20, <1>22

LEMMA MissKeepsInv ==
    ASSUME RenderInv, NEW r \in Renderers, NEW c \in Clips, Miss(r, c)
    PROVE  RenderInv'
<1> USE DEF RenderInv
<1>1. /\ pc[r] = "lookup" /\ pc' = [pc EXCEPT ![r] = "decode"]
      /\ clip' = [clip EXCEPT ![r] = c] /\ seen' = [seen EXCEPT ![r] = content[c]]
      /\ UNCHANGED <<lru_list, map, current_bytes, max_bytes, live>>
      /\ UNCHANGED <<index, todo, layer, content, payload, untold>>
  BY DEF Miss, cacheVars
<1>2. CacheInv'
  BY <1>1, CacheInvStutters
<1>3. RenderTypeOK'
  BY <1>1 DEF RenderTypeOK, Places
<1>4. /\ pc'[r] = "decode" /\ clip'[r] = c /\ seen'[r] = content[c]
      /\ \A q \in Renderers : q # r => /\ pc'[q] = pc[q] /\ clip'[q] = clip[q]
                                       /\ seen'[q] = seen[q]
  BY <1>1 DEF RenderTypeOK
<1>5. AtWork'
  BY <1>1, <1>4 DEF AtWork
<1>6. \A q \in Renderers : /\ pc'[q] = "put" <=> pc[q] = "put"
                           /\ pc[q] = "put" => q # r
  BY <1>1, <1>4
<1>7. NoFrameLost'
  BY <1>1, <1>6 DEF NoFrameLost
<1>8. PutsAreApart'
  BY <1>1, <1>4, <1>6 DEF PutsAreApart, KeyOf
<1>9. EntriesShowTheirKey'
  BY <1>1 DEF EntriesShowTheirKey
<1>10. Alone' <=> Alone
  BY <1>1 DEF Alone
<1>11. DecodesAreFresh'
  BY <1>1, <1>4, <1>10, RenderAssumption DEF DecodesAreFresh
<1>12. PreviewIsValid'
  BY <1>1, <1>4, <1>10 DEF PreviewIsValid, LayerIsValid, KeyOf
<1>13. BeingEdited' = BeingEdited
  BY <1>1, <1>4, RenderAssumption DEF BeingEdited
<1>14. StaleFramesHaveACause' /\ NothingIsPutLate'
  BY <1>1, <1>10, <1>13 DEF StaleFramesHaveACause, NothingIsPutLate
<1> QED BY <1>2, <1>3, <1>5, <1>7, <1>8, <1>9, <1>11, <1>12, <1>14

LEMMA DecodeKeepsInv ==
    ASSUME RenderInv, NEW r \in Renderers, NEW f \in Frames, Decode(r, f)
    PROVE  RenderInv'
<1> USE DEF RenderInv
<1> DEFINE p == [key |-> KeyOf(r), content |-> seen[r], late |-> FALSE]
<1>1. /\ pc[r] = "decode" /\ pc' = [pc EXCEPT ![r] = "put"]
      /\ f \notin live /\ live' = live \cup {f}
      /\ payload' = [payload EXCEPT ![f] = p]
      /\ layer' = [layer EXCEPT ![r] = f] /\ seen' = [seen EXCEPT ![r] = 0]
      /\ UNCHANGED <<lru_list, map, current_bytes, max_bytes, index, todo, clip, content, untold>>
  BY DEF Decode
<1>2. CacheInv'
  BY <1>1, CacheInvStutters
<1>3. KeyOf(r) \in Keys
  BY <1>1 DEF AtWork, KeyOf, Keys
<1>4. p \in Payloads /\ p.key = KeyOf(r) /\ p.content = seen[r]
  BY <1>3 DEF RenderTypeOK, Payloads
<1> HIDE DEF p
<1>5. RenderTypeOK'
  BY <1>1, <1>4 DEF RenderTypeOK, Places
<1>6. /\ pc'[r] = "put" /\ layer'[r] = f /\ payload'[f] = p
      /\ \A q \in Renderers : q # r => /\ pc'[q] = pc[q] /\ layer'[q] = layer[q]
                                       /\ seen'[q] = seen[q]
      /\ \A g \in Frames : g # f => payload'[g] = payload[g]
  BY <1>1 DEF RenderTypeOK
<1>7. AtWork'
  BY <1>1, <1>6 DEF AtWork
<1>8. \A q \in Renderers : /\ pc'[q] = "put" <=> q = r \/ pc[q] = "put"
                           /\ pc[q] = "put" => q # r /\ layer[q] \in live
  BY <1>1, <1>6 DEF NoFrameLost
<1>9. {layer'[q] : q \in {x \in Renderers : pc'[x] = "put"}}
        = {layer[q] : q \in {x \in Renderers : pc[x] = "put"}} \cup {f}
  BY <1>6, <1>8
<1>10. NoFrameLost'
  BY <1>1, <1>6, <1>8, <1>9 DEF NoFrameLost
<1>11. \A e \in ToSet(lru_list) : e.frame \in live /\ e.frame \in Frames /\ e.frame # f
  BY <1>1 DEF NoFrameLost, EntryFrames, RenderTypeOK
<1>12. \A q \in Renderers : q # r => KeyOf(q)' = KeyOf(q)
  BY <1>1 DEF KeyOf
<1>13. KeyOf(r)' = KeyOf(r)
  BY <1>1 DEF KeyOf
<1>14. PutsAreApart'
  <2>1. \A q \in Renderers : pc'[q] = "put" =>
            payload'[layer'[q]] \in Payloads /\ payload'[layer'[q]].key = KeyOf(q)'
    <3> SUFFICES ASSUME NEW q \in Renderers, pc'[q] = "put"
                 PROVE  payload'[layer'[q]] \in Payloads /\ payload'[layer'[q]].key = KeyOf(q)'
      OBVIOUS
    <3>1. CASE q = r
      BY <3>1, <1>4, <1>6, <1>13
    <3>2. CASE q # r
      <4>1. layer[q] \in Frames /\ layer[q] # f
             /\ payload[layer[q]] \in Payloads /\ payload[layer[q]].key = KeyOf(q)
        BY <3>2, <1>1, <1>8 DEF PutsAreApart, RenderTypeOK
      <4> QED BY <3>2, <4>1, <1>6, <1>12
    <3> QED BY <3>1, <3>2
  <2>2. \A q, x \in Renderers :
            pc'[q] = "put" /\ pc'[x] = "put" /\ layer'[q] = layer'[x] => q = x
    BY <1>1, <1>6, <1>8 DEF PutsAreApart
  <2> QED BY <2>1, <2>2 DEF PutsAreApart, KeyOf, Payloads
<1>15. EntriesShowTheirKey'
  BY <1>1, <1>6, <1>11 DEF EntriesShowTheirKey
<1>16. Alone' <=> Alone
  BY <1>1 DEF Alone
<1>17. DecodesAreFresh'
  <2> SUFFICES ASSUME Alone PROVE DecodesAreFresh'
    BY <1>16 DEF DecodesAreFresh
  <2>1. r = Editor
    BY <1>1, AloneIsTheEditor
  <2>2. seen[r] = content[clip[r]]
    BY <2>1, <1>1 DEF DecodesAreFresh
  <2> QED BY <2>1, <2>2, <1>1, <1>4, <1>6 DEF DecodesAreFresh
<1>18. PreviewIsValid'
  <2> SUFFICES ASSUME Alone, NEW q \in Renderers, pc'[q] = "composite"
               PROVE  FALSE
    BY <1>16 DEF PreviewIsValid, LayerIsValid
  <2>1. pc[q] = "composite" /\ q # r
    BY <1>6
  <2>2. q = Editor /\ r = Editor
    BY <2>1, <1>1, AloneIsTheEditor
  <2> QED BY <2>1, <2>2
<1>19. BeingEdited' = BeingEdited
  BY <1>1, <1>6, RenderAssumption DEF BeingEdited
<1>20. \A k \in DOMAIN map : map[k] \in Frames /\ map[k] # f
  BY <1>11 DEF CacheInv, MapPointsIntoList
<1>21. StaleFramesHaveACause' /\ NothingIsPutLate'
  BY <1>1, <1>6, <1>16, <1>19, <1>20 DEF StaleFramesHaveACause, NothingIsPutLate
<1> QED BY <1>2, <1>5, <1>7, <1>10, <1>14, <1>15, <1>17, <1>18, <1>21

\* The next clip, or the end: the cache is left alone.
LEMMA NextClipKeepsInv ==
    ASSUME RenderInv, NEW r \in Renderers, NEW rest \in SUBSET Clips, NextClip(r, rest),
           pc[r] \in {"decode", "composite"},
           seen' \in [Renderers -> Nat], \A q \in Renderers : q # r => seen'[q] = seen[q],
           UNCHANGED <<cacheVars, index, content, payload, untold>>
    PROVE  RenderInv'
<1> USE DEF RenderInv
<1> DEFINE next == IF rest = {} THEN "idle" ELSE "lookup"
<1>1. /\ pc' = [pc EXCEPT ![r] = next] /\ todo' = [todo EXCEPT ![r] = rest]
      /\ clip' = [clip EXCEPT ![r] = NONE] /\ layer' = [layer EXCEPT ![r] = NONE]
      /\ UNCHANGED <<lru_list, map, current_bytes, max_bytes, live>>
      /\ UNCHANGED <<index, content, payload, untold>>
  BY DEF NextClip, cacheVars
<1>2. next \in {"idle", "lookup"}
  OBVIOUS
<1> HIDE DEF next
<1>3. CacheInv'
  BY <1>1, CacheInvStutters
<1>4. RenderTypeOK'
  BY <1>1, <1>2 DEF RenderTypeOK, Places
<1>5. /\ pc'[r] = next
      /\ \A q \in Renderers : q # r => /\ pc'[q] = pc[q] /\ clip'[q] = clip[q]
                                       /\ layer'[q] = layer[q]
  BY <1>1 DEF RenderTypeOK
<1>6. AtWork'
  BY <1>1, <1>2, <1>5 DEF AtWork
<1>7. \A q \in Renderers : /\ pc'[q] = "put" <=> pc[q] = "put"
                           /\ pc[q] = "put" => q # r
  BY <1>2, <1>5
<1>8. {layer'[q] : q \in {x \in Renderers : pc'[x] = "put"}}
        = {layer[q] : q \in {x \in Renderers : pc[x] = "put"}}
  BY <1>5, <1>7
<1>9. NoFrameLost'
  BY <1>1, <1>5, <1>7, <1>8 DEF NoFrameLost
<1>10. PutsAreApart'
  BY <1>1, <1>5, <1>7 DEF PutsAreApart, KeyOf
<1>11. EntriesShowTheirKey'
  BY <1>1 DEF EntriesShowTheirKey
<1>12. Alone' <=> Alone
  BY <1>1 DEF Alone
<1>13. DecodesAreFresh'
  BY <1>1, <1>2, <1>5, <1>12, RenderAssumption DEF DecodesAreFresh
<1>14. PreviewIsValid'
  BY <1>1, <1>2, <1>5, <1>12 DEF PreviewIsValid, LayerIsValid, KeyOf
<1>15. BeingEdited' = BeingEdited
  BY <1>1, <1>2, <1>5, RenderAssumption DEF BeingEdited
<1>16. StaleFramesHaveACause' /\ NothingIsPutLate'
  BY <1>1, <1>12, <1>15 DEF StaleFramesHaveACause, NothingIsPutLate
<1> QED BY <1>3, <1>4, <1>6, <1>9, <1>10, <1>11, <1>13, <1>14, <1>16

LEMMA PutDecodedKeepsInv ==
    ASSUME RenderInv, NEW r \in Renderers, NEW size \in FrameSizes, PutDecoded(r, size)
    PROVE  RenderInv'
<1> USE DEF RenderInv
<1> DEFINE k == KeyOf(r)
           f == layer[r]
           new == [key |-> k, frame |-> f, byte_size |-> size]
<1>1. /\ pc[r] = "put" /\ pc' = [pc EXCEPT ![r] = "composite"]
      /\ Put(k, f, size)
      /\ payload' = [AfterReleases EXCEPT ![f].late = payload[f].content # content[clip[r]]]
      /\ UNCHANGED <<index, todo, clip, seen, layer, content, untold>>
  BY DEF PutDecoded
<1>2. k \in Keys
  BY <1>1 DEF AtWork, KeyOf, Keys
<1>3. f \in live /\ f \in Frames /\ f \notin EntryFrames(lru_list)
  BY <1>1 DEF NoFrameLost, RenderTypeOK
<1>4. payload[f].key = k
  BY <1>1 DEF PutsAreApart
<1>5. k.clip_id = clip[r]
  BY DEF KeyOf
<1> HIDE DEF k, f
<1>6. /\ CacheInv'
      /\ DOMAIN map' \subseteq DOMAIN map \cup {k} /\ map'[k] = f
      /\ \A j \in DOMAIN map' : j # k => map'[j] = map[j]
      /\ ToSet(lru_list') \subseteq {new} \cup ToSet(lru_list)
      /\ EntryFrames(Evicted(size)) \subseteq EntryFrames(lru_list)
      /\ EntryFrames(lru_list') = (EntryFrames(lru_list) \ EntryFrames(Evicted(size))) \cup {f}
      /\ live' = (live \ EntryFrames(Evicted(size))) \cup {f}
  BY <1>1, <1>2, <1>3, PutKeepsInv
<1>7. PICK gone \in SUBSET EntryFrames(lru_list) :
             /\ EntryFrames(lru_list') = (EntryFrames(lru_list) \ gone) \cup {f}
             /\ live' = (live \ gone) \cup {f}
  BY <1>6
<1>8. new.frame = f /\ new.key = k
  OBVIOUS
<1> HIDE DEF new
<1>10. live' \subseteq live /\ f \in live'
  BY <1>3, <1>7
<1>9. /\ \A g \in Frames : g # f => payload'[g] = IF g \in live' THEN payload[g] ELSE NONE
      /\ payload'[f] = [payload[f] EXCEPT !.late = payload[f].content # content[clip[r]]]
  BY <1>1, <1>3, <1>10 DEF AfterReleases
<1>26. payload[f] \in Payloads
  BY <1>1 DEF PutsAreApart, f
<1>27. /\ payload'[f].key = k /\ payload'[f].content = payload[f].content
       /\ payload'[f].late = (payload[f].content # content[clip[r]])
       /\ payload'[f] \in Payloads
  BY <1>4, <1>9, <1>26 DEF Payloads
<1>11. RenderTypeOK'
  <2>1. payload' \in [Frames -> Payloads \cup {NONE}]
    <3>1. DOMAIN payload' = Frames /\ payload' = [g \in Frames |-> payload'[g]]
      BY <1>1 DEF AfterReleases
    <3>2. \A g \in Frames : payload'[g] \in Payloads \cup {NONE}
      BY <1>9, <1>27 DEF RenderTypeOK
    <3> QED BY <3>1, <3>2
  <2> QED BY <2>1, <1>1, <1>10 DEF RenderTypeOK, Places
<1>12. pc'[r] = "composite" /\ \A q \in Renderers : q # r => pc'[q] = pc[q]
  BY <1>1 DEF RenderTypeOK
<1>13. AtWork'
  BY <1>1, <1>12 DEF AtWork
<1>14. \A q \in Renderers : /\ pc'[q] = "put" <=> pc[q] = "put" /\ q # r
  BY <1>1, <1>12
<1>15. \A q \in Renderers : pc[q] = "put" /\ q # r =>
           layer[q] # f /\ layer[q] \in live /\ layer[q] \notin EntryFrames(lru_list)
  BY <1>1 DEF PutsAreApart, NoFrameLost, f
<1>16. \A q \in Renderers : pc[q] = "put" /\ q # r =>
           layer[q] \in live' /\ layer[q] \in Frames /\ layer[q] \notin EntryFrames(lru_list')
  BY <1>7, <1>15 DEF RenderTypeOK
<1>17. NoFrameLost'
  <2>1. \A q \in Renderers : pc'[q] = "put" => layer'[q] \notin EntryFrames(lru_list')
    BY <1>1, <1>14, <1>16
  <2>2. live' = EntryFrames(lru_list') \cup {layer'[q] : q \in {x \in Renderers : pc'[x] = "put"}}
    <3>1. {layer'[q] : q \in {x \in Renderers : pc'[x] = "put"}} \subseteq live'
      BY <1>1, <1>14, <1>16
    <3>2. EntryFrames(lru_list') \subseteq live'
      BY <1>7 DEF NoFrameLost
    <3> SUFFICES ASSUME NEW g \in live', g \notin EntryFrames(lru_list')
                 PROVE  g \in {layer'[q] : q \in {x \in Renderers : pc'[x] = "put"}}
      BY <3>1, <3>2
    <3>3. g \in live /\ g # f /\ g \notin EntryFrames(lru_list)
      BY <1>7
    <3>4. PICK q \in Renderers : pc[q] = "put" /\ g = layer[q]
      BY <3>3 DEF NoFrameLost
    <3> QED BY <3>3, <3>4, <1>1, <1>14 DEF f
  <2> QED BY <2>1, <2>2 DEF NoFrameLost
<1>18. PutsAreApart'
  <2>1. \A q \in Renderers : pc'[q] = "put" =>
            /\ pc[q] = "put" /\ layer'[q] = layer[q] /\ KeyOf(q)' = KeyOf(q)
            /\ payload'[layer'[q]] = payload[layer[q]]
    BY <1>1, <1>9, <1>14, <1>15, <1>16 DEF KeyOf
  <2>2. \A q \in Renderers : pc'[q] = "put" =>
            payload'[layer'[q]] \in Payloads /\ payload'[layer'[q]].key = KeyOf(q)'
    BY <2>1 DEF PutsAreApart
  <2>3. \A q, s \in Renderers :
            pc'[q] = "put" /\ pc'[s] = "put" /\ q # s => layer'[q] # layer'[s]
    BY <2>1 DEF PutsAreApart
  <2> QED BY <2>2, <2>3 DEF PutsAreApart
<1>19. \A e \in ToSet(lru_list') : e.frame \in live' /\ e.frame \in Frames
  BY <1>17, <1>11 DEF NoFrameLost, EntryFrames, RenderTypeOK
<1>20. EntriesShowTheirKey'
  <2> SUFFICES ASSUME NEW e \in ToSet(lru_list') PROVE payload'[e.frame].key = e.key
    BY DEF EntriesShowTheirKey
  <2>1. CASE e = new
    BY <2>1, <1>8, <1>27
  <2>2. CASE e # new
    <3>1. e \in ToSet(lru_list)
      BY <2>2, <1>6
    <3>2. e.frame # f
      BY <3>1, <1>3 DEF EntryFrames
    <3>3. payload'[e.frame] = payload[e.frame]
      BY <3>2, <1>9, <1>19
    <3> QED BY <3>1, <3>3 DEF EntriesShowTheirKey
  <2> QED BY <2>1, <2>2
<1>21. Alone' <=> Alone
  BY <1>1 DEF Alone
<1>22. Alone => r = Editor
  BY <1>1, AloneIsTheEditor
<1>23. DecodesAreFresh'
  BY <1>12, <1>21, <1>22 DEF DecodesAreFresh
<1>24. PreviewIsValid'
  <2> SUFFICES ASSUME Alone, NEW q \in Renderers, pc'[q] = "composite"
               PROVE  layer'[q] \in live' /\ payload'[layer'[q]].key = KeyOf(q)'
    BY <1>21 DEF PreviewIsValid, LayerIsValid, KeyOf
  <2>1. q = r
    <3> SUFFICES ASSUME q # r PROVE FALSE
      OBVIOUS
    <3>1. pc[q] = "composite"
      BY <1>12
    <3>2. q = Editor
      BY <3>1, AloneIsTheEditor
    <3> QED BY <3>2, <1>22
  <2>2. layer'[q] = f /\ KeyOf(q)' = k
    BY <2>1, <1>1 DEF KeyOf, f, k
  <2> QED BY <2>2, <1>10, <1>27
<1>25. \A j \in DOMAIN map' : j # k => payload'[map'[j]] = payload[map[j]]
                                     /\ j \in DOMAIN map /\ map'[j] = map[j]
  <2> SUFFICES ASSUME NEW j \in DOMAIN map', j # k
               PROVE  payload'[map'[j]] = payload[map[j]] /\ j \in DOMAIN map /\ map'[j] = map[j]
    OBVIOUS
  <2>1. j \in DOMAIN map /\ map'[j] = map[j]
    BY <1>6
  <2>2. map[j] \in EntryFrames(lru_list)
    BY <2>1 DEF CacheInv, MapPointsIntoList, EntryFrames
  <2>3. map'[j] \in live' /\ map'[j] \in Frames
    BY <1>6, <1>19 DEF CacheInv, MapPointsIntoList
  <2> QED BY <2>1, <2>2, <2>3, <1>3, <1>9
<1>28. BeingEdited' = BeingEdited
  BY <1>1, <1>12, RenderAssumption DEF BeingEdited
<1>29. StaleFramesHaveACause'
  <2> SUFFICES ASSUME NEW j \in DOMAIN map',
                      payload'[map'[j]].content # content[j.clip_id]
               PROVE  j.clip_id \in BeingEdited \cup untold \/ payload'[map'[j]].late
    BY <1>1, <1>28 DEF StaleFramesHaveACause
  <2>1. CASE j = k
    BY <2>1, <1>5, <1>6, <1>27
  <2>2. CASE j # k
    BY <2>2, <1>25 DEF StaleFramesHaveACause
  <2> QED BY <2>1, <2>2
<1>30. NothingIsPutLate'
  <2> SUFFICES ASSUME Alone, NEW j \in DOMAIN map' PROVE ~ payload'[map'[j]].late
    BY <1>21 DEF NothingIsPutLate
  <2>1. CASE j = k
    BY <2>1, <1>1, <1>6, <1>22, <1>27 DEF DecodesAreFresh, f
  <2>2. CASE j # k
    BY <2>2, <1>25 DEF NothingIsPutLate
  <2> QED BY <2>1, <2>2
<1> QED BY <1>6, <1>11, <1>13, <1>17, <1>18, <1>20, <1>23, <1>24, <1>29, <1>30

\* A change of the clips, of which the cache is told next, or never.
LEMMA EditKeepsInv ==
    ASSUME RenderInv, NEW changed \in SUBSET Clips, Changed(changed),
           NEW place \in {"idle", "invalidate", "invalidate_all"},
           pc' = [pc EXCEPT ![Editor] = place],
           clip' \in [Renderers -> Clips \cup {NONE}],
           \A q \in Renderers : q # Editor => clip'[q] = clip[q],
           place = "invalidate" => clip'[Editor] \in Clips,
           changed \subseteq BeingEdited' \cup untold',
           untold \subseteq untold', untold' \subseteq Clips,
           UNCHANGED <<cacheVars, index, todo, seen, layer, payload>>
    PROVE  RenderInv'
<1> USE DEF RenderInv, cacheVars
<1>0. /\ Editor \in Renderers /\ pc[Editor] = "idle"
      /\ content' = [c \in Clips |-> IF c \in changed THEN content[c] + 1 ELSE content[c]]
  BY RenderAssumption DEF Changed
<1>1. CacheInv'
  BY CacheInvStutters
<1>2. /\ pc'[Editor] = place /\ \A q \in Renderers : q # Editor => pc'[q] = pc[q]
  BY <1>0 DEF RenderTypeOK
<1>3. RenderTypeOK'
  <2>1. content' \in [Clips -> Nat]
    BY <1>0 DEF RenderTypeOK
  <2> QED BY <1>2, <2>1 DEF RenderTypeOK, Places
<1>4. AtWork'
  BY <1>2 DEF AtWork
<1>5. \A q \in Renderers : /\ pc'[q] = "put" <=> pc[q] = "put"
                           /\ pc[q] = "put" => q # Editor
  BY <1>0, <1>2
<1>6. NoFrameLost'
  BY <1>5 DEF NoFrameLost
<1>7. PutsAreApart'
  BY <1>2, <1>5 DEF PutsAreApart, KeyOf
<1>8. EntriesShowTheirKey'
  BY DEF EntriesShowTheirKey
<1>9. Alone' <=> Alone
  BY DEF Alone
<1>10. DecodesAreFresh'
  BY <1>2 DEF DecodesAreFresh
<1>11. PreviewIsValid'
  BY <1>2, <1>9 DEF PreviewIsValid, LayerIsValid, KeyOf
<1>12. BeingEdited = {}
  BY <1>0 DEF BeingEdited
<1>13. StaleFramesHaveACause'
  <2> SUFFICES ASSUME NEW j \in DOMAIN map, j.clip_id \notin BeingEdited' \cup untold',
                      payload[map[j]].content # content'[j.clip_id]
               PROVE  payload[map[j]].late
    BY DEF StaleFramesHaveACause
  <2>1. j.clip_id \in Clips \ changed
    BY DEF CacheInv, Keys
  <2> QED BY <2>1, <1>0, <1>12 DEF StaleFramesHaveACause
<1>14. NothingIsPutLate'
  BY <1>9 DEF NothingIsPutLate
<1> QED BY <1>1, <1>3, <1>4, <1>6, <1>7, <1>8, <1>10, <1>11, <1>13, <1>14

LEMMA EditClipKeepsInv ==
    ASSUME RenderInv, NEW c \in Clips, NEW neighbours \in SUBSET Clips,
           EditClip(c, neighbours)
    PROVE  RenderInv'
<1>1. /\ Changed({c} \cup neighbours)
      /\ untold' = untold \cup neighbours
      /\ clip' = [clip EXCEPT ![Editor] = c]
      /\ pc' = [pc EXCEPT ![Editor] = "invalidate"]
      /\ UNCHANGED <<cacheVars, index, todo, seen, layer, payload>>
  BY DEF EditClip
<1>2. /\ pc \in [Renderers -> Places] /\ clip \in [Renderers -> Clips \cup {NONE}]
      /\ untold \subseteq Clips /\ Editor \in Renderers
  BY RenderAssumption DEF RenderInv, RenderTypeOK
<1>3. /\ clip' \in [Renderers -> Clips \cup {NONE}] /\ clip'[Editor] = c
      /\ \A q \in Renderers : q # Editor => clip'[q] = clip[q]
      /\ BeingEdited' = {c}
  BY <1>1, <1>2 DEF BeingEdited
<1> QED BY <1>1, <1>2, <1>3, EditKeepsInv

LEMMA EditTrackKeepsInv ==
    ASSUME RenderInv, NEW changed \in SUBSET Clips, EditTrack(changed)
    PROVE  RenderInv'
<1>1. /\ Changed(changed)
      /\ pc' = [pc EXCEPT ![Editor] = "invalidate_all"]
      /\ UNCHANGED <<cacheVars, index, todo, clip, seen, layer, payload, untold>>
  BY DEF EditTrack
<1>2. /\ pc \in [Renderers -> Places] /\ clip \in [Renderers -> Clips \cup {NONE}]
      /\ untold \subseteq Clips /\ Editor \in Renderers
  BY RenderAssumption DEF RenderInv, RenderTypeOK
<1>3. BeingEdited' = Clips
  BY <1>1, <1>2 DEF BeingEdited
<1> QED BY <1>1, <1>2, <1>3, EditKeepsInv

LEMMA EditUntoldKeepsInv ==
    ASSUME RenderInv, NEW changed \in SUBSET Clips, EditUntold(changed)
    PROVE  RenderInv'
<1>1. /\ Changed(changed) /\ pc[Editor] = "idle"
      /\ untold' = untold \cup changed
      /\ UNCHANGED <<cacheVars, pc, index, todo, clip, seen, layer, payload>>
  BY DEF EditUntold, threadVars, Changed
<1>2. /\ pc \in [Renderers -> Places] /\ clip \in [Renderers -> Clips \cup {NONE}]
      /\ untold \subseteq Clips /\ Editor \in Renderers
  BY RenderAssumption DEF RenderInv, RenderTypeOK
<1>3. pc' = [pc EXCEPT ![Editor] = "idle"]
  BY <1>1, <1>2
<1> QED BY <1>1, <1>2, <1>3, EditKeepsInv

\* Invalidation removes entries, the edited clip's among them.
LEMMA InvalidationKeepsInv ==
    ASSUME RenderInv, pc[Editor] \in {"invalidate", "invalidate_all"}, CacheInv',
           ToSet(lru_list') \subseteq ToSet(lru_list),
           DOMAIN map' \subseteq {k \in DOMAIN map : k.clip_id \notin BeingEdited},
           \A k \in DOMAIN map' : map'[k] = map[k],
           NEW gone \in SUBSET EntryFrames(lru_list),
           EntryFrames(lru_list') = EntryFrames(lru_list) \ gone, live' = live \ gone,
           ReleasedAreZeroed, untold' = untold \ BeingEdited, NextClip(Editor, {}),
           UNCHANGED <<index, seen, content>>
    PROVE  RenderInv'
<1> USE DEF RenderInv
<1>0. Editor \in Renderers
  BY RenderAssumption
<1>1. /\ pc' = [pc EXCEPT ![Editor] = "idle"] /\ todo' = [todo EXCEPT ![Editor] = {}]
      /\ clip' = [clip EXCEPT ![Editor] = NONE] /\ layer' = [layer EXCEPT ![Editor] = NONE]
  BY DEF NextClip
<1>2. /\ pc'[Editor] = "idle"
      /\ \A q \in Renderers : q # Editor => /\ pc'[q] = pc[q] /\ clip'[q] = clip[q]
                                            /\ layer'[q] = layer[q]
  BY <1>0, <1>1 DEF RenderTypeOK
<1>3. /\ payload' \in [Frames -> Payloads \cup {NONE}]
      /\ \A g \in Frames : payload'[g] = IF g \in live' THEN payload[g] ELSE NONE
  BY DEF ReleasedAreZeroed, AfterReleases, RenderTypeOK
<1>4. RenderTypeOK'
  BY <1>1, <1>3 DEF RenderTypeOK, Places
<1>5. AtWork'
  BY <1>2 DEF AtWork
<1>6. \A q \in Renderers : /\ pc'[q] = "put" <=> pc[q] = "put"
                           /\ pc[q] = "put" => q # Editor
  BY <1>2
<1>7. {layer'[q] : q \in {x \in Renderers : pc'[x] = "put"}}
        = {layer[q] : q \in {x \in Renderers : pc[x] = "put"}}
  BY <1>2, <1>6
<1>8. \A q \in Renderers : pc[q] = "put" =>
          layer[q] \in live' /\ layer[q] \in Frames /\ layer[q] \notin EntryFrames(lru_list')
  BY DEF NoFrameLost, RenderTypeOK
<1>9. NoFrameLost'
  <2>1. \A q \in Renderers : pc'[q] = "put" => layer'[q] \notin EntryFrames(lru_list')
    BY <1>2, <1>6, <1>8
  <2>2. {layer[q] : q \in {x \in Renderers : pc[x] = "put"}} \cap gone = {}
    BY DEF NoFrameLost
  <2>3. live' = EntryFrames(lru_list') \cup {layer[q] : q \in {x \in Renderers : pc[x] = "put"}}
    BY <2>2 DEF NoFrameLost
  <2> QED BY <2>1, <2>3, <1>7 DEF NoFrameLost
<1>10. PutsAreApart'
  BY <1>2, <1>3, <1>6, <1>8 DEF PutsAreApart, KeyOf
<1>11. \A e \in ToSet(lru_list') : e.frame \in live' /\ e.frame \in Frames
  BY <1>9, <1>4 DEF NoFrameLost, EntryFrames, RenderTypeOK
<1>12. EntriesShowTheirKey'
  BY <1>3, <1>11 DEF EntriesShowTheirKey
<1>13. Alone' <=> Alone
  BY DEF Alone
<1>14. DecodesAreFresh'
  BY <1>2 DEF DecodesAreFresh
<1>15. PreviewIsValid'
  <2> SUFFICES ASSUME Alone, NEW q \in Renderers, pc'[q] = "composite" PROVE FALSE
    BY <1>13 DEF PreviewIsValid, LayerIsValid
  <2>1. pc[q] = "composite" /\ q # Editor
    BY <1>2
  <2> QED BY <2>1, AloneIsTheEditor
<1>16. \A j \in DOMAIN map' : j \in DOMAIN map /\ payload'[map'[j]] = payload[map[j]]
  <2> SUFFICES ASSUME NEW j \in DOMAIN map'
               PROVE  j \in DOMAIN map /\ payload'[map'[j]] = payload[map[j]]
    OBVIOUS
  <2>1. map'[j] \in live' /\ map'[j] \in Frames
    BY <1>11 DEF CacheInv, MapPointsIntoList
  <2> QED BY <2>1, <1>3
<1>17. StaleFramesHaveACause'
  BY <1>16 DEF StaleFramesHaveACause
<1>18. NothingIsPutLate'
  BY <1>13, <1>16 DEF NothingIsPutLate
<1> QED BY <1>4, <1>5, <1>9, <1>10, <1>12, <1>14, <1>15, <1>17, <1>18

LEMMA InvalidateEditedKeepsInv ==
    ASSUME RenderInv, InvalidateEdited
    PROVE  RenderInv'
<1>1. /\ pc[Editor] = "invalidate" /\ invalidate_clip(clip[Editor])
      /\ ReleasedAreZeroed /\ untold' = untold \ BeingEdited
      /\ NextClip(Editor, {}) /\ UNCHANGED <<index, seen, content>>
  BY DEF InvalidateEdited
<1>2. CacheInv
  BY DEF RenderInv
<1>3. /\ CacheInv'
      /\ DOMAIN map' = {k \in DOMAIN map : k.clip_id # clip[Editor]}
      /\ \A k \in DOMAIN map' : map'[k] = map[k]
      /\ ToSet(lru_list') \subseteq ToSet(lru_list)
      /\ EntryFrames(Dropped(clip[Editor])) \subseteq EntryFrames(lru_list)
      /\ EntryFrames(lru_list') = EntryFrames(lru_list) \ EntryFrames(Dropped(clip[Editor]))
      /\ live' = live \ EntryFrames(Dropped(clip[Editor]))
  BY <1>1, <1>2, InvalidateClipKeepsInv
<1>4. DOMAIN map' \subseteq {k \in DOMAIN map : k.clip_id \notin BeingEdited}
  BY <1>1, <1>3 DEF BeingEdited
<1> QED BY <1>1, <1>3, <1>4, InvalidationKeepsInv

LEMMA EverythingInvalidatedKeepsInv ==
    ASSUME RenderInv, InvalidateAll
    PROVE  RenderInv'
<1>1. /\ pc[Editor] = "invalidate_all" /\ invalidate_all
      /\ ReleasedAreZeroed /\ untold' = untold \ BeingEdited
      /\ NextClip(Editor, {}) /\ UNCHANGED <<index, seen, content>>
  BY DEF InvalidateAll
<1>2. CacheInv
  BY DEF RenderInv
<1>3. CacheInv' /\ ToSet(lru_list') = {} /\ DOMAIN map' = {}
  BY <1>1, <1>2, InvalidateAllKeepsInv
<1>4. /\ EntryFrames(lru_list') = EntryFrames(lru_list) \ EntryFrames(lru_list)
      /\ live' = live \ EntryFrames(lru_list)
  BY <1>1, <1>3 DEF invalidate_all, EntryFrames
<1>5. /\ ToSet(lru_list') \subseteq ToSet(lru_list)
      /\ DOMAIN map' \subseteq {k \in DOMAIN map : k.clip_id \notin BeingEdited}
      /\ \A k \in DOMAIN map' : map'[k] = map[k]
      /\ EntryFrames(lru_list) \in SUBSET EntryFrames(lru_list)
  BY <1>3
<1> QED BY <1>1, <1>3, <1>4, <1>5, InvalidationKeepsInv

LEMMA SetCacheSizeKeepsInv ==
    ASSUME RenderInv, NEW n \in {0} \cup Budgets, SetCacheSize(n)
    PROVE  RenderInv'
<1> USE DEF RenderInv
<1>1. /\ max_bytes' \in Nat /\ UNCHANGED <<lru_list, map, current_bytes, live>>
      /\ UNCHANGED <<pc, index, todo, clip, seen, layer, content, payload, untold>>
  BY CacheAssumption, RenderAssumption DEF SetCacheSize, set_max_bytes, threadVars
<1>2. CacheInv'
  BY <1>1 DEF CacheInv, MapPointsIntoList
<1>3. /\ RenderTypeOK' /\ AtWork' /\ NoFrameLost' /\ PutsAreApart' /\ EntriesShowTheirKey'
  BY <1>1 DEF RenderTypeOK, AtWork, NoFrameLost, PutsAreApart, EntriesShowTheirKey, KeyOf
<1>4. /\ DecodesAreFresh' /\ PreviewIsValid'
      /\ StaleFramesHaveACause' /\ NothingIsPutLate'
  BY <1>1 DEF DecodesAreFresh, PreviewIsValid, StaleFramesHaveACause, NothingIsPutLate, LayerIsValid,
              Alone, BeingEdited, KeyOf
<1> QED BY <1>2, <1>3, <1>4

LEMMA RenderKeepsInv ==
    ASSUME RenderInv, NEW r \in Renderers, Render(r)
    PROVE  RenderInv'
<1>1. CASE \E i \in FrameIndices, active \in SUBSET Clips \ {{}} : Begin(r, i, active)
  BY <1>1, BeginKeepsInv
<1>2. CASE \E c \in Clips : Hit(r, c) \/ Miss(r, c)
  BY <1>2, HitKeepsInv, MissKeepsInv
<1>3. CASE \E f \in Frames : Decode(r, f)
  BY <1>3, DecodeKeepsInv
<1>4. CASE \E size \in FrameSizes : PutDecoded(r, size)
  BY <1>4, PutDecodedKeepsInv
<1>5. todo[r] \in SUBSET Clips /\ seen \in [Renderers -> Nat]
  BY DEF RenderInv, RenderTypeOK
<1>6. CASE DecodeFails(r)
  <2>1. /\ pc[r] = "decode" /\ NextClip(r, todo[r] \ {clip[r]})
        /\ seen' = [seen EXCEPT ![r] = 0]
        /\ UNCHANGED <<cacheVars, index, content, payload, untold>>
    BY <1>6 DEF DecodeFails
  <2>2. seen' \in [Renderers -> Nat] /\ \A q \in Renderers : q # r => seen'[q] = seen[q]
    BY <2>1, <1>5
  <2>3. todo[r] \ {clip[r]} \in SUBSET Clips
    BY <1>5
  <2> QED BY <2>1, <2>2, <2>3, NextClipKeepsInv
<1>7. CASE Composite(r) \/ CompositeFails(r)
  <2>1. PICK rest \in SUBSET Clips :
           /\ pc[r] = "composite" /\ NextClip(r, rest)
           /\ seen' = seen /\ UNCHANGED <<cacheVars, index, content, payload, untold>>
    BY <1>5, <1>7 DEF Composite, CompositeFails
  <2>2. seen' \in [Renderers -> Nat] /\ \A q \in Renderers : q # r => seen'[q] = seen[q]
    BY <2>1, <1>5
  <2> QED BY <2>1, <2>2, NextClipKeepsInv
<1> QED BY <1>1, <1>2, <1>3, <1>4, <1>6, <1>7 DEF Render

LEMMA RenderStutters ==
    ASSUME RenderInv, UNCHANGED vars
    PROVE  RenderInv'
<1>1. /\ UNCHANGED <<lru_list, map, current_bytes, max_bytes, live>>
      /\ UNCHANGED <<pc, index, todo, clip, seen, layer, content, payload, untold>>
  BY DEF vars, cacheVars, threadVars
<1>2. CacheInv'
  BY <1>1, CacheInvStutters DEF RenderInv
<1>3. /\ RenderTypeOK' /\ AtWork' /\ NoFrameLost' /\ PutsAreApart' /\ EntriesShowTheirKey'
  BY <1>1 DEF RenderInv, RenderTypeOK, AtWork, NoFrameLost, PutsAreApart,
              EntriesShowTheirKey, KeyOf
<1>4. /\ DecodesAreFresh' /\ PreviewIsValid'
      /\ StaleFramesHaveACause' /\ NothingIsPutLate'
  BY <1>1 DEF RenderInv, DecodesAreFresh, PreviewIsValid, StaleFramesHaveACause, NothingIsPutLate,
              LayerIsValid, Alone, BeingEdited, KeyOf
<1> QED BY <1>2, <1>3, <1>4 DEF RenderInv

LEMMA RenderStep == RenderInv /\ [RNext]_vars => RenderInv'
<1> SUFFICES ASSUME RenderInv, [RNext]_vars PROVE RenderInv'
  OBVIOUS
<1>1. CASE \E r \in Renderers : Render(r)
  BY <1>1, RenderKeepsInv
<1>2. CASE Edit
  BY <1>2, EditClipKeepsInv, EditTrackKeepsInv, EditUntoldKeepsInv, InvalidateEditedKeepsInv,
     EverythingInvalidatedKeepsInv, SetCacheSizeKeepsInv DEF Edit
<1>3. CASE UNCHANGED vars
  BY <1>3, RenderStutters
<1> QED BY <1>1, <1>2, <1>3 DEF RNext

LEMMA RenderInvariance == RSpec => []RenderInv
<1> QED BY InitialRender, RenderStep, PTL DEF RSpec

-----------------------------------------------------------------------------
(* What follows *)

\* The cache's map never points past its list, whoever uses the cache
\* (FrameCache, frame_cache.cpp).
THEOREM MapIsConsistent == RSpec => []MapPointsIntoList
<1>1. RenderInv => MapPointsIntoList
  BY DEF RenderInv, CacheInv
<1> QED BY <1>1, RenderInvariance, PTL

\* Every decoded frame is in the cache or in the hands of the one renderer about
\* to put it there (get_clip_frame_at, frame_cache.cpp).
THEOREM FramesAreKept == RSpec => []NoFrameLost
<1>1. RenderInv => NoFrameLost
  BY DEF RenderInv
<1> QED BY <1>1, RenderInvariance, PTL

\* Until an export renders, the preview blends frames that are live and are the
\* ones it asked for (render_frame).
THEOREM PreviewBlendsValidFrames == RSpec => []PreviewIsValid
<1>1. RenderInv => PreviewIsValid
  BY DEF RenderInv
<1> QED BY <1>1, RenderInvariance, PTL

\* Whatever the preview, an export and the user interleave, a frame in the cache
\* that is older than its clip is there for one of the causes named: the edit is
\* not done, told the cache nothing of the clip, or came while the frame was
\* being decoded by another thread (the edit handlers of gopost_timeline_*,
\* get_clip_frame_at).
THEOREM StaleFramesAreExplained == RSpec => []StaleOnlyForCause
<1>1. RenderInv => StaleOnlyForCause
  BY DEF RenderInv, StaleOnlyForCause
<1> QED BY <1>1, RenderInvariance, PTL

-----------------------------------------------------------------------------
(* The steps of the renders are operations of the cache *)

\* What a step of the renders is to the cache: an operation on the frames it
\* lists, which puts only frames that it does not hold.
CacheStep ==
    \/ \E k \in Keys : Get(k)
    \/ \E k \in Keys, f \in Frames \ EntryFrames(lru_list), size \in FrameSizes : Put(k, f, size)
    \/ invalidate_all
    \/ \E c \in Clips : invalidate_clip(c)
    \/ \E n \in Budgets : set_max_bytes(n)
    \/ UNCHANGED <<lru_list, map, current_bytes, max_bytes>>

LEMMA StepsOfTheCache ==
    ASSUME RenderInv, [RNext]_vars
    PROVE  CacheStep
<1> USE DEF RenderInv
<1>1. ASSUME NEW r \in Renderers, Render(r) PROVE CacheStep
  <2>1. CASE \E c \in Clips : Hit(r, c)
    <3>1. PICK k : Get(k)
      BY <2>1 DEF Hit
    <3>2. k \in Keys
      BY <3>1 DEF Get, CacheInv
    <3> QED BY <3>1, <3>2 DEF CacheStep
  <2>2. CASE \E size \in FrameSizes : PutDecoded(r, size)
    <3>1. PICK size \in FrameSizes : pc[r] = "put" /\ Put(KeyOf(r), layer[r], size)
      BY <2>2 DEF PutDecoded
    <3>2. KeyOf(r) \in Keys
      BY <3>1, <1>1 DEF AtWork, KeyOf, Keys
    <3>3. layer[r] \in Frames \ EntryFrames(lru_list)
      BY <3>1, <1>1 DEF NoFrameLost, RenderTypeOK
    <3> QED BY <3>1, <3>2, <3>3 DEF CacheStep
  <2>3. CASE \/ \E i \in FrameIndices, active \in SUBSET Clips \ {{}} : Begin(r, i, active)
             \/ \E c \in Clips : Miss(r, c)
             \/ \E f \in Frames : Decode(r, f)
             \/ DecodeFails(r) \/ Composite(r) \/ CompositeFails(r)
    BY <2>3 DEF CacheStep, Begin, Miss, Decode, DecodeFails, Composite, CompositeFails, cacheVars
  <2> QED BY <1>1, <2>1, <2>2, <2>3 DEF Render
<1>2. CASE Edit
  <2>1. CASE InvalidateEdited
    <3>1. invalidate_clip(clip[Editor]) /\ clip[Editor] \in Clips
      BY <2>1, RenderAssumption DEF InvalidateEdited, AtWork
    <3> QED BY <3>1 DEF CacheStep
  <2>2. CASE InvalidateAll
    BY <2>2 DEF InvalidateAll, CacheStep
  <2>3. CASE \E n \in {0} \cup Budgets : SetCacheSize(n)
    BY <2>3, RenderAssumption, CacheAssumption DEF SetCacheSize, CacheStep
  <2>4. CASE \/ \E c \in Clips : \E neighbours \in SUBSET (Clips \ {c}) : EditClip(c, neighbours)
             \/ \E changed \in SUBSET Clips \ {{}} : EditTrack(changed) \/ EditUntold(changed)
    BY <2>4 DEF EditClip, EditTrack, EditUntold, CacheStep, cacheVars
  <2> QED BY <1>2, <2>1, <2>2, <2>3, <2>4 DEF Edit
<1>3. CASE UNCHANGED vars
  BY <1>3 DEF vars, cacheVars, CacheStep
<1> QED BY <1>1, <1>2, <1>3 DEF RNext

LEMMA EachStepKeepsBudget ==
    RenderInv /\ [RNext]_vars =>
        [EntryFrames(lru_list') \ EntryFrames(lru_list) # {} =>
            Bytes(lru_list') <= max_bytes' \/ Len(lru_list') = 1]_cacheVars
<1> SUFFICES ASSUME RenderInv, [RNext]_vars,
                    EntryFrames(lru_list') \ EntryFrames(lru_list) # {}
             PROVE  Bytes(lru_list') <= max_bytes' \/ Len(lru_list') = 1
  OBVIOUS
<1>1. CacheInv /\ CacheStep
  BY StepsOfTheCache DEF RenderInv
<1>2. ASSUME NEW k \in Keys, Get(k) PROVE FALSE
  <2>1. EntryFrames(lru_list') = EntryFrames(lru_list)
    BY <1>1, <1>2, GetKeepsInv DEF EntryFrames
  <2> QED BY <2>1
<1>3. ASSUME NEW k \in Keys, NEW f \in Frames \ EntryFrames(lru_list),
             NEW size \in FrameSizes, Put(k, f, size)
      PROVE  Bytes(lru_list') <= max_bytes' \/ Len(lru_list') = 1
  BY <1>1, <1>3, PutKeepsInv
<1>4. CASE invalidate_all
  <2>1. EntryFrames(lru_list') = {}
    BY <1>1, <1>4, InvalidateAllKeepsInv DEF EntryFrames
  <2> QED BY <2>1
<1>5. ASSUME NEW c \in Clips, invalidate_clip(c) PROVE FALSE
  <2>1. ToSet(lru_list') \subseteq ToSet(lru_list)
    BY <1>1, <1>5, InvalidateClipKeepsInv
  <2> QED BY <2>1 DEF EntryFrames
<1>6. CASE UNCHANGED lru_list
  BY <1>6
<1> QED BY <1>1, <1>2, <1>3, <1>4, <1>5, <1>6 DEF CacheStep, set_max_bytes

\* A put leaves the cache within its budget, or holding the new frame only,
\* whatever was put over, looked up and invalidated before (evict_until, put).
THEOREM BudgetIsKept == RSpec => PutKeepsBudget
BY RenderInvariance, EachStepKeepsBudget, PTL DEF RSpec, PutKeepsBudget

\* The cache that owns the frames it lists is, but for that, the same.
LEMMA CacheOperators ==
    /\ \A k : Cache!MovedToFront(k) = MovedToFront(k)
    /\ \A s : Cache!Bytes(s) = Bytes(s)
    /\ \A s : Cache!EntryFrames(s) = EntryFrames(s)
    /\ \A s : Cache!EntryKeys(s) = EntryKeys(s)
    /\ \A n : Cache!Newest(n) = Newest(n) /\ Cache!Oldest(n) = Oldest(n)
    /\ \A t : Cache!KeptUntil(t) = KeptUntil(t)
    /\ \A f, ks : Cache!Without(f, ks) = Without(f, ks)
    /\ \A f, k, v : Cache!With(f, k, v) = With(f, k, v)
    /\ \A s, I : Cache!Select(s, I) = Select(s, I)
    /\ Cache!Keys = Keys
<1>1. \A s, I : Cache!Select(s, I) = Select(s, I)
  BY Zenon DEF Cache!Select, Select, Cache!Nth, Nth, Cache!Rank, Rank,
               Cache!Cardinality, Cardinality
<1>2. \A k : Cache!MovedToFront(k) = MovedToFront(k)
  BY Zenon DEF Cache!MovedToFront, MovedToFront, Cache!Select, Select, Cache!Nth, Nth, Cache!Rank, Rank,
               Cache!Cardinality, Cardinality
<1>3. \A s : Cache!Bytes(s) = Bytes(s)
  BY Zenon DEF Cache!Bytes, Bytes, Cache!ToSet, ToSet, Cache!Cardinality, Cardinality
<1>4. /\ \A s : Cache!EntryFrames(s) = EntryFrames(s)
      /\ \A s : Cache!EntryKeys(s) = EntryKeys(s)
  BY Zenon DEF Cache!EntryFrames, EntryFrames, Cache!EntryKeys, EntryKeys, Cache!ToSet, ToSet
<1>5. \A n : Cache!Newest(n) = Newest(n) /\ Cache!Oldest(n) = Oldest(n)
  BY Zenon DEF Cache!Newest, Newest, Cache!Oldest, Oldest
<1>6. \A t : Cache!KeptUntil(t) = KeptUntil(t)
  BY Zenon DEF Cache!KeptUntil, KeptUntil, Cache!Max, Max, Cache!Oldest, Oldest,
               Cache!Bytes, Bytes, Cache!ToSet, ToSet, Cache!Cardinality, Cardinality
<1>7. /\ \A f, ks : Cache!Without(f, ks) = Without(f, ks)
      /\ \A f, k, v : Cache!With(f, k, v) = With(f, k, v)
      /\ Cache!Keys = Keys
  BY Zenon DEF Cache!Without, Without, Cache!With, With, Cache!Keys, Keys
<1> QED BY <1>1, <1>2, <1>3, <1>4, <1>5, <1>6, <1>7

\* To the cache, whatever its callers interleave is a run of its own operations
\* (FrameCache), on the frames it lists.
THEOREM RendersUseTheCacheAsSpecified == RSpec => CacheIsUsedAsSpecified
<1>1. RInit => Cache!Init
  <2> SUFFICES ASSUME RInit PROVE EntryFrames(lru_list) = {}
    BY DEF RInit, Init, Cache!Init
  <2>1. ToSet(lru_list) = {}
    BY DEF RInit, Init, ToSet
  <2> QED BY <2>1 DEF EntryFrames
<1>2. RenderInv /\ [RNext]_vars => [Cache!Next]_(Cache!cacheVars)
  <2> SUFFICES ASSUME RenderInv, [RNext]_vars PROVE [Cache!Next]_(Cache!cacheVars)
    OBVIOUS
  <2>1. CacheInv /\ CacheStep
    BY StepsOfTheCache DEF RenderInv
  <2>2. ASSUME NEW k \in Keys, Get(k) PROVE Cache!Get(k)
    <3>1. EntryFrames(lru_list') = EntryFrames(lru_list)
      BY <2>1, <2>2, GetKeepsInv DEF EntryFrames
    <3> QED BY <2>2, <3>1, CacheOperators DEF Get, Cache!Get
  <2>3. ASSUME NEW k \in Keys, NEW f \in Frames \ EntryFrames(lru_list),
               NEW size \in FrameSizes, Put(k, f, size)
        PROVE  Cache!Put(k, f, size)
    <3>1. EntryFrames(lru_list') = (EntryFrames(lru_list) \ EntryFrames(Evicted(size))) \cup {f}
      BY <2>1, <2>3, PutKeepsInv
    <3> QED BY <2>3, <3>1, CacheOperators DEF Put, Cache!Put, Evicted
  <2>4. ASSUME invalidate_all PROVE Cache!invalidate_all
    <3>1. ToSet(lru_list') = {}
      BY <2>1, <2>4, InvalidateAllKeepsInv
    <3>2. EntryFrames(lru_list') = EntryFrames(lru_list) \ EntryFrames(lru_list)
      BY <3>1 DEF EntryFrames
    <3> QED BY <2>4, <3>2, CacheOperators DEF invalidate_all, Cache!invalidate_all
  <2>5. ASSUME NEW c \in Clips, invalidate_clip(c) PROVE Cache!invalidate_clip(c)
    <3>1. EntryFrames(lru_list') = EntryFrames(lru_list) \ EntryFrames(Dropped(c))
      BY <2>1, <2>5, InvalidateClipKeepsInv
    <3> QED BY <2>5, <3>1, CacheOperators DEF invalidate_clip, Cache!invalidate_clip, Dropped
  <2>6. ASSUME NEW n \in Budgets, set_max_bytes(n) PROVE Cache!set_max_bytes(n)
    BY <2>6 DEF set_max_bytes, Cache!set_max_bytes
  <2>7. CASE UNCHANGED <<lru_list, map, current_bytes, max_bytes>>
    BY <2>7 DEF Cache!cacheVars
  <2> QED BY <2>1, <2>2, <2>3, <2>4, <2>5, <2>6, <2>7, CacheOperators DEF CacheStep, Cache!Next
<1> QED BY <1>1, <1>2, RenderInvariance, PTL DEF RSpec, CacheIsUsedAsSpecified, Cache!Spec
=============================================================================
