-------------------------- MODULE FramePool_proofs --------------------------
(* Safety of the frame pool, proved for any number of threads, frames,      *)
(* buffers and sizes.                                                       *)
EXTENDS FramePool, Sublists_proofs

\* Rounding up to the alignment never yields less than what was asked for.
LEMMA AlignCovers ==
    ASSUME NEW n \in Nat
    PROVE  align_size(n) \in Nat /\ align_size(n) >= n
<1>1. kAlignment \in Nat \ {0}
  BY SizeAssumption
<1> DEFINE m == n + kAlignment - 1
           q == m \div kAlignment
<1>2. m \in Nat
  BY <1>1
<1>3. q \in Nat /\ m = kAlignment * q + (m % kAlignment)
      /\ m % kAlignment \in 0 .. kAlignment - 1
  <2> HIDE DEF m
  <2> QED BY <1>1, <1>2, SMTT(30)
<1>4. q * kAlignment = kAlignment * q /\ kAlignment * q \in Nat
  <2> HIDE DEF q
  <2> QED BY <1>1, <1>3, SMTT(30)
<1>5. q * kAlignment >= n
  <2> HIDE DEF q
  <2> QED BY <1>1, <1>3, <1>4, SMTT(30)
<1> QED BY <1>3, <1>4, <1>5 DEF align_size, m, q

-----------------------------------------------------------------------------
(* One step of the allocator, from a state of the pool alone.               *)

PoolTypeOK ==
    /\ heap \subseteq Pointers
    /\ free_blocks \in Seq(Block)
    /\ used_blocks \subseteq Block /\ IsFiniteSet(used_blocks)
    /\ allocated_total \in Nat

PoolInv == PoolTypeOK /\ ListedOnce /\ heap = Ptrs(AllBlocks)

\* The pool takes a block of a size no free block has.
Grows ==
    \E blk \in used_blocks' :
        /\ AllBlocks' = AllBlocks \cup {blk}
        /\ blk \in Block /\ Fits(blk.size) = {}
        /\ used_blocks' = used_blocks \cup {blk}

\* acquire() hands out a buffer that nobody was using, of sufficient size, and
\* leaves every other used block alone.
LEMMA AcquireStep ==
    ASSUME PoolInv, NEW n \in Nat, NEW p \in Pointers, acquire(n, p)
    PROVE  /\ PoolInv'
           /\ p \notin Ptrs(used_blocks)
           /\ Ptrs(used_blocks)' = Ptrs(used_blocks) \cup {p}
           /\ used_blocks \subseteq used_blocks'
           /\ \E b \in used_blocks' : b.ptr = p /\ b.size >= n
           /\ AllBlocks' = AllBlocks \/ Grows
<1> DEFINE size == align_size(n)
<1>1. size \in Nat /\ size >= n
  BY AlignCovers
<1> HIDE DEF size
<1>2. CASE TakeFirstFit(size, p)
  <2>1. PICK i \in Fits(size) :
            /\ p = free_blocks[i].ptr
            /\ used_blocks' = used_blocks \cup {free_blocks[i]}
            /\ free_blocks' = RemoveAt(free_blocks, i)
            /\ UNCHANGED <<heap, allocated_total>>
    BY <1>2 DEF TakeFirstFit
  <2> DEFINE blk == free_blocks[i]
  <2>2. free_blocks \in Seq(Block) /\ DOMAIN free_blocks = 1 .. Len(free_blocks)
        /\ Len(free_blocks) \in Nat
    BY DEF PoolInv, PoolTypeOK
  <2>3. i \in 1 .. Len(free_blocks) /\ blk \in Block /\ blk.size >= size
    BY <2>1, <2>2, ElementOfSeq DEF Fits
  <2>4. /\ free_blocks' \in Seq(Block)
        /\ Len(free_blocks') = Len(free_blocks) - 1
        /\ DOMAIN free_blocks' = 1 .. Len(free_blocks) - 1
        /\ \A j \in 1 .. Len(free_blocks) - 1 :
             free_blocks'[j] = IF j < i THEN free_blocks[j] ELSE free_blocks[j + 1]
    <3> HIDE DEF blk
    <3>1. /\ free_blocks' \in Seq(Block)
          /\ Len(free_blocks') = Len(free_blocks) - 1
          /\ \A j \in 1 .. Len(free_blocks) - 1 :
             free_blocks'[j] = IF j < i THEN free_blocks[j] ELSE free_blocks[j + 1]
      BY <2>1, <2>2, <2>3, RemoveAtProperties
    <3>2. DOMAIN free_blocks' = 1 .. Len(free_blocks')
      BY <3>1, LenProperties
    <3>3. DOMAIN free_blocks' = 1 .. Len(free_blocks) - 1
      BY <3>1, <3>2
    <3> QED BY <3>1, <3>3, Zenon
  <2>5. \A j \in DOMAIN free_blocks' :
            \E k \in DOMAIN free_blocks : k # i /\ free_blocks'[j] = free_blocks[k]
    <3> TAKE j \in DOMAIN free_blocks'
    <3>1. CASE j < i
      BY <3>1, <2>2, <2>3, <2>4
    <3>2. CASE ~(j < i)
      <4>1. j + 1 \in DOMAIN free_blocks /\ j + 1 # i
        BY <3>2, <2>2, <2>3, <2>4
      <4> QED BY <3>2, <4>1, <2>4
    <3> QED BY <3>1, <3>2
  <2>6. \A k \in DOMAIN free_blocks : k # i =>
            \E j \in DOMAIN free_blocks' : free_blocks'[j] = free_blocks[k]
    <3> TAKE k \in DOMAIN free_blocks
    <3> HAVE k # i
    <3>1. CASE k < i
      BY <3>1, <2>2, <2>3, <2>4
    <3>2. CASE ~(k < i)
      <4>1. k - 1 \in DOMAIN free_blocks' /\ ~(k - 1 < i) /\ (k - 1) + 1 = k
        BY <3>2, <2>2, <2>3, <2>4
      <4> QED BY <4>1, <2>4
    <3> QED BY <3>1, <3>2
  <2>7. \A j, k \in DOMAIN free_blocks' :
            free_blocks'[j].ptr = free_blocks'[k].ptr => j = k
    <3> TAKE j, k \in DOMAIN free_blocks'
    <3> HAVE free_blocks'[j].ptr = free_blocks'[k].ptr
    <3> DEFINE up(m) == IF m < i THEN m ELSE m + 1
    <3>1. up(j) \in DOMAIN free_blocks /\ up(k) \in DOMAIN free_blocks
      BY <2>2, <2>3, <2>4
    <3>2. free_blocks'[j] = free_blocks[up(j)] /\ free_blocks'[k] = free_blocks[up(k)]
      BY <2>4
    <3>3. up(j) = up(k)
      <4> HIDE DEF up
      <4> QED BY <3>1, <3>2 DEF PoolInv, ListedOnce
    <3> QED BY <3>3, <2>2, <2>3, <2>4
  <2>8. ToSet(free_blocks)' = ToSet(free_blocks) \ {blk}
    <3>1. \A k \in DOMAIN free_blocks : k # i => free_blocks[k] # blk
      BY <2>2, <2>3 DEF PoolInv, ListedOnce
    <3>2. ToSet(free_blocks)' = {free_blocks'[j] : j \in DOMAIN free_blocks'}
      BY DEF ToSet
    <3>3. ToSet(free_blocks) = {free_blocks[j] : j \in DOMAIN free_blocks}
      BY DEF ToSet
    <3>4. i \in DOMAIN free_blocks
      BY <2>2, <2>3
    <3> HIDE DEF blk
    <3> QED BY <3>1, <3>2, <3>3, <2>5, <2>6 DEF blk
  <2>9. blk \in FreeBlocks
    BY <2>2, <2>3 DEF FreeBlocks, ToSet
  <2> HIDE DEF blk
  <2>10. used_blocks' = used_blocks \cup {blk} /\ p = blk.ptr
    BY <2>1 DEF blk
  <2>11. AllBlocks' = AllBlocks
    BY <2>8, <2>9, <2>10 DEF AllBlocks, FreeBlocks
  <2>12. p \notin Ptrs(used_blocks) /\ \A b \in FreeBlocks : b.ptr = p => b = blk
    <3>1. p \notin Ptrs(used_blocks)
      BY <2>9, <2>10 DEF PoolInv, ListedOnce, Ptrs
    <3>2. \A k \in DOMAIN free_blocks : free_blocks[k].ptr = p => k = i
      BY <2>2, <2>3, <2>10 DEF PoolInv, ListedOnce, blk
    <3> QED BY <3>1, <3>2 DEF FreeBlocks, ToSet, blk
  <2>13. ListedOnce'
    <3>1. \A b, c \in used_blocks' : b.ptr = c.ptr => b = c
      BY <2>10, <2>12 DEF PoolInv, ListedOnce, Ptrs
    <3>2. Ptrs(FreeBlocks)' \cap Ptrs(used_blocks)' = {}
      BY <2>8, <2>10, <2>12 DEF PoolInv, ListedOnce, Ptrs, FreeBlocks
    <3> QED BY <2>7, <3>1, <3>2 DEF ListedOnce
  <2>14. PoolTypeOK'
    <3>1. IsFiniteSet(used_blocks')
      BY <2>10, FS_AddElement DEF PoolInv, PoolTypeOK
    <3> QED BY <2>1, <2>3, <2>4, <2>10, <3>1 DEF PoolInv, PoolTypeOK
  <2>15. (heap = Ptrs(AllBlocks))'
    BY <2>1, <2>11 DEF PoolInv, Ptrs
  <2>16. \E b \in used_blocks' : b.ptr = p /\ b.size >= n
    BY <2>3, <2>10, <1>1 DEF Block
  <2> QED
    BY <2>10, <2>11, <2>12, <2>13, <2>14, <2>15, <2>16 DEF PoolInv, Ptrs
<1>3. CASE AllocateNew(size, p)
  <2> DEFINE blk == [ptr |-> p, size |-> size]
  <2>1. /\ p \in Pointers \ heap
        /\ heap' = heap \cup {p}
        /\ used_blocks' = used_blocks \cup {blk}
        /\ allocated_total' = allocated_total + size
        /\ free_blocks' = free_blocks
    BY <1>3 DEF AllocateNew
  <2>2. blk \in Block /\ blk.ptr = p /\ blk.size = size
    BY <1>1 DEF Block
  <2> HIDE DEF blk
  <2>3. FreeBlocks' = FreeBlocks /\ AllBlocks' = AllBlocks \cup {blk}
    BY <2>1 DEF FreeBlocks, AllBlocks
  <2>4. \A b \in AllBlocks : b.ptr # p
    BY <2>1 DEF PoolInv, Ptrs
  <2>5. ListedOnce'
    <3>1. \A b, c \in used_blocks' : b.ptr = c.ptr => b = c
      BY <2>1, <2>2, <2>4 DEF PoolInv, ListedOnce, AllBlocks
    <3>2. Ptrs(FreeBlocks)' \cap Ptrs(used_blocks)' = {}
      BY <2>1, <2>2, <2>3, <2>4 DEF PoolInv, ListedOnce, Ptrs, AllBlocks
    <3> QED BY <2>1, <3>1, <3>2 DEF PoolInv, ListedOnce
  <2>6. PoolTypeOK'
    <3>1. IsFiniteSet(used_blocks')
      BY <2>1, FS_AddElement DEF PoolInv, PoolTypeOK
    <3> QED BY <2>1, <2>2, <1>1, <3>1 DEF PoolInv, PoolTypeOK
  <2>7. (heap = Ptrs(AllBlocks))'
    BY <2>1, <2>2, <2>3 DEF PoolInv, Ptrs
  <2>8. Grows
    BY <1>3, <2>1, <2>2, <2>3 DEF AllocateNew, Grows
  <2> QED
    BY <2>1, <2>2, <2>4, <2>5, <2>6, <2>7, <2>8, <1>1 DEF PoolInv, Ptrs, AllBlocks
<1> QED BY <1>2, <1>3 DEF acquire, size

\* release() of a buffer in use takes exactly that buffer off the used list.
LEMMA ReleaseStep ==
    ASSUME PoolInv, NEW p \in Ptrs(used_blocks), release(p)
    PROVE  /\ PoolInv'
           /\ Ptrs(used_blocks)' = Ptrs(used_blocks) \ {p}
           /\ \A b \in used_blocks : b.ptr # p => b \in used_blocks'
           /\ AllBlocks' = AllBlocks
<1>1. PICK blk \in used_blocks :
        /\ blk.ptr = p
        /\ free_blocks' = Append(free_blocks, blk)
        /\ used_blocks' = used_blocks \ {blk}
        /\ UNCHANGED <<heap, allocated_total>>
  BY DEF release
<1>2. /\ free_blocks \in Seq(Block) /\ blk \in Block
      /\ Len(free_blocks) \in Nat
      /\ DOMAIN free_blocks = 1 .. Len(free_blocks)
  BY DEF PoolInv, PoolTypeOK
<1>3. /\ free_blocks' \in Seq(Block)
      /\ DOMAIN free_blocks' = 1 .. Len(free_blocks) + 1
      /\ \A j \in 1 .. Len(free_blocks) : free_blocks'[j] = free_blocks[j]
      /\ free_blocks'[Len(free_blocks) + 1] = blk
  <2>1. /\ Append(free_blocks, blk) \in Seq(Block)
        /\ Len(Append(free_blocks, blk)) = Len(free_blocks) + 1
        /\ \A j \in 1 .. Len(free_blocks) : Append(free_blocks, blk)[j] = free_blocks[j]
        /\ Append(free_blocks, blk)[Len(free_blocks) + 1] = blk
    BY <1>2, AppendProperties
  <2> QED BY <1>1, <2>1, LenProperties
<1>4. FreeBlocks' = FreeBlocks \cup {blk}
  <2>1. FreeBlocks' = {free_blocks'[j] : j \in DOMAIN free_blocks'}
    BY DEF FreeBlocks, ToSet
  <2>2. FreeBlocks = {free_blocks[j] : j \in DOMAIN free_blocks}
    BY DEF FreeBlocks, ToSet
  <2>3. \A j \in DOMAIN free_blocks' :
            j \in DOMAIN free_blocks \/ j = Len(free_blocks) + 1
    BY <1>2, <1>3
  <2>4. DOMAIN free_blocks \subseteq DOMAIN free_blocks'
        /\ Len(free_blocks) + 1 \in DOMAIN free_blocks'
    BY <1>2, <1>3
  <2> QED BY <1>2, <1>3, <2>1, <2>2, <2>3, <2>4
<1>5. AllBlocks' = AllBlocks
  BY <1>1, <1>4 DEF AllBlocks
<1>6. Ptrs(used_blocks)' = Ptrs(used_blocks) \ {p}
  BY <1>1 DEF PoolInv, ListedOnce, Ptrs
<1>7. ListedOnce'
  <2>1. \A i, j \in DOMAIN free_blocks' :
            free_blocks'[i].ptr = free_blocks'[j].ptr => i = j
    <3>1. \A i \in DOMAIN free_blocks : free_blocks[i].ptr # p
      <4>1. Ptrs(FreeBlocks) \cap Ptrs(used_blocks) = {}
        BY DEF PoolInv, ListedOnce
      <4>2. \A i \in DOMAIN free_blocks : free_blocks[i] \in FreeBlocks
        BY DEF FreeBlocks, ToSet
      <4>3. \A b \in FreeBlocks : b.ptr \in Ptrs(FreeBlocks)
        BY DEF Ptrs
      <4> QED
        BY <4>1, <4>2, <4>3
    <3>2. \A j \in DOMAIN free_blocks' :
            j \in DOMAIN free_blocks \/ j = Len(free_blocks) + 1
      BY <1>2, <1>3
    <3> QED BY <1>1, <1>2, <1>3, <3>1, <3>2 DEF PoolInv, ListedOnce
  <2>2. \A b, c \in used_blocks' : b.ptr = c.ptr => b = c
    BY <1>1 DEF PoolInv, ListedOnce
  <2>3. Ptrs(FreeBlocks)' \cap Ptrs(used_blocks)' = {}
    BY <1>1, <1>4, <1>6 DEF PoolInv, ListedOnce, Ptrs
  <2> QED BY <2>1, <2>2, <2>3 DEF ListedOnce
<1>8. PoolTypeOK'
  <2>1. IsFiniteSet(used_blocks')
    BY <1>1, FS_RemoveElement DEF PoolInv, PoolTypeOK
  <2> QED BY <1>1, <1>3, <2>1 DEF PoolInv, PoolTypeOK
<1>9. (heap = Ptrs(AllBlocks))'
  BY <1>1, <1>5 DEF PoolInv, Ptrs
<1> QED BY <1>1, <1>5, <1>6, <1>7, <1>8, <1>9 DEF PoolInv

-----------------------------------------------------------------------------
(* The engine calls preserve the invariant.                                 *)

LEMMA InitInv == Init => IInv
<1> SUFFICES ASSUME Init PROVE IInv
  OBVIOUS
<1>1. TypeOK
  BY FS_EmptySet DEF Init, TypeOK, Releasing
<1>2. Loaded = {} /\ Wrapping = {} /\ Releasing = {}
  BY DEF Init, Loaded, Wrapping, Releasing
<1>3. FreeBlocks = {} /\ AllBlocks = {} /\ Ptrs(AllBlocks) = {} /\ Ptrs(used_blocks) = {}
  BY DEF Init, FreeBlocks, AllBlocks, Ptrs, ToSet
<1>4. ListedOnce
  BY <1>3 DEF Init, ListedOnce
<1> QED
  BY <1>1, <1>2, <1>3, <1>4
     DEF IInv, ExclusiveBuffers, ReleasedOnce, NoLeak, FrameFits, HeldPtrs, Init

\* What a live engine's invariant says of its pool.
LEMMA LivePool == IInv /\ alive => PoolInv
BY DEF IInv, TypeOK, NoLeak, PoolInv, PoolTypeOK

LEMMA AcquireDataInv ==
    ASSUME IInv, NEW t \in Threads, NEW n \in RequestSizes, AcquireData(t, n)
    PROVE  IInv'
<1>1. PoolInv /\ alive /\ pc[t] = "idle" /\ n \in Nat
  BY LivePool, SizeAssumption DEF AcquireData
<1>2. PICK p \in Pointers :
        /\ acquire(n, p)
        /\ hold' = [hold EXCEPT ![t] = [data |-> p, data_size |-> n]]
  BY DEF AcquireData
<1>3. /\ pc' = [pc EXCEPT ![t] = "wrap"]
      /\ frames' = frames /\ alive' = alive /\ NoteUse
  BY DEF AcquireData
<1>4. /\ PoolInv'
      /\ p \notin Ptrs(used_blocks)
      /\ Ptrs(used_blocks)' = Ptrs(used_blocks) \cup {p}
      /\ used_blocks \subseteq used_blocks'
      /\ \E b \in used_blocks' : b.ptr = p /\ b.size >= n
  BY <1>1, <1>2, AcquireStep
<1>5. /\ pc \in [Threads -> {"idle", "wrap", "clear", "free"}]
      /\ hold \in [Threads -> FrameRec \cup Frames \cup {NULL}]
  BY DEF IInv, TypeOK
<1> DEFINE held == [data |-> p, data_size |-> n]
<1>6. held \in FrameRec /\ held.data = p /\ held.data # NULL /\ held.data_size = n
  BY <1>1, NullAssumption DEF FrameRec
<1> HIDE DEF held
<1>7. /\ pc'[t] = "wrap" /\ hold'[t] = held
      /\ \A u \in Threads : u # t => pc'[u] = pc[u] /\ hold'[u] = hold[u]
  BY <1>2, <1>3, <1>5 DEF held
<1>8. Loaded' = Loaded /\ Wrapping' = Wrapping \cup {t} /\ Releasing' = Releasing
      /\ t \notin Wrapping /\ t \notin Releasing
  BY <1>1, <1>3, <1>5, <1>7 DEF Loaded, Wrapping, Releasing
<1>9. TypeOK'
  <2>1. max_used' \in Nat
    <3>1. Cardinality(used_blocks') \in Nat
      BY <1>4, FS_CardinalityType DEF PoolInv, PoolTypeOK
    <3> QED BY <1>3, <3>1 DEF NoteUse, IInv, TypeOK
  <2>2. hold' \in [Threads -> FrameRec \cup Frames \cup {NULL}]
        /\ pc' \in [Threads -> {"idle", "wrap", "clear", "free"}]
    BY <1>2, <1>3, <1>5, <1>6 DEF held
  <2>3. \A u \in Threads :
            /\ pc'[u] = "wrap" => hold'[u] \in FrameRec /\ hold'[u].data # NULL
            /\ u \in Releasing' => hold'[u] \in Frames
    BY <1>6, <1>7, <1>8 DEF IInv, TypeOK
  <2> QED
    BY <1>3, <1>4, <2>1, <2>2, <2>3 DEF IInv, TypeOK, PoolInv, PoolTypeOK
<1>10. HeldPtrs' = HeldPtrs \cup {p}
  BY <1>3, <1>6, <1>7, <1>8 DEF HeldPtrs, Wrapping
<1>11. p \notin HeldPtrs
  BY <1>1, <1>4 DEF IInv, NoLeak
<1>12. ExclusiveBuffers'
  <2>1. \A u \in Wrapping : hold'[u] = hold[u] /\ hold[u].data # p
    BY <1>7, <1>8, <1>11 DEF HeldPtrs, Wrapping
  <2>2. \A f \in Loaded : frames[f].data # p
    BY <1>11 DEF HeldPtrs
  <2> QED
    BY <1>3, <1>6, <1>7, <1>8, <2>1, <2>2 DEF IInv, ExclusiveBuffers
<1>13. ReleasedOnce'
  BY <1>3, <1>7, <1>8 DEF IInv, ReleasedOnce, Releasing
<1>14. NoLeak'
  BY <1>1, <1>3, <1>4, <1>10 DEF IInv, NoLeak, PoolInv
<1>15. FrameFits'
  BY <1>1, <1>3, <1>4, <1>6, <1>7, <1>8 DEF IInv, FrameFits, Wrapping
<1> QED
  BY <1>4, <1>9, <1>12, <1>13, <1>14, <1>15 DEF IInv, PoolInv

LEMMA WrapFrameInv ==
    ASSUME IInv, NEW t \in Threads, WrapFrame(t)
    PROVE  IInv'
<1>1. PICK f \in Frames :
        frames[f] = NULL /\ frames' = [frames EXCEPT ![f] = hold[t]]
  BY DEF WrapFrame
<1>2. /\ pc[t] = "wrap"
      /\ hold' = [hold EXCEPT ![t] = NULL]
      /\ pc' = [pc EXCEPT ![t] = "idle"]
      /\ UNCHANGED <<poolVars, alive, max_used>>
  BY DEF WrapFrame
<1>3. /\ pc \in [Threads -> {"idle", "wrap", "clear", "free"}]
      /\ hold \in [Threads -> FrameRec \cup Frames \cup {NULL}]
      /\ frames \in [Frames -> FrameRec \cup {NULL}]
      /\ hold[t] \in FrameRec /\ hold[t].data # NULL /\ hold[t] # NULL
  BY <1>2, NullAssumption DEF IInv, TypeOK, FrameRec
<1>4. /\ pc'[t] = "idle"
      /\ \A u \in Threads : u # t => pc'[u] = pc[u] /\ hold'[u] = hold[u]
      /\ frames'[f] = hold[t]
      /\ \A g \in Frames : g # f => frames'[g] = frames[g]
  BY <1>1, <1>2, <1>3
<1>5. /\ Loaded' = Loaded \cup {f} /\ f \notin Loaded
      /\ Wrapping' = Wrapping \ {t} /\ t \in Wrapping
      /\ Releasing' = Releasing /\ t \notin Releasing
  <2>1. /\ Wrapping' = Wrapping \ {t} /\ t \in Wrapping
        /\ Releasing' = Releasing /\ t \notin Releasing
    BY <1>2, <1>4 DEF Wrapping, Releasing
  <2>2. \A u \in Releasing : u # t /\ hold'[u] = hold[u] /\ hold[u] # f
    BY <1>1, <1>4, <2>1 DEF IInv, ReleasedOnce, Releasing
  <2>3. frames'[f] # NULL
    BY <1>3, <1>4
  <2> QED BY <1>1, <1>4, <2>1, <2>2, <2>3 DEF Loaded
<1>6. TypeOK'
  <2>1. /\ frames' \in [Frames -> FrameRec \cup {NULL}]
        /\ hold' \in [Threads -> FrameRec \cup Frames \cup {NULL}]
        /\ pc' \in [Threads -> {"idle", "wrap", "clear", "free"}]
    BY <1>1, <1>2, <1>3
  <2>2. \A u \in Threads :
            /\ pc'[u] = "wrap" => hold'[u] \in FrameRec /\ hold'[u].data # NULL
            /\ u \in Releasing' => hold'[u] \in Frames
    BY <1>4, <1>5 DEF IInv, TypeOK
  <2> QED BY <1>2, <2>1, <2>2 DEF IInv, TypeOK, poolVars
<1>7. HeldPtrs' = HeldPtrs
  <2>1. {frames'[g].data : g \in Loaded'}
            = {frames[g].data : g \in Loaded} \cup {hold[t].data}
    BY <1>4, <1>5 DEF Loaded
  <2>2. {hold[u].data : u \in Wrapping}
            = {hold'[u].data : u \in Wrapping'} \cup {hold[t].data}
    BY <1>4, <1>5 DEF Wrapping
  <2> QED BY <2>1, <2>2 DEF HeldPtrs
<1>8. ListedOnce' /\ NoLeak'
  BY <1>2, <1>7 DEF IInv, ListedOnce, NoLeak, poolVars, FreeBlocks, AllBlocks, Ptrs
<1>9. ExclusiveBuffers'
  <2>1. \A u \in Wrapping' : hold'[u] = hold[u] /\ u \in Wrapping /\ u # t
    BY <1>4, <1>5 DEF Wrapping
  <2>2. \A g \in Loaded : frames'[g] = frames[g] /\ g # f
    BY <1>4, <1>5 DEF Loaded
  <2> QED BY <1>4, <1>5, <2>1, <2>2 DEF IInv, ExclusiveBuffers
<1>10. ReleasedOnce'
  <2>1. \A u \in Releasing : hold'[u] = hold[u] /\ hold[u] \in Frames /\ hold[u] # f
    BY <1>1, <1>4, <1>5 DEF IInv, ReleasedOnce, TypeOK, Releasing
  <2> QED BY <1>4, <1>5, <2>1 DEF IInv, ReleasedOnce
<1>11. FrameFits'
  <2>1. \A u \in Wrapping' : hold'[u] = hold[u] /\ u \in Wrapping
    BY <1>4, <1>5 DEF Wrapping
  <2>2. \A g \in Loaded : frames'[g] = frames[g]
    BY <1>4, <1>5 DEF Loaded
  <2> QED BY <1>2, <1>4, <1>5, <2>1, <2>2 DEF IInv, FrameFits, poolVars
<1> QED BY <1>6, <1>8, <1>9, <1>10, <1>11 DEF IInv

LEMMA WrapFailsInv ==
    ASSUME IInv, NEW t \in Threads, WrapFails(t)
    PROVE  IInv'
<1> DEFINE p == hold[t].data
<1>1. /\ alive /\ pc[t] = "wrap" /\ release(p)
      /\ hold' = [hold EXCEPT ![t] = NULL]
      /\ pc' = [pc EXCEPT ![t] = "idle"]
      /\ frames' = frames /\ alive' = alive /\ max_used' = max_used
  BY DEF WrapFails
<1>2. /\ pc \in [Threads -> {"idle", "wrap", "clear", "free"}]
      /\ hold \in [Threads -> FrameRec \cup Frames \cup {NULL}]
  BY DEF IInv, TypeOK
<1>3. /\ pc'[t] = "idle"
      /\ \A u \in Threads : u # t => pc'[u] = pc[u] /\ hold'[u] = hold[u]
  BY <1>1, <1>2
<1>4. /\ Loaded' = Loaded
      /\ Wrapping' = Wrapping \ {t} /\ t \in Wrapping
      /\ Releasing' = Releasing /\ t \notin Releasing
  BY <1>1, <1>2, <1>3 DEF Loaded, Wrapping, Releasing
<1>5. p \in Ptrs(used_blocks)
  BY <1>1, <1>4 DEF IInv, NoLeak, HeldPtrs
<1> HIDE DEF p
<1>6. /\ PoolInv'
      /\ Ptrs(used_blocks)' = Ptrs(used_blocks) \ {p}
      /\ \A b \in used_blocks : b.ptr # p => b \in used_blocks'
  BY <1>1, <1>5, LivePool, ReleaseStep
<1>7. TypeOK'
  <2>1. /\ hold' \in [Threads -> FrameRec \cup Frames \cup {NULL}]
        /\ pc' \in [Threads -> {"idle", "wrap", "clear", "free"}]
    BY <1>1, <1>2
  <2>2. \A u \in Threads :
            /\ pc'[u] = "wrap" => hold'[u] \in FrameRec /\ hold'[u].data # NULL
            /\ u \in Releasing' => hold'[u] \in Frames
    BY <1>3, <1>4 DEF IInv, TypeOK
  <2> QED BY <1>1, <1>6, <2>1, <2>2 DEF IInv, TypeOK, PoolInv, PoolTypeOK
<1>8. /\ \A u \in Wrapping' : hold'[u] = hold[u] /\ u \in Wrapping /\ hold[u].data # p
      /\ \A f \in Loaded : frames[f].data # p
  BY <1>3, <1>4 DEF IInv, ExclusiveBuffers, Wrapping, p
<1>9. HeldPtrs' = HeldPtrs \ {p}
  <2>1. {hold'[u].data : u \in Wrapping'} = {hold[u].data : u \in Wrapping} \ {p}
    BY <1>4, <1>8 DEF p
  <2> QED BY <1>1, <1>4, <1>8, <2>1 DEF HeldPtrs
<1>10. NoLeak'
  BY <1>1, <1>6, <1>9 DEF IInv, NoLeak, PoolInv
<1>11. ExclusiveBuffers'
  BY <1>1, <1>4, <1>8 DEF IInv, ExclusiveBuffers
<1>12. ReleasedOnce'
  BY <1>1, <1>3, <1>4 DEF IInv, ReleasedOnce, Releasing
<1>13. FrameFits'
  BY <1>1, <1>4, <1>6, <1>8 DEF IInv, FrameFits
<1> QED
  BY <1>6, <1>7, <1>10, <1>11, <1>12, <1>13 DEF IInv, PoolInv

LEMMA ReleaseDataInv ==
    ASSUME IInv, NEW t \in Threads, NEW f \in Frames, ReleaseData(t, f)
    PROVE  IInv'
<1> DEFINE p == frames[f].data
<1>1. /\ alive /\ pc[t] = "idle" /\ release(p)
      /\ f \in Loaded
      /\ frames' = frames
      /\ hold' = [hold EXCEPT ![t] = f]
      /\ pc' = [pc EXCEPT ![t] = "clear"]
      /\ alive' = alive /\ max_used' = max_used
  BY DEF ReleaseData
<1>2. /\ pc \in [Threads -> {"idle", "wrap", "clear", "free"}]
      /\ hold \in [Threads -> FrameRec \cup Frames \cup {NULL}]
      /\ frames \in [Frames -> FrameRec \cup {NULL}]
  BY DEF IInv, TypeOK
<1>3. /\ pc'[t] = "clear" /\ hold'[t] = f
      /\ \A u \in Threads : u # t => pc'[u] = pc[u] /\ hold'[u] = hold[u]
  BY <1>1, <1>2
<1>4. /\ Wrapping' = Wrapping /\ t \notin Wrapping
      /\ Releasing' = Releasing \cup {t} /\ t \notin Releasing
  BY <1>1, <1>3 DEF Wrapping, Releasing
<1>5. Loaded' = Loaded \ {f}
  BY <1>1, <1>3, <1>4 DEF Loaded
<1>6. p \in Ptrs(used_blocks)
  BY <1>1 DEF IInv, NoLeak, HeldPtrs
<1> HIDE DEF p
<1>7. /\ PoolInv'
      /\ Ptrs(used_blocks)' = Ptrs(used_blocks) \ {p}
      /\ \A b \in used_blocks : b.ptr # p => b \in used_blocks'
  BY <1>1, <1>6, LivePool, ReleaseStep
<1>8. TypeOK'
  <2>1. /\ hold' \in [Threads -> FrameRec \cup Frames \cup {NULL}]
        /\ pc' \in [Threads -> {"idle", "wrap", "clear", "free"}]
    BY <1>1, <1>2
  <2>2. \A u \in Threads :
            /\ pc'[u] = "wrap" => hold'[u] \in FrameRec /\ hold'[u].data # NULL
            /\ u \in Releasing' => hold'[u] \in Frames
    BY <1>3, <1>4 DEF IInv, TypeOK
  <2> QED BY <1>1, <1>2, <1>7, <2>1, <2>2 DEF IInv, TypeOK, PoolInv, PoolTypeOK
<1>9. /\ \A u \in Wrapping : hold'[u] = hold[u] /\ hold[u].data # p
      /\ \A g \in Loaded' : frames'[g] = frames[g] /\ g \in Loaded /\ frames[g].data # p
  BY <1>1, <1>3, <1>4, <1>5 DEF IInv, ExclusiveBuffers, Wrapping, p
<1>10. HeldPtrs' = HeldPtrs \ {p}
  <2>1. {frames'[g].data : g \in Loaded'} = {frames[g].data : g \in Loaded} \ {p}
    BY <1>5, <1>9 DEF p
  <2>2. {hold'[u].data : u \in Wrapping'} = {hold[u].data : u \in Wrapping} \ {p}
    BY <1>4, <1>9
  <2> QED BY <2>1, <2>2 DEF HeldPtrs
<1>11. NoLeak'
  BY <1>1, <1>7, <1>10 DEF IInv, NoLeak, PoolInv
<1>12. ExclusiveBuffers'
  BY <1>4, <1>9 DEF IInv, ExclusiveBuffers
<1>13. ReleasedOnce'
  <2>1. \A u \in Releasing : hold'[u] = hold[u] /\ frames[hold[u]] # NULL /\ hold[u] # f
    BY <1>1, <1>3, <1>4 DEF IInv, ReleasedOnce, Loaded, Releasing
  <2>2. frames[f] # NULL
    BY <1>1 DEF Loaded
  <2>3. \A u, v \in Releasing' : hold'[u] = hold'[v] => u = v
    BY <1>3, <1>4, <2>1 DEF IInv, ReleasedOnce
  <2> QED BY <1>1, <1>3, <1>4, <2>1, <2>2, <2>3 DEF ReleasedOnce
<1>14. FrameFits'
  BY <1>1, <1>4, <1>7, <1>9 DEF IInv, FrameFits
<1> QED
  BY <1>7, <1>8, <1>11, <1>12, <1>13, <1>14 DEF IInv, PoolInv

\* Nobody else looks at the wrapper a thread is giving back.
LEMMA ReleasingStep ==
    ASSUME IInv, NEW t \in Releasing, NEW r, UNCHANGED <<poolVars, alive, max_used>>,
           frames' = [frames EXCEPT ![hold[t]] = r],
           r \in FrameRec \cup {NULL},
           Loaded' = Loaded, Wrapping' = Wrapping,
           \A u \in Wrapping : hold'[u] = hold[u]
    PROVE  /\ frames' \in [Frames -> FrameRec \cup {NULL}]
           /\ frames'[hold[t]] = r
           /\ \A g \in Frames : g # hold[t] => frames'[g] = frames[g]
           /\ ListedOnce' /\ NoLeak' /\ ExclusiveBuffers' /\ FrameFits'
<1>1. t \in Threads /\ hold[t] \in Frames /\ hold[t] \notin Loaded
  BY DEF IInv, TypeOK, Releasing, Loaded
<1>2. frames \in [Frames -> FrameRec \cup {NULL}]
  BY DEF IInv, TypeOK
<1>3. /\ frames' \in [Frames -> FrameRec \cup {NULL}]
      /\ frames'[hold[t]] = r
      /\ \A g \in Frames : g # hold[t] => frames'[g] = frames[g]
  BY <1>1, <1>2
<1>4. \A g \in Loaded : frames'[g] = frames[g]
  BY <1>1, <1>3 DEF Loaded
<1>5. HeldPtrs' = HeldPtrs
  BY <1>4 DEF HeldPtrs
<1>6. ListedOnce' /\ NoLeak'
  BY <1>5 DEF IInv, ListedOnce, NoLeak, poolVars, FreeBlocks, AllBlocks, Ptrs
<1>7. ExclusiveBuffers'
  BY <1>4 DEF IInv, ExclusiveBuffers
<1>8. FrameFits'
  BY <1>4 DEF IInv, FrameFits, poolVars
<1> QED BY <1>3, <1>6, <1>7, <1>8

LEMMA ClearDataInv ==
    ASSUME IInv, NEW t \in Threads, ClearData(t)
    PROVE  IInv'
<1> DEFINE empty == [data |-> NULL, data_size |-> 0]
<1>1. /\ pc[t] = "clear" /\ t \in Releasing
      /\ frames' = [frames EXCEPT ![hold[t]] = empty]
      /\ pc' = [pc EXCEPT ![t] = "free"]
      /\ UNCHANGED <<poolVars, hold, alive, max_used>>
  BY DEF ClearData, Releasing
<1>2. empty \in FrameRec /\ empty # NULL
  BY NullAssumption DEF FrameRec
<1> HIDE DEF empty
<1>3. /\ pc \in [Threads -> {"idle", "wrap", "clear", "free"}]
      /\ frames \in [Frames -> FrameRec \cup {NULL}]
      /\ hold[t] \in Frames /\ frames[hold[t]] # NULL
  BY <1>1 DEF IInv, TypeOK, ReleasedOnce
<1>4. Releasing' = Releasing /\ Wrapping' = Wrapping
  BY <1>1, <1>3 DEF Releasing, Wrapping
<1>5. \A g \in Frames : frames'[g] = NULL <=> frames[g] = NULL
  BY <1>1, <1>2, <1>3
<1>6. Loaded' = Loaded
  BY <1>1, <1>4, <1>5 DEF Loaded
<1>7. /\ frames' \in [Frames -> FrameRec \cup {NULL}]
      /\ ListedOnce' /\ NoLeak' /\ ExclusiveBuffers' /\ FrameFits'
  BY <1>1, <1>2, <1>4, <1>6, ReleasingStep
<1>8. TypeOK'
  <2>1. pc' \in [Threads -> {"idle", "wrap", "clear", "free"}]
    BY <1>1, <1>3
  <2>2. \A u \in Threads :
            /\ pc'[u] = "wrap" => hold'[u] \in FrameRec /\ hold'[u].data # NULL
            /\ u \in Releasing' => hold'[u] \in Frames
    BY <1>1, <1>3, <1>4 DEF IInv, TypeOK
  <2> QED BY <1>1, <1>7, <2>1, <2>2 DEF IInv, TypeOK, poolVars
<1>9. ReleasedOnce'
  BY <1>1, <1>4, <1>5 DEF IInv, TypeOK, ReleasedOnce, Releasing
<1> QED BY <1>7, <1>8, <1>9 DEF IInv

LEMMA FreeFrameInv ==
    ASSUME IInv, NEW t \in Threads, FreeFrame(t)
    PROVE  IInv'
<1> DEFINE f == hold[t]
<1>1. /\ pc[t] = "free" /\ t \in Releasing
      /\ frames' = [frames EXCEPT ![f] = NULL]
      /\ hold' = [hold EXCEPT ![t] = NULL]
      /\ pc' = [pc EXCEPT ![t] = "idle"]
      /\ UNCHANGED <<poolVars, alive, max_used>>
  BY DEF FreeFrame, Releasing
<1>2. /\ pc \in [Threads -> {"idle", "wrap", "clear", "free"}]
      /\ hold \in [Threads -> FrameRec \cup Frames \cup {NULL}]
      /\ frames \in [Frames -> FrameRec \cup {NULL}]
      /\ f \in Frames
  BY <1>1 DEF IInv, TypeOK
<1>3. \A u \in Releasing : u # t => hold[u] # f
  BY <1>1 DEF IInv, ReleasedOnce
<1>4. /\ pc'[t] = "idle" /\ hold'[t] = NULL
      /\ \A u \in Threads : u # t => pc'[u] = pc[u] /\ hold'[u] = hold[u]
  BY <1>1, <1>2
<1>5. /\ Wrapping' = Wrapping /\ t \notin Wrapping
      /\ Releasing' = Releasing \ {t}
      /\ \A u \in Wrapping : hold'[u] = hold[u]
  BY <1>1, <1>4 DEF Wrapping, Releasing
<1>6. Loaded' = Loaded
  <2>1. frames'[f] = NULL /\ \A g \in Frames : g # f => frames'[g] = frames[g]
    BY <1>1, <1>2
  <2>2. f \notin Loaded
    BY <1>1 DEF Loaded
  <2>3. \A u \in Releasing' : u # t /\ hold'[u] = hold[u]
    BY <1>4, <1>5 DEF Releasing
  <2>4. \A g \in Frames : g # f =>
            ((\A u \in Releasing' : hold'[u] # g) <=> (\A u \in Releasing : hold[u] # g))
    BY <1>5, <2>3
  <2> QED BY <2>1, <2>2, <2>4 DEF Loaded
<1>7. /\ frames' \in [Frames -> FrameRec \cup {NULL}]
      /\ \A g \in Frames : g # f => frames'[g] = frames[g]
      /\ ListedOnce' /\ NoLeak' /\ ExclusiveBuffers' /\ FrameFits'
  BY <1>1, <1>5, <1>6, ReleasingStep
<1> HIDE DEF f
<1>8. TypeOK'
  <2>1. /\ hold' \in [Threads -> FrameRec \cup Frames \cup {NULL}]
        /\ pc' \in [Threads -> {"idle", "wrap", "clear", "free"}]
    BY <1>1, <1>2
  <2>2. \A u \in Threads :
            /\ pc'[u] = "wrap" => hold'[u] \in FrameRec /\ hold'[u].data # NULL
            /\ u \in Releasing' => hold'[u] \in Frames
    BY <1>4, <1>5 DEF IInv, TypeOK
  <2> QED BY <1>1, <1>7, <2>1, <2>2 DEF IInv, TypeOK, poolVars
<1>9. ReleasedOnce'
  <2>1. \A u \in Releasing' : hold'[u] = hold[u] /\ u \in Releasing /\ hold[u] # f
            /\ hold[u] \in Frames
    BY <1>3, <1>4, <1>5 DEF IInv, TypeOK, Releasing
  <2> QED BY <1>7, <2>1 DEF IInv, ReleasedOnce
<1> QED BY <1>7, <1>8, <1>9 DEF IInv

LEMMA EngineDestroyInv ==
    ASSUME IInv, EngineDestroy
    PROVE  IInv'
<1>1. /\ heap' = heap \ Ptrs(AllBlocks)
      /\ free_blocks' = <<>> /\ used_blocks' = {} /\ allocated_total' = 0
      /\ alive' = FALSE
      /\ UNCHANGED <<frames, pc, hold, max_used>>
  BY DEF EngineDestroy
<1>2. TypeOK'
  <2>1. IsFiniteSet(used_blocks') /\ free_blocks' \in Seq(Block)
    BY <1>1, FS_EmptySet, EmptySeq
  <2> QED BY <1>1, <2>1 DEF IInv, TypeOK, Releasing
<1>3. ListedOnce'
  BY <1>1 DEF ListedOnce, FreeBlocks, ToSet, Ptrs
<1>4. ExclusiveBuffers' /\ ReleasedOnce'
  BY <1>1 DEF IInv, ExclusiveBuffers, ReleasedOnce, Loaded, Wrapping, Releasing
<1>5. NoLeak' /\ FrameFits'
  BY <1>1 DEF NoLeak, FrameFits
<1> QED
  BY <1>2, <1>3, <1>4, <1>5 DEF IInv

LEMMA StutterInv ==
    ASSUME IInv, UNCHANGED vars
    PROVE  IInv'
<1>1. TypeOK'
  BY DEF IInv, TypeOK, Releasing, vars, poolVars
<1>2. ListedOnce'
  BY DEF IInv, ListedOnce, vars, poolVars, FreeBlocks, Ptrs
<1>3. ExclusiveBuffers' /\ ReleasedOnce'
  BY DEF IInv, ExclusiveBuffers, ReleasedOnce, Loaded, Wrapping, Releasing, vars
<1>4. NoLeak'
  BY DEF IInv, NoLeak, HeldPtrs, Loaded, Wrapping, Releasing, FreeBlocks, AllBlocks, Ptrs,
         vars, poolVars
<1>5. FrameFits'
  BY DEF IInv, FrameFits, Loaded, Wrapping, Releasing, vars, poolVars
<1> QED BY <1>1, <1>2, <1>3, <1>4, <1>5 DEF IInv

LEMMA NextInv == IInv /\ [Next]_vars => IInv'
<1> SUFFICES ASSUME IInv, [Next]_vars PROVE IInv'
  OBVIOUS
<1>1. ASSUME NEW t \in Threads, NEW n \in RequestSizes, AcquireData(t, n)
      PROVE  IInv'
  BY <1>1, AcquireDataInv
<1>2. ASSUME NEW t \in Threads, WrapFrame(t) PROVE IInv'
  BY <1>2, WrapFrameInv
<1>3. ASSUME NEW t \in Threads, WrapFails(t) PROVE IInv'
  BY <1>3, WrapFailsInv
<1>4. ASSUME NEW t \in Threads, NEW f \in Frames, ReleaseData(t, f)
      PROVE  IInv'
  BY <1>4, ReleaseDataInv
<1>5. ASSUME NEW t \in Threads, ClearData(t) PROVE IInv'
  BY <1>5, ClearDataInv
<1>6. ASSUME NEW t \in Threads, FreeFrame(t) PROVE IInv'
  BY <1>6, FreeFrameInv
<1>7. CASE EngineDestroy
  BY <1>7, EngineDestroyInv
<1>8. CASE UNCHANGED vars
  BY <1>8, StutterInv
<1> QED BY <1>1, <1>2, <1>3, <1>4, <1>5, <1>6, <1>7, <1>8 DEF Next

\* Every reachable state satisfies the inductive invariant.
THEOREM Invariance == Spec => []IInv
BY InitInv, NextInv, PTL DEF Spec

\* The variables keep their types.
THEOREM TypeCorrect == Spec => []TypeOK
<1>1. IInv => TypeOK
  BY DEF IInv
<1> QED BY <1>1, Invariance, PTL

\* A block is never on two of the pool's lists, nor twice on one.
THEOREM BlocksListedOnce == Spec => []ListedOnce
<1>1. IInv => ListedOnce
  BY DEF IInv
<1> QED BY <1>1, Invariance, PTL

\* Whatever the threads do, two holders never share a buffer.
THEOREM BuffersAreExclusive == Spec => []ExclusiveBuffers
<1>1. IInv => ExclusiveBuffers
  BY DEF IInv
<1> QED BY <1>1, Invariance, PTL

\* The pool's used list is what the callers hold; its blocks are its heap.
THEOREM NothingLeaks == Spec => []NoLeak
<1>1. IInv => NoLeak
  BY DEF IInv
<1> QED BY <1>1, Invariance, PTL

\* A recycled block always covers the frame it is given to.
THEOREM RecycledBlocksFit == Spec => []FrameFits
<1>1. IInv => FrameFits
  BY DEF IInv
<1> QED BY <1>1, Invariance, PTL

-----------------------------------------------------------------------------
(* The pool's growth.                                                       *)

OfSize(blocks, s) == {b \in blocks : b.size = s}

LEMMA BlocksAreFinite == PoolInv => IsFiniteSet(AllBlocks) /\ AllBlocks \subseteq Block
<1> SUFFICES ASSUME PoolInv PROVE IsFiniteSet(AllBlocks) /\ AllBlocks \subseteq Block
  OBVIOUS
<1>1. free_blocks \in Seq(Block) /\ IsFiniteSet(used_blocks) /\ used_blocks \subseteq Block
  BY DEF PoolInv, PoolTypeOK
<1>2. /\ free_blocks \in [1 .. Len(free_blocks) -> Block] /\ Len(free_blocks) \in Nat
      /\ DOMAIN free_blocks = 1 .. Len(free_blocks)
  BY <1>1, LenProperties
<1>3. free_blocks \in Surjection(1 .. Len(free_blocks), FreeBlocks) /\ FreeBlocks \subseteq Block
  BY <1>2 DEF FreeBlocks, ToSet, Surjection
<1>4. IsFiniteSet(FreeBlocks)
  BY <1>2, <1>3, FS_Interval, FS_Surjection
<1> QED BY <1>1, <1>3, <1>4, FS_Union DEF AllBlocks

\* A pool that grows has all its blocks of the new one's size in use, and that
\* is a moment that counts for the peak.
LEMMA AcquireGrowth ==
    ASSUME IInv, GrowthBoundedByPeak, NEW t \in Threads, NEW n \in RequestSizes,
           AcquireData(t, n)
    PROVE  GrowthBoundedByPeak'
<1>1. PoolInv /\ n \in Nat /\ max_used \in Nat
  BY LivePool, SizeAssumption DEF AcquireData, IInv, TypeOK
<1>2. PICK p \in Pointers : acquire(n, p)
  BY DEF AcquireData
<1>3. PoolInv' /\ (AllBlocks' = AllBlocks \/ Grows)
  BY <1>1, <1>2, AcquireStep
<1>4. /\ IsFiniteSet(AllBlocks) /\ IsFiniteSet(AllBlocks')
      /\ AllBlocks \subseteq Block /\ AllBlocks' \subseteq Block
  <2>1. PoolInv' => (IsFiniteSet(AllBlocks) /\ AllBlocks \subseteq Block)'
    BY BlocksAreFinite, PTL
  <2> QED BY <2>1, <1>1, <1>3, BlocksAreFinite
<1>5. /\ IsFiniteSet(used_blocks') /\ used_blocks' \subseteq AllBlocks'
      /\ Cardinality(used_blocks') \in Nat
  BY <1>3, FS_CardinalityType DEF PoolInv, PoolTypeOK, AllBlocks
<1>6. max_used' \in Nat /\ max_used <= max_used' /\ Cardinality(used_blocks') <= max_used'
  BY <1>1, <1>5 DEF AcquireData, NoteUse
<1>7. ASSUME NEW s \in {b.size : b \in AllBlocks'}
      PROVE  Cardinality(OfSize(AllBlocks', s)) <= max_used'
  <2>1. CASE OfSize(AllBlocks', s) = OfSize(AllBlocks, s)
    <3>1. s \in {b.size : b \in AllBlocks}
      BY <2>1, <1>7 DEF OfSize
    <3>2. Cardinality(OfSize(AllBlocks, s)) <= max_used
      BY <3>1 DEF GrowthBoundedByPeak, OfSize
    <3>3. Cardinality(OfSize(AllBlocks, s)) \in Nat
      BY <1>4, FS_Subset, FS_CardinalityType DEF OfSize
    <3> QED BY <2>1, <3>2, <3>3, <1>1, <1>6
  <2>2. CASE OfSize(AllBlocks', s) # OfSize(AllBlocks, s)
    <3>1. PICK blk \in used_blocks' :
              /\ AllBlocks' = AllBlocks \cup {blk} /\ Fits(blk.size) = {}
              /\ used_blocks' = used_blocks \cup {blk} /\ blk \in Block
      BY <1>3, <2>2 DEF Grows
    <3>2. s = blk.size
      BY <2>2, <3>1 DEF OfSize
    <3>3. \A b \in FreeBlocks : b.size # s
      <4>1. \A i \in DOMAIN free_blocks : ~ free_blocks[i].size >= s
        BY <3>1, <3>2 DEF Fits
      <4>2. s \in Nat /\ s >= s
        BY <3>1, <3>2 DEF Block
      <4> QED BY <4>1, <4>2 DEF FreeBlocks, ToSet
    <3>4. OfSize(AllBlocks', s) \subseteq used_blocks'
      BY <3>1, <3>3 DEF OfSize, AllBlocks
    <3>5. /\ Cardinality(OfSize(AllBlocks', s)) <= Cardinality(used_blocks')
          /\ Cardinality(OfSize(AllBlocks', s)) \in Nat
      BY <3>4, <1>5, FS_Subset, FS_CardinalityType
    <3> QED BY <3>5, <1>5, <1>6
  <2> QED BY <2>1, <2>2
<1> QED BY <1>7 DEF GrowthBoundedByPeak, OfSize

\* A block that is given back stays the pool's.
LEMMA ReleaseKeepsBlocks ==
    ASSUME PoolInv, NEW p, release(p)
    PROVE  AllBlocks' = AllBlocks
<1>1. CASE p \in Ptrs(used_blocks)
  BY <1>1, ReleaseStep
<1>2. CASE p \notin Ptrs(used_blocks)
  BY <1>2 DEF release, Ptrs, poolVars, AllBlocks, FreeBlocks
<1> QED BY <1>1, <1>2

\* For any demand the callers make, the pool never owns more blocks of a size
\* than were in use at once.
THEOREM GrowthIsBounded == Spec => []GrowthBoundedByPeak
<1>1. Init => GrowthBoundedByPeak
  BY DEF Init, GrowthBoundedByPeak, AllBlocks, FreeBlocks, ToSet
<1>2. IInv /\ GrowthBoundedByPeak /\ [Next]_vars => GrowthBoundedByPeak'
  <2> SUFFICES ASSUME IInv, GrowthBoundedByPeak, [Next]_vars
               PROVE  GrowthBoundedByPeak'
    OBVIOUS
  <2>1. ASSUME NEW t \in Threads, NEW n \in RequestSizes, AcquireData(t, n)
        PROVE  GrowthBoundedByPeak'
    BY <2>1, AcquireGrowth
  <2>2. ASSUME AllBlocks' = AllBlocks, max_used' = max_used
        PROVE  GrowthBoundedByPeak'
    BY <2>2 DEF GrowthBoundedByPeak
  <2>3. ASSUME NEW t \in Threads, WrapFrame(t) \/ ClearData(t) \/ FreeFrame(t)
        PROVE  GrowthBoundedByPeak'
    BY <2>2, <2>3 DEF WrapFrame, ClearData, FreeFrame, poolVars, AllBlocks, FreeBlocks
  <2>4. ASSUME NEW t \in Threads, WrapFails(t) PROVE GrowthBoundedByPeak'
    BY <2>2, <2>4, LivePool, ReleaseKeepsBlocks DEF WrapFails
  <2>5. ASSUME NEW t \in Threads, NEW f \in Frames, ReleaseData(t, f)
        PROVE  GrowthBoundedByPeak'
    BY <2>2, <2>5, LivePool, ReleaseKeepsBlocks DEF ReleaseData
  <2>6. CASE EngineDestroy
    BY <2>6 DEF EngineDestroy, GrowthBoundedByPeak, AllBlocks, FreeBlocks, ToSet
  <2>7. CASE UNCHANGED vars
    BY <2>2, <2>7 DEF vars, poolVars, AllBlocks, FreeBlocks
  <2> QED BY <2>1, <2>3, <2>4, <2>5, <2>6, <2>7 DEF Next
<1> QED BY <1>1, <1>2, Invariance, PTL DEF Spec
=============================================================================
