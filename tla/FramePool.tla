----------------------------- MODULE FramePool -----------------------------
(***************************************************************************)
(* The frame pool of the native engine (gopost_core): the allocator that   *)
(* recycles 64-byte aligned buffers (core/allocator.cpp) and the engine    *)
(* calls that wrap a buffer in a GopostFrame (core/engine.cpp).            *)
(*                                                                         *)
(* Every method of the allocator runs under its mutex, so it is one step.  *)
(* The engine calls are not: between the pool's answer and the wrapper's   *)
(* malloc, and between the return of the buffer, the clearing of the       *)
(* pointer to it and the free of the wrapper, any other thread may run.     *)
(***************************************************************************)
EXTENDS Naturals, Sequences, FiniteSets, SequencesExt

CONSTANTS
    Threads,        \* threads that call the engine
    Frames,         \* addresses malloc gives to GopostFrame wrappers
    Pointers,       \* addresses the system allocator gives to buffers
    RequestSizes,   \* sizes frame_buffer_size() computes for a frame
    kAlignment,     \* alignment of a block, in bytes
    NULL            \* the null pointer

ASSUME SizeAssumption ==
    /\ kAlignment \in Nat \ {0}
    /\ RequestSizes \subseteq Nat

ASSUME NullAssumption ==
    /\ NULL \notin Pointers
    /\ NULL \notin [data : Pointers \cup {NULL}, data_size : Nat]

VARIABLES
    heap,            \* buffers obtained from the system allocator, not freed
    free_blocks,     \* the pool's free list, searched from the front
    used_blocks,     \* the pool's used list (searched by ptr: order is moot)
    allocated_total, \* bytes ever allocated by the pool
    frames,          \* live GopostFrame wrappers: [data, data_size], or NULL
    pc,              \* where each thread is in an engine call
    hold,            \* what each thread holds between the steps of a call
    alive,           \* the engine has not been destroyed
    max_used         \* history: the most blocks ever in use at one time

poolVars == <<heap, free_blocks, used_blocks, allocated_total>>
vars == <<poolVars, frames, pc, hold, alive, max_used>>

Block == [ptr : Pointers, size : Nat]

FrameRec == [data : Pointers \cup {NULL}, data_size : Nat]

-----------------------------------------------------------------------------
(* The allocator.                                                          *)

\* align_size(): round up to a multiple of the alignment.
align_size(n) == ((n + kAlignment - 1) \div kAlignment) * kAlignment

FreeBlocks == ToSet(free_blocks)
AllBlocks == FreeBlocks \cup used_blocks
Ptrs(blocks) == {b.ptr : b \in blocks}

\* Fault: the size of a free block is not compared.
Fits_AnySize(size) == DOMAIN free_blocks

Fits(size) == {i \in DOMAIN free_blocks : free_blocks[i].size >= size}

\* Fault: the block taken stays on the free list.
TakeFirstFit_NoErase(size, p) ==
    \E i \in Fits(size) :
        /\ p = free_blocks[i].ptr
        /\ used_blocks' = used_blocks \cup {free_blocks[i]}
        /\ UNCHANGED <<heap, free_blocks, allocated_total>>

\* The first free block that is large enough moves to the used list whole.
TakeFirstFit(size, p) ==
    \E i \in Fits(size) :
        /\ \A j \in Fits(size) : i <= j
        /\ p = free_blocks[i].ptr
        /\ used_blocks' = used_blocks \cup {free_blocks[i]}
        /\ free_blocks' = RemoveAt(free_blocks, i)
        /\ UNCHANGED <<heap, allocated_total>>

\* Fault: a new buffer is taken although a free block fits.
AllocateNew_Always(size, p) ==
    /\ p \in Pointers \ heap
    /\ heap' = heap \cup {p}
    /\ used_blocks' = used_blocks \cup {[ptr |-> p, size |-> size]}
    /\ allocated_total' = allocated_total + size
    /\ UNCHANGED free_blocks

\* No free block fits: a new buffer from the system, whatever pool_size_ is.
AllocateNew(size, p) ==
    /\ Fits(size) = {}
    /\ p \in Pointers \ heap
    /\ heap' = heap \cup {p}
    /\ used_blocks' = used_blocks \cup {[ptr |-> p, size |-> size]}
    /\ allocated_total' = allocated_total + size
    /\ UNCHANGED free_blocks

acquire(n, p) ==
    \/ TakeFirstFit(align_size(n), p)
    \/ AllocateNew(align_size(n), p)

\* Fault: the block returned stays on the used list.
release_NoErase(p) ==
    \/ \E b \in used_blocks :
        /\ b.ptr = p
        /\ free_blocks' = Append(free_blocks, b)
        /\ UNCHANGED <<heap, used_blocks, allocated_total>>
    \/ /\ p \notin Ptrs(used_blocks)
       /\ UNCHANGED poolVars

\* An address the pool does not list as used is ignored.
release(p) ==
    \/ \E b \in used_blocks :
        /\ b.ptr = p
        /\ free_blocks' = Append(free_blocks, b)
        /\ used_blocks' = used_blocks \ {b}
        /\ UNCHANGED <<heap, allocated_total>>
    \/ /\ p \notin Ptrs(used_blocks)
       /\ UNCHANGED poolVars

-----------------------------------------------------------------------------
(* The engine calls.                                                       *)

Init ==
    /\ heap = {}
    /\ free_blocks = <<>>
    /\ used_blocks = {}
    /\ allocated_total = 0
    /\ frames = [f \in Frames |-> NULL]
    /\ pc = [t \in Threads |-> "idle"]
    /\ hold = [t \in Threads |-> NULL]
    /\ alive = TRUE
    /\ max_used = 0

Wrapping == {t \in Threads : pc[t] = "wrap"}
Releasing == {t \in Threads : pc[t] \in {"clear", "free"}}

\* The frames somebody owns: the live wrappers that nobody is giving back.
Loaded == {f \in Frames : frames[f] # NULL /\ \A t \in Releasing : hold[t] # f}

NoteUse == max_used' = IF Cardinality(used_blocks') > max_used
                       THEN Cardinality(used_blocks') ELSE max_used

\* gopost_frame_acquire(), up to the pool's answer.  (A null answer returns
\* GOPOST_ERROR_OUT_OF_MEMORY and changes nothing.)
AcquireData(t, n) ==
    /\ alive /\ pc[t] = "idle"
    /\ \E p \in Pointers :
        /\ acquire(n, p)
        /\ hold' = [hold EXCEPT ![t] = [data |-> p, data_size |-> n]]
    /\ pc' = [pc EXCEPT ![t] = "wrap"]
    /\ NoteUse
    /\ UNCHANGED <<frames, alive>>

\* The wrapper's malloc succeeds and takes over the buffer.
WrapFrame(t) ==
    /\ alive /\ pc[t] = "wrap"
    /\ \E f \in Frames :
        /\ frames[f] = NULL
        /\ frames' = [frames EXCEPT ![f] = hold[t]]
    /\ hold' = [hold EXCEPT ![t] = NULL]
    /\ pc' = [pc EXCEPT ![t] = "idle"]
    /\ UNCHANGED <<poolVars, alive, max_used>>

\* Fault: the error path forgets the buffer.
WrapFails_NoRelease(t) ==
    /\ alive /\ pc[t] = "wrap"
    /\ hold' = [hold EXCEPT ![t] = NULL]
    /\ pc' = [pc EXCEPT ![t] = "idle"]
    /\ UNCHANGED <<poolVars, frames, alive, max_used>>

\* The wrapper's malloc fails: the buffer goes back to the pool.
WrapFails(t) ==
    /\ alive /\ pc[t] = "wrap"
    /\ release(hold[t].data)
    /\ hold' = [hold EXCEPT ![t] = NULL]
    /\ pc' = [pc EXCEPT ![t] = "idle"]
    /\ UNCHANGED <<frames, alive, max_used>>

\* gopost_frame_release(), the buffer returns to the pool.  The caller gives
\* each of its frames back once; until then the frame has the data that
\* gopost_frame_acquire() put in it, so the code's test of frame->data passes.
ReleaseData(t, f) ==
    /\ alive /\ pc[t] = "idle"
    /\ f \in Loaded
    /\ release(frames[f].data)
    /\ hold' = [hold EXCEPT ![t] = f]
    /\ pc' = [pc EXCEPT ![t] = "clear"]
    /\ UNCHANGED <<frames, alive, max_used>>

\* gopost_frame_release(), outside the pool's lock: until this step the frame
\* still has the address of a buffer that others may have been given.
ClearData(t) ==
    /\ alive /\ pc[t] = "clear"
    /\ frames' = [frames EXCEPT ![hold[t]] = [data |-> NULL, data_size |-> 0]]
    /\ pc' = [pc EXCEPT ![t] = "free"]
    /\ UNCHANGED <<poolVars, hold, alive, max_used>>

\* gopost_frame_release(), the end: free(frame).
FreeFrame(t) ==
    /\ alive /\ pc[t] = "free"
    /\ frames' = [frames EXCEPT ![hold[t]] = NULL]
    /\ hold' = [hold EXCEPT ![t] = NULL]
    /\ pc' = [pc EXCEPT ![t] = "idle"]
    /\ UNCHANGED <<poolVars, alive, max_used>>

\* gopost_engine_destroy(), called when no engine call is running: the pool's
\* destructor frees the blocks of both lists.
EngineDestroy ==
    /\ alive
    /\ \A t \in Threads : pc[t] = "idle"
    /\ heap' = heap \ Ptrs(AllBlocks)
    /\ free_blocks' = <<>>
    /\ used_blocks' = {}
    /\ allocated_total' = 0
    /\ alive' = FALSE
    /\ UNCHANGED <<frames, pc, hold, max_used>>

Next ==
    \/ \E t \in Threads :
        \/ \E n \in RequestSizes : AcquireData(t, n)
        \/ WrapFrame(t)
        \/ WrapFails(t)
        \/ \E f \in Frames : ReleaseData(t, f)
        \/ ClearData(t)
        \/ FreeFrame(t)
    \/ EngineDestroy

Spec == Init /\ [][Next]_vars

-----------------------------------------------------------------------------
(* What a state must satisfy.                                              *)

\* Who holds a buffer: an owned frame, or a thread that is about to wrap it.
HeldPtrs == {frames[f].data : f \in Loaded} \cup {hold[t].data : t \in Wrapping}

\* Type invariant.
TypeOK ==
    /\ heap \subseteq Pointers
    /\ free_blocks \in Seq(Block)
    /\ used_blocks \subseteq Block /\ IsFiniteSet(used_blocks)
    /\ allocated_total \in Nat
    /\ frames \in [Frames -> FrameRec \cup {NULL}]
    /\ pc \in [Threads -> {"idle", "wrap", "clear", "free"}]
    /\ hold \in [Threads -> FrameRec \cup Frames \cup {NULL}]
    /\ \A t \in Threads :
        /\ pc[t] = "wrap" => hold[t] \in FrameRec /\ hold[t].data # NULL
        /\ t \in Releasing => hold[t] \in Frames
    /\ alive \in BOOLEAN
    /\ max_used \in Nat

\* A buffer is listed once: no address is twice in a list, or in both lists
\* (allocator.cpp acquire/release move a block between two vectors).
ListedOnce ==
    /\ \A i, j \in DOMAIN free_blocks :
        free_blocks[i].ptr = free_blocks[j].ptr => i = j
    /\ \A b, c \in used_blocks : b.ptr = c.ptr => b = c
    /\ Ptrs(FreeBlocks) \cap Ptrs(used_blocks) = {}

\* Two holders never share a buffer: the pool gives a frame's bytes to nobody
\* else until that frame is released, whatever the threads do in between.
ExclusiveBuffers ==
    /\ \A f, g \in Loaded : frames[f].data = frames[g].data => f = g
    /\ \A t, u \in Wrapping : hold[t].data = hold[u].data => t = u
    /\ \A f \in Loaded, t \in Wrapping : frames[f].data # hold[t].data

\* Two threads never give the same wrapper back, since its owner does so once,
\* and its address is not reused before it is freed.
ReleasedOnce ==
    /\ \A t \in Releasing : frames[hold[t]] # NULL
    /\ \A t, u \in Releasing : hold[t] = hold[u] => t = u

\* The pool's used list is exactly what the callers hold, and its two lists
\* are exactly what it took from the system: no step of the engine calls, the
\* failing malloc included, loses a buffer or keeps one it gave back.
NoLeak ==
    alive => /\ Ptrs(used_blocks) = HeldPtrs
             /\ heap = Ptrs(AllBlocks)

\* A recycled block is large enough for the frame that got it, although the
\* block's size is not the frame's and small frames take large blocks.
FrameFits ==
    alive =>
    /\ \A f \in Loaded :
        \E b \in used_blocks :
            b.ptr = frames[f].data /\ b.size >= frames[f].data_size
    /\ \A t \in Wrapping :
        \E b \in used_blocks :
            b.ptr = hold[t].data /\ b.size >= hold[t].data_size

\* The inductive invariant: the parts above need one another.
IInv ==
    /\ TypeOK
    /\ ListedOnce
    /\ ExclusiveBuffers
    /\ ReleasedOnce
    /\ NoLeak
    /\ FrameFits

\* First fit lets a small frame take a large block, so the pool may own more
\* blocks than were ever in use at once; but of one size it never owns more
\* than that, so its growth is bounded by the peak demand.
GrowthBoundedByPeak ==
    \A s \in {b.size : b \in AllBlocks} :
        Cardinality({b \in AllBlocks : b.size = s}) <= max_used

=============================================================================
