# Verification of gopost

TLA+ models of the parts of gopost where the order of steps matters, the TLC
configurations that check them on small instances, and theorems about them
checked by TLAPS.  The reference is the source; file names below are relative
to `src/`.

Abbreviations: `CORE` is `gopost_app/native/gopost_core/src/core`, `VE` is
`gopost_app/native/gopost_video_engine/src/video`, `IE` is
`gopost_app/native/gopost_image_engine/src`, `APP` is `gopost_app/lib`, `GO` is
`gopost-backend/internal`.

## 1. The system

gopost is a video and image editor: a Flutter application (`APP`), native
engines in C++ it calls through FFI, and a backend in Go for accounts and
templates.

| Component | State | Operations | What makes it correct |
|---|---|---|---|
| Frame pool, engine (`CORE/allocator.cpp`, `engine.cpp`) | free and used block lists, byte total; frame wrappers | create, destroy, acquire, release, from any thread | a buffer has one owner; nothing leaks; recycled blocks fit |
| Thread pool (`CORE/thread_pool.cpp`) | priority queue, running flag, sleeping workers | submit, worker loop, destructor | a task runs once; no lost wakeup; the destructor drains and returns |
| Frame cache (`VE/frame_cache.cpp`) | LRU list, map into it, byte count, budget | get, put, invalidate, set budget | map and list agree; frames released once; budget kept |
| Rendering (`VE/timeline_evaluator.cpp`) | the frame being composed, a raw layer pointer | render_frame | blends live frames of the right clip and content |
| Timeline model (`VE/timeline_model.cpp`) | tracks of clips, next id, playhead | 18 edits | ids unique; clips on their track; ranges and speeds in step |
| Timeline C API (`VE/video_engine.cpp`) | one of each of the above | edit, then invalidate the cache | no frame in the cache is stale |
| Native exporter (`VE/video_exporter.cpp`) | jobs with atomics, a detached worker each, an output file | start, cancel, progress | the outcome reported agrees with the file; every job ends |
| Audio mixer (`VE/audio_mixer.cpp`) | volumes, pans and fades by clip id; volumes, pans, mutes and solos by track position | setters; render, which only reads | what is heard follows the clips and tracks; an edit changes nothing else |
| Keyframes, transitions, video effects, colour | none (pure) | evaluate | numeric |
| Decoders and probes (`VE/*_ffmpeg.cpp`, `*_avf.mm`, `*_stub.cpp`) | members of an open decoder | open, decode, close, probe | every path gives back what it took |
| Image canvas (`IE/canvas`, `IE/text`) | canvases, layers, pixel buffers | add, remove, duplicate, reorder layers, set attributes, replace pixels | pixels have one owner and the size of their layer |
| Masks and effects (`IE/mask`, `IE/effects`) | global maps by canvas address and layer id; a registry | add, remove, paint, apply, set | a new layer finds nothing of an old one |
| Projects (`IE/project`) | a file | save, load | what is loaded paints what was saved |
| Compositor, export, image codecs (`IE/composition`, `IE/export`, `CORE/../image`) | frames and buffers of one call | render, export, decode, encode | every path gives back what it took, once |
| Crypto, templates (`CORE/../crypto`, `template`) | keys and plaintexts, locked and wiped | decrypt, unwrap, load, unload | secrets are wiped and unlocked on every path |
| GPU contexts (`CORE/../gpu`) | contexts, textures (stubs) | create, destroy, upload | every path gives back what it took |
| Filters, blending, tiles | none (pixels) | | numeric |
| Editor state in the app (`APP/video_editor/presentation`) | a Dart copy of the timeline, undo and redo stacks, playback, export polling | edits that await the engine | the Dart copy and the engine's agree |
| Networking in the app (`APP/core/network`) | access token, refresh token in secure storage | attach token, refresh on 401, retry | one refresh per expiry; no retry of a carried-out request |
| Accounts (`GO/service/auth_service.go`) | users, sessions in Postgres | register, login, refresh, logout | a refresh token is spent once |
| Templates (`GO/service/template_service.go`) | rows, search index, CDN | create, update, publish, delete | index and CDN follow the rows |
| Rate limit (`GO/router/middleware/ratelimit.go`) | Redis counters | INCR, EXPIRE | a window ends |

Interaction in the native video engine, on which everything else depends:

```
 Dart (UI thread) --FFI--> Timeline C API --edit--> TimelineModel <--clips-- Evaluator
                               |    |                    ^ playhead             |  ^
                               |    +--invalidate--> FrameCache <--get, put-----+  |
                               +--start, cancel--> VideoExporter --seek, render----+
                                                        (one detached worker per job)
 FrameCache, Evaluator, VideoExporter --acquire, release--> engine --> FramePoolAllocator
```

Each of the pool, the cache, the model and the job table has a mutex of its
own, held for one call.  Nothing holds a lock over two calls, and nothing makes
the caller of `render_frame` exclusive: the hard behaviours are the steps of
the preview and of exports between those calls.

The image engine is simpler: the app calls it from one isolate, and every call
holds the canvas's mutex.  What is hard there is what outlives a call (masks and
effects in global maps, addresses malloc gives again, project files) and the
many ways a call can fail halfway.  The second is the subject of the modules of
native calls, for the image engine and for everything else written in C++ that
allocates, opens or locks.

## 2. Modules

| Module | Models | Composed from |
|---|---|---|
| `FramePool` | allocator, engine lifecycle, frame acquire and release | |
| `FramePool_proofs` | theorems about it | `FramePool`, `TLAPS` |
| `ThreadPool` | the task pool | |
| `ThreadPool_proofs` | theorems about it | `ThreadPool`, `TLAPS` |
| `Sublists` | parts of a sequence by the positions they take, without recursion | |
| `Sublists_proofs` | what those parts, and insertions, removals and prefixes, consist of | `Sublists`, `TLAPS` |
| `FrameCache` | the LRU cache | `Sublists` |
| `RenderPath` | the evaluator over the cache, editor and export threads | implements `FrameCache` |
| `RenderPath_proofs` | theorems about both, the refinement too | `RenderPath`, `Sublists_proofs` |
| `TimelineModel` | tracks, clips and edits | |
| `TimelineApi` | edits and the invalidations that follow them | `TimelineModel` |
| `AudioMixer` | the mixer's settings beside the edits, and what is heard | `TimelineModel` |
| `Timeline_proofs` | theorems about the three, that the API and the mixer implement the timeline too | `TimelineApi`, `AudioMixer`, `TLAPS` |
| `ExportJobs` | abstract: what an export job looks like from outside | |
| `VideoExporter` | start, cancel and the worker | implements `ExportJobs` |
| `VideoExporter_proofs` | theorems about it, the refinement too | `VideoExporter`, `TLAPS` |
| `Canvas` | canvases, layers and their pixels | |
| `LayerExtras` | masks, effects, the registry, text layers | `Canvas` |
| `ImageProject` | project files and what the compositor paints | `LayerExtras` |
| `ImageProject_proofs` | theorems about the three | `ImageProject`, `Sublists_proofs` |
| `CallSteps` | a notation: the body of a native call as its steps that own things | |
| `CryptoCalls`, `ImageCalls`, `MediaCalls` | the bodies: secrets and templates; codecs, rendering, export, text; engine, GPU, decoders and probes | `CallSteps` |
| `Ownership` | a client that runs them, with every step that can fail failing or not | given the bodies as a constant |
| `Ownership_proofs` | theorems about it, whatever the bodies | `Ownership`, `TLAPS` |

`MC*` modules give the constants for TLC.  An operator named `X_Y` and marked
`Fault:` is a faulty variant of the operator `X`: `PROJECT.json` says which
property notices it.

### FramePool

A call of the allocator is a step, since it is under the mutex.  A frame acquire
is two steps (`AcquireData`, then `WrapFrame` or `WrapFails`), a release three
(`ReleaseData`, `ClearData`, `FreeFrame`), and threads interleave between them: for
a while the frame still has the address of a buffer another thread may have got.
A caller gives a frame back once; the code's test of `frame->data` then passes.
Blocks keep their own size when a smaller frame gets them.  The free list is a
sequence, because first fit depends on its order; the used list, which is searched
by address, is a set.  Addresses come from constant sets.  `EngineDestroy` is
called when no call is in progress, as the FFI layer does.

### FrameCache

`lru_list` is a sequence of entries, front first; `map` takes a key to the frame
of the entry its iterator points at.  `live` are the frames acquired and not
released.  `KeptUntil` is eviction: what remains of the list when entries are
dropped from the back until the budget is met, and each dropped entry unmaps its
key, even if a newer entry has it (as `map_.erase(key)` does).

### RenderPath

`pc` takes a renderer through `render_frame`: look a clip up (`Hit`, `Miss`),
decode, put, composite, next clip.  What a clip shows is a version number in
`content`; an edit raises it, under the model's mutex or through a bare pointer to
the clip, and only then invalidates.  There are three kinds of edit: those that
invalidate the clip they name (`EditClip`; a roll changes a neighbour it does not
invalidate), those that invalidate all (`EditTrack`), and those that invalidate
nothing (`EditUntold`: insert, overwrite, a refused ripple delete).  `untold` are
the clips changed since the cache was last told of them, and a frame is `late` if
its clip changed between its decoding and its put.  `Editor` is the one thread that
edits, since Dart calls the engine from one isolate; `Renderers` is that thread,
or that thread and an export.

### TimelineModel, TimelineApi

Times are ticks.  A track is the set of its clips: the vector's order decides
only which of two equal candidates a search picks, left open by the model.
`find_clip` looks by id through all tracks, while the edits then go to
`tracks_[clip.track_index]`; both are in the model, so that `remove_track`,
which does not renumber, has its effect.  An index past the end is undefined
behaviour: `undefined` is set and nothing follows.  What a caller places or trims
to is any of `Descriptors`, ranges and a speed as they come: the code checks a
length only in `insert_edit` and `overwrite_edit`, and no speed against a range.
`TimelineApi` adds to each edit what its handler invalidates; a cached frame
records what it shows.

### AudioMixer

The mixer's maps are total functions whose default is what a missing entry
means.  The edits of `TimelineModel` leave them alone, as in the code: nothing
tells the mixer of an edit.  The setters take any id, given or not; `early` are
those that were set before a clip had them.  What is heard is an operator,
`Heard`: at a time, the source frame, gain and pan of each clip that plays on an
audible track.  Fades are exact fractions of `FadeUnit`.

### Canvas, LayerExtras, ImageProject

A canvas is known by its address, which may be given again after a destroy;
`heap` are the allocated pixel buffers, with their size and what they show.  A
failed malloc is a disjunct of each operation that allocates: adding or duplicating
a layer then spends an id and adds none (`OutOfMemory`); a duplicate whose pixels
alone could not be allocated is left with a size and without them.  The
maps of `LayerExtras` are keyed by address and layer id, and no operation on
layers touches them.  `ImageProject` adds the file; a save may be cut short (inside its
header too, which leaves nothing that can be loaded), a load may fail to allocate any of the layers.  `Painting` is what the compositor
would blend: the visible layers that have pixels.

### CallSteps, the bodies, Ownership

A body is a sequence of steps.  A step takes and releases resources (a block, a
library's object, a locked page, a secret to wipe), and may fail; then the call
ends, having released what the code's error path releases: `undo` without
looking, `closes` after a null check.  Where the code branches there are several
bodies: the two sides of an `#if`, a flag of the caller, kinds of input.
`Ownership` picks one part of the code and calls its functions one after another
in every order their arguments allow.  `freed_twice` and `overwritten` note a
release of what is not held and a pointer written over.  `LibraryIsSound` speaks of
each body by itself, run on whole objects: `HeldAfter` is what there is after its
first steps, said without recursion (what was there or a step took, and no later
step releases).

### VideoExporter, ExportJobs

`StartSpawn` and `StartInsert` are the two halves of `start()`.  The worker
steps at each access to shared state: the job table, the cancel flag, the
playhead (written by `gopost_timeline_seek`, read twice by the render), the
file, progress, finished.  `Promise` maps it to `ExportJobs`, where a job's
progress rises to 1.0, or ends at -1, and then stays.

### ThreadPool

Workers check the queue, sleep, are woken (also for no reason), run, return.
`submit` pushes under the mutex; its `notify_one` is a step of its own after it.
Tasks may submit tasks.  The destructor stops, notifies all, joins; no other
thread submits once it runs, which is the owner's obligation in C++.

## 3. Runs

| Run | Shows | Instance |
|---|---|---|
| `frame_pool` | blocks listed once, exclusive buffers, no leak, recycled blocks fit, growth bounded by the peak in use | 2 threads, 3 frames, 4 addresses, 2 block sizes |
| `thread_pool` | tasks taken once, queue drained, no lost wakeup; tasks are taken, the destructor returns | 3 workers, 2 clients, 3 tasks |
| `render` | every step is to the cache one of its own operations (`CacheIsUsedAsSpecified`, a refinement); map and list agree, no decoded frame is lost, a put keeps the budget or only the new entry; until an export renders, the preview blends live frames of the right clip; a cached frame is older than its clip for three causes only (`StaleOnlyForCause`) | 2 renderers, 2 clips, 2 frame indices, 3 frames, budgets of no frame and of 2, 2 edits |
| `export` | outcome and file agree, cancel takes at most a frame, frames nobody disturbed show their time, `ExportJobs` is implemented, jobs found end | 2 jobs, empty or 2 frames, seeks |
| `timeline` | all edits through the C API: which make overlaps, leave a clip that lasts no time, or part source and speed; a split shows the same; ids unique, clips on the track they name; the invalidations suffice, with three exceptions named in the property | 2 tracks with 2 clips, or 1 track with 3; times 0..3, speeds to 1.5 in halves, 8 descriptors, 1 cached frame |
| `audio` | overlapping fades never dip; no clip starts with the settings of another; what a split and other edits may change of what is heard | 2 tracks, 2 clips of 2 and 3 ticks, fades of 2 and 3, any id set, 1 or 2 settings away from their defaults |
| `image` | pixels have one owner and fit their layer; effect instances are unique; new layers find no mask or effect; a file paints what was saved, or the first of it when cut short, but for the colors of solid layers | 1 address, 2 buffers, 2 layers, 2 sizes, 6 calls |
| `native_calls` | each body by itself gives back what it took; in any sequence of calls, one that fails changes nothing, nothing is released twice or lost by being written over, and what a client holds between calls is complete | all bodies, templates of up to 2 sections |

TLC refutes four more, each a finding in `PROJECT.json` with the line of the
documentation it contradicts:

- `render_layer`: preview and export each decode a frame and put it into the cache,
  which has room for one: the second put releases the frame of the first, which is
  about to be blended (no edit is made in this run);
- `export_lost`: the worker looks its job up before `start()` enters it;
- `timeline_move`: after `remove_track` a clip moved is on two tracks;
- `image_load`: a solid layer comes back from a project file white.

### What the models show besides

Behaviour of the code that the models have because it is there, and that a
property excepts by name or that follows from an action.  In the video engine:

- The pool never reads `pool_size_` (`allocator.cpp:73`).
- `put` of a key that is present leaves an entry `invalidate_clip` cannot find
  (`frame_cache.cpp:59`).
- A frame decoded before an edit can enter the cache after the invalidation, once
  an export renders beside the preview (`timeline_evaluator.cpp:65`).  A frame with
  the source time of before an edit and the effects of after it counts as old.
- The setters of a clip write it through a bare pointer after `find_clip()`, with no
  lock (`video_engine.cpp:347`).
- Ranges and speeds are not checked against each other (`timeline_model.cpp:57`,
  `:84`); the app makes clips whose source is longer or shorter than what they
  play (`advanced_edit_delegate.dart:260`, `:336`).
- `duplicate_clip` reads the track of the old clip after `push_back()`
  (`timeline_model.cpp:428`), which frees it when the vector was full.  The model has
  no capacities: it is the case in which the vector had room.
- `run_export` releases no frame and ignores failed renders
  (`video_exporter.cpp:98`).
- An insertion inside a clip overlaps it (`timeline_model.cpp:249`) and
  invalidates no cached frame; an overwrite removes the clips it overlaps whole
  (`:280`).
- A ripple delete that reports failure has moved the clips' data out of the track
  and shifted the later ones (`:165-171`).
- A roll to the left is always refused, since the right clip may not show earlier
  source (`:341`); a slide towards an adjacent neighbour is refused (`:391`).

In the mixer:

- A split or a duplicate starts without the settings of its clip, and the left
  half fades out at the cut (`timeline_model.cpp:127`).
- A clip starts with what was set for its id before it was given
  (`audio_mixer.cpp:22`); the app sets ids it makes up for its adjustment layers
  (`track_clip_delegate.dart:400`).
- The settings of a track stay at its position when tracks are removed or
  reordered (`audio_mixer.cpp:103`).
- A buffer's fades and the presence of a clip are decided at its first sample
  (`:137`), and the pan law jumps at the centre (`:172`); neither is modelled.

In the image engine and the native calls:

- Loading a project makes solid layers white (`image_load`) and skips layers
  without pixels, groups among them (`project_serializer.cpp:128`, `:121`); files
  have no masks or effects (`project.h:30`).  A canvas at a used address finds the
  masks and effects of the old one (`mask_system.cpp:265`).
- Pixels that malloc gave a frame, the pool having none, are not freed by
  `gopost_frame_release()` (`compositor.cpp:88`, `export_pipeline.cpp:148`; "own
  pixels" in `ImageLeaks`); the GPU render hands its caller a pool block
  documented to be freed by `free()` (`compositor.cpp:239`; "gpu block").
- `secure_free` of length 0 returns without freeing (`aes_gcm.cpp:70`; `Empty` in
  `CryptoLeaks`).
- A stub decoder keeps its old file when opened again and the new one fails;
  decoders that keep members after a failed open are `Kept`.
- Outside the models: a region render does not clear its output
  (`compositor.cpp:172`), a template's checksum is computed and not compared
  (`template_parser.cpp:198`), a failed realloc cuts an encoded image short
  without an error (`image_encoder.cpp:140`).

Hazards of code that has no model yet, beyond those in `PROJECT.json`:
`hardware_concurrency()` may be 0 and the thread count then wraps
(`thread_pool.cpp:23`); register and refresh of the backend are several
statements without a transaction (`auth_service.go:68`, `:143`); the search index
and the CDN are written after the row, errors ignored (`template_service.go:165`,
`:181`); the app retries requests that may have been carried out
(`retry_interceptor.dart:30`); which picture a decoder returns for a time
(`video_decoder_ffmpeg.cpp:161`); undo restores clips and not mutes and solos
(`timeline_notifier.dart:413`).

### Why the bounds suffice

- Two threads are enough for every pair of calls to interleave; a third frame
  and a fourth address let a buffer be recycled between two sizes while others
  are in use.
- Budgets of none and of two frames: a put that finds nothing to keep but itself,
  and one that evicts, an orphan (a key put twice) among the entries.  Three frames
  are two cached and one in a renderer's hands, or one cached and one in each's.
- Two jobs share the playhead; two frames are a frame before and a frame after a
  cancellation.
- Three clips are a clip and both its neighbours; times to 3 leave room for a
  gap and for a clip that can be cut.  Speeds are halves.  The descriptors are a
  clip as it is imported, of each length, one trimmed at its start, one at half
  speed, one with less source than it plays, one that lasts no time and one that
  ends before it starts.  A third clip is made on a single track and with an empty
  cache, which has no frame of it yet; one odd clip at a time is enough, since the
  properties speak of the step that makes the first.
- One cached frame suffices for freshness, a property of each entry alone.
- Three workers: one runs, one sleeps, one is between the two.
- One address is destroyed and given again; two buffers are the last one and none
  left.  Six calls add two layers, change both, save and load.
- A setting matters with the clip or track it is of; `Followed` stops when clips
  and settings are more than three together.  Two fades of 3 on a clip of 3 are
  both below 1 at its ticks 1 and 2; fades of 2 end before a cut.
- A call's bodies are finite and run to their end; calls of a part repeat for
  ever.  Two sections of a template are one that fails after one that succeeded.

Bounds in guards: `MaxEdits`, `MaxJobs`, `MaxTracks`, `MaxClips`, `MaxTime`,
`MaxSpeed`, `MaxCached`, `MaxLayers`, `MaxCalls`, `MaxSections`.  Edits whose
result is not a whole number of ticks are not inputs.  Constraints cut the
timeline's states: the two `Followed` stop at states reached by
a known fault (a track removed from below, lost media, overlapping clips; for the
API a stale frame; for the mixer a source range that no longer matches its
speed), after which the properties checked say nothing.  The step that reaches
such a state is checked.

Deadlock is not checked where the system may stop: a destroyed engine or pool,
exports that are all done, bounds reached.

### Fairness

`VideoExporter!FairSpec`: the caller inside `start()` and every worker go on;
they wait for nothing.  Nobody need cancel, seek or start.  `ThreadPool!FairSpec`:
a worker that can go on does, tasks end, a thread that has pushed a task notifies,
the destructor's steps follow one another.  Submitting, destroying and spurious
wakeups are not fair.  Weak fairness suffices since no step is disabled by
another thread for ever: the mutex is not a variable of the models.

## 4. Proofs

All for every value of the constants, from the named assumptions only: sizes,
times, bounds and budgets are numbers and none is negative, units are positive,
there are finitely many buffers, an empty slot is told from an address, the
editor is a renderer, a fade's factors are exact, bodies of calls are sequences and
what leaks is part of no object.

**Sequences.**  The installed provers cannot do induction over data, so the
models speak of a part of a list by the set of positions it takes (`Select`), and
of the bytes of entries by counting a set.  `Sublists_proofs` has what a part
consists of, that a part of a part is a part (`NthOfPart`), that a part of a
prefix is a prefix of the part (`NthOfPrefix`), and the same for insertions and
removals.  The cache and the image engine rest on it.

**FramePool_proofs**: `Spec => []IInv` from `SizeAssumption` and
`NullAssumption`.  `IInv` is `TypeOK`, `ListedOnce`, `ExclusiveBuffers`,
`ReleasedOnce` (no two threads give back one frame), `NoLeak` and `FrameFits` together, for none is inductive alone:
exclusiveness of a buffer taken from the free list needs that no holder has a
listed address, which is `NoLeak` with `ListedOnce`; that a recycled block fits
needs that the used list has one entry per address.  A lemma per action proves
the parts it disturbs; `TypeCorrect`, `BlocksListedOnce`, `BuffersAreExclusive`,
`NothingLeaks` and `RecycledBlocksFit` follow.
`GrowthIsBounded` (`GrowthBoundedByPeak`) counts: a pool grows only when it has no
free block of the size, so all its blocks of that size are then in use, and that
moment counts for the peak.

**ThreadPool_proofs**: `Spec => []IInv` for every set of workers, clients and
tasks; `TasksTakenOnce`, `QueueDrained` and `WakeupsNotLost` follow.  A wakeup is
not lost because a worker sleeps only after it saw the queue empty under the
mutex, so the pusher's notification comes later; the queue is drained because a
worker returns only from an empty queue once the pool has stopped, and what is
submitted after that comes from a running task, whose worker looks again.
`NoWorkerIsJoinedAsleep` is what `DestructorReturns` needs of the wakeups: from
`notify_all()` on nobody sleeps, since who looks at the queue later sees the flag.

**RenderPath_proofs**: the cache and those who share it, from `CacheAssumption`
and `RenderAssumption`.  `CacheInv` is what every cache operation keeps: a frame
is listed once, the byte count is that of the list, and each key of the map has
an entry of its own in the list.  `RenderInv` adds where each renderer is: a frame
about to be put has one owner and shows what was asked for, a listed frame shows
its key, what is stale among them is so for a cause, and until an export renders,
what the preview decodes is the clip as it is.
`MapIsConsistent`, `FramesAreKept`, `PreviewBlendsValidFrames` and
`StaleFramesAreExplained` follow from `RenderInvariance`.  The last has two halves.
For any renderers, a frame that is older than its clip belongs to a clip that an
edit is about to invalidate, or has told the cache nothing of, or was put late:
this is what the invalidations achieve, with orphans in the list, and keys put
again.  Until an export renders none is put late, since the editor is the thread
that renders and no edit comes between a decode and its put.  `BudgetIsKept` is that eviction stops within the target or with nothing
left.  `RendersUseTheCacheAsSpecified` is the refinement: every step is an
operation of `FrameCache` or leaves its variables alone, since no frame that is
listed is put again.

**VideoExporter_proofs**: `Spec => []IInv` from `ExporterAssumption`.  The
invariant says of each job what is so at the place its worker is: `JobInv` of
progress, file and cancellation (progress is `Share(i, total)` inside the loop,
and the file is open there; a job that gives up was cancelled or never began),
`FramesInv` of the playhead and of the frames written.  `OutcomesMatchFiles`,
`CancellationStops` and `FramesAreInTime` are its consequences.  Jobs meet only
at the playhead and the id counter, so one lemma disposes of all other jobs in
every step.  `PromiseIsKept` is the refinement: each step is a step of
`ExportJobs` or leaves its variables alone; that progress only rises is
arithmetic of `Share` (`ShareRises`), which needs that `ONE` is at least every
total.

**Timeline_proofs**, from `TimelineAssumption`, has two invariants of the model.
`TInv` says that the tracks are numbered from 0 and, until a lower track is
removed, that every clip is a record with whole times on the track it names
(`Placed`) and no two have one id (`Unique`); the second needs that ids are below
`next_clip_id`.  The argument for nearly every edit is one lemma, `TrackEdited`: some clips of a
track are kept, each as one alike, and one new clip is added at most.
`ClipsAreFound` is the property `ClipsAreWhereTheySay` of the run.  `FInv` adds
what holds after a renumbering too: times and speeds are numbers, and the id of
every clip was given, whence settings and cached frames find their clip.  The
lemmas it rests on speak of clips of a `kind`: "any", or "lasting", which end after
they start.  `EditOwns` shows of either kind that an edit leaves clips of it, unless
a caller asks for one that does not last; of "any" this is `FInv`, of "lasting" it is
`ClipsGoOnLasting`.  That callers may ask for such clips is why it is a property of
steps and no invariant.  The roll is the hard case: it keeps clips lasting because
the code refuses source ranges without length (`timeline_model.cpp:330`, `:337`) and
source times go by proportion.  On these rest three more properties of every edit:

- `OverlapsAreAskedFor`: a lemma per edit shows that it stays clear of the other
  clips of its track, if they all last.  A roll stays clear because the clip after another is the
  nearest one, a slide because it is bounded by its neighbours, ripples because all
  that moves moves alike.
- `SplitsAreUnseen`, for clips of any ranges and speed: the two halves divide the clip's range, and the source
  position at a time is the same by either, the cut's offset being a whole number
  of source ticks (`Cancel`, `CutInProportion`).
- `SpeedsMatch`: source length times unit is speed times length, for each clip an
  edit makes, if it was so before and what the caller asks for matches.  The property once excused a roll only if no clip on any track
  begins where the rolled one ends.  That let a clip of another track count as
  the neighbour; the proof did not go through, TLC on two tracks gave the
  counterexample, and the property now speaks of the track of the clip.

It goes on with the two that use the timeline.  Both implement it:
`ApiEditsTheTimeline` and `MixerKeepsTheTimeline` say that whatever they do is, to
the model, one of its edits or nothing.  For the API,
`CInv` is `FInv` and that cached frames are of clips with ids that were given, so
that a clip with a new id has no frame in the cache.  `EditsKeepFrames` then needs
of each edit only that every clip with another id than those it invalidates is as
it was (`LeavesOthers`); a roll moves the next clip as well, which does not change
what that shows when it follows directly and plays its source at its speed.  For
the mixer, `AInv` is `TInv`, that the id of every clip was given, the types of the
settings, and that nothing is set for ids to come but early (`UnbornArePlain`),
whence `NewClipsArePlain`.  `GainsRiseAndFall`
shows the product of two ramps concave: of three points on two ramps against each
other, the middle one is not lower than both of the others (`Concave`), and a ramp
that ends before the other begins is 1 there.  This is why `MixerAssumption` wants
exact factors.  `OthersAreHeardTheSame` and `SplitsAreUnheard` compare what is
heard clip by clip: settings are by id and by position, and an edit leaves both.

**ImageProject_proofs**: from the assumptions of `Canvas` and `ImageProject`, one
invariant of the image engine in three parts.  `CanvasInv`: layers of a canvas are
told apart by ids it has given, and the heap is divided among the layers
(`Owned`): each buffer belongs to one layer, in which it fits.  `ExtrasInv`:
instances are told apart over all layers by ids below the counter, and masks and
effects are kept only for ids that were given (`Given`), which is why a new layer
of an address's first canvas finds none.  `DiskInv`: what a file would paint is
what was painted, or a prefix of it.  From it follow `OneOwner`, `ContentFits`,
`UniqueInstances`, `CleanLayers` and `LoadIsFaithful`; the last goes through the
positions of visible layers, twice, when they are written and when they are read.
It says nothing of the colors of solid layers, which a load does lose.

**Ownership_proofs**, from `BodiesAssumption`, has the bodies as a parameter: its
theorems are of the form `Spec /\ BodiesAreSound => []...`, and that the bodies of
this code are sound, each by itself, is what the run checks of `BodiesAreSound`
before any call is made.  `IInv` says that a running call holds what its body holds
after the steps done (`HeldAfterStep` is its induction step), and that what is held
between calls is whole.  Soundness is asked only of calls on whole objects with
nothing leaked, which are finitely many; that it then holds after any leaks is
`BodyWithLeaks`: a leak is part of no object, so it is neither released nor in the
way.  `FailuresAreHarmless`, `ReleasedOnce` and `WholeObjects` follow, for
sequences of calls of any length.

**Only checked by TLC**, and why:

- `FoundExportFinishes`, `TasksAreTaken`, `DestructorReturns`: liveness under
  fairness, out of the prover's reach.
- `BodiesAreSound`: a fact about the bodies, which are given, finitely many short
  sequences of steps, with nothing in them to generalise.
- The four refuted properties, whose counterexamples are the result.

## 5. Not modelled, and assumptions

- Exports write to paths of their own, and the timeline is not destroyed while
  one runs (`gopost_timeline_destroy` does not wait; a hazard).
- The evaluator's decoder map and the raw clip pointers it walks are shared
  without a lock; their undefined behaviour is a hazard without a property yet.
- Effect hashes: no code changes the hash of a clip, so it is left out of keys.
- Pixel, audio and curve arithmetic, ciphers, file formats, OS codecs, GPU: data,
  not steps.  Widgets, routing, configuration: no state of their own.
- The image engine is called from one thread, as the app does; the compositor
  fetches a layer's info and its pixels by two calls, which would matter to two
  threads only.
- A native call is run by itself: what two threads do in one object of the
  decoders or the crypto core is not modelled.
- Audio: a clip's decoding may fail at any time and is left out; volume envelopes
  are 1; the decoder cache decides nothing but speed.
- The tile renderer, which nothing uses, and the stub markers, proxies and
  multicam of the C API (`video_engine.cpp` after line 661), which keep no state.
- The components of section 1 that have no module yet are planned below.

## 6. Plan

The native engines first (done: all of section 2), then the second copies of
their state, then the backend.

1. `EditorHistory`: the Dart copy of the timeline, edits that await the engine,
   undo and redo, `syncNativeToProject`; abstract specification: one timeline.
2. `AuthSessions` (abstract: a token is spent once) and `AuthInterceptor` over it:
   queued 401s, refresh, retry after a timeout.
3. `TemplateService`: rows, index and CDN under concurrent updates; `RateLimit`.
4. Keyframe search, and which picture a decoder returns for a time, as operators
   checked against a reference; an audio clock finer than a buffer.

Theorems to come: that `EditorHistory` implements one timeline; the session
invariant of `AuthSessions`.
