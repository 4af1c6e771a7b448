----------------------------- MODULE Ownership -----------------------------
(***************************************************************************)
(* A client that calls the functions of one part of the native code, one   *)
(* after another and in any order its owned things allow, with each step   *)
(* that can fail failing or not.  What the calls do is in the bodies       *)
(* (CryptoCalls, ImageCalls, MediaCalls); here is what running them means. *)
(***************************************************************************)
EXTENDS Integers, Sequences

CONSTANTS
    Libraries,  \* part -> its calls: name -> [needs, absent, paths]
    Objects,    \* part -> the things a client owns there: [parts, complete]
    KnownLeaks, \* resources that some path gives up without releasing them
    Kept        \* what an object may keep after a call that failed

\* A body is a sequence, owning nothing is complete, and what leaks is no part
\* of anything the client owns.
ASSUME BodiesAssumption ==
    \A q \in DOMAIN Libraries :
        /\ \A f \in DOMAIN Libraries[q] : \A body \in Libraries[q][f].paths :
              body \in Seq({body[i] : i \in DOMAIN body})
        /\ \A o \in Objects[q] : {} \in o.complete /\ o.parts \cap KnownLeaks = {}

VARIABLES
    part,       \* the part of the code that is called
    call,       \* the call that runs or ran last
    todo,       \* the steps of its body that are left
    outcome,    \* "none", "running", "ok" or "failed"
    held,       \* resources that are not released
    before,     \* history: what was held when the call began
    freed_twice,    \* history: resources released while not held
    overwritten     \* history: resources taken while held

vars == <<part, call, todo, outcome, held, before, freed_twice, overwritten>>

Library == Libraries[part]
Running == outcome = "running"

Init ==
    /\ part \in DOMAIN Libraries
    /\ call = "none" /\ outcome = "none"
    /\ todo = <<>>
    /\ held = {} /\ before = {}
    /\ freed_twice = {} /\ overwritten = {}

Begin(f) ==
    /\ ~Running
    /\ Library[f].needs \subseteq held
    /\ Library[f].absent \cap held = {}
    /\ todo' \in Library[f].paths
    /\ call' = f
    /\ outcome' = "running"
    /\ before' = held
    /\ UNCHANGED <<part, held, freed_twice, overwritten>>

StepSucceeds ==
    /\ Running
    /\ todo # <<>>
    /\ Head(todo).fails # "always"
    /\ LET s == Head(todo)
           rest == held \ (s.drops \cup s.frees)
       IN  /\ held' = rest \cup s.takes
           /\ freed_twice' = freed_twice \cup (s.drops \ held)
           /\ overwritten' = overwritten \cup ((s.takes \cap rest) \ KnownLeaks)
    /\ todo' = Tail(todo)
    /\ UNCHANGED <<part, call, outcome, before>>

StepFails ==
    /\ Running
    /\ todo # <<>>
    /\ Head(todo).fails # "never"
    /\ held' = held \ (Head(todo).undo \cup Head(todo).closes)
    /\ freed_twice' = freed_twice \cup (Head(todo).undo \ held)
    /\ outcome' = "failed"
    /\ todo' = <<>>
    /\ UNCHANGED <<part, call, before, overwritten>>

Return ==
    /\ Running
    /\ todo = <<>>
    /\ outcome' = "ok"
    /\ UNCHANGED <<part, call, todo, held, before, freed_twice, overwritten>>

Next == (\E f \in DOMAIN Library : Begin(f)) \/ StepSucceeds \/ StepFails \/ Return

Spec == Init /\ [][Next]_vars

-----------------------------------------------------------------------------
\* Whole objects of a part of the code, and what has leaked.
IsWhole(q, h) ==
    /\ h \subseteq (UNION {o.parts : o \in Objects[q]}) \cup KnownLeaks
    /\ \A o \in Objects[q] : h \cap o.parts \in o.complete

\* What there is when the first n steps of a body have succeeded, from h on:
\* what h has or a step takes, and no later step releases.
HeldAfter(body, n, h) ==
    LET stays(i, r) == \A k \in i + 1 .. n : r \notin body[k].drops \cup body[k].frees
    IN  {r \in h : stays(0, r)} \cup UNION {{r \in body[i].takes : stays(i, r)} : i \in 1 .. n}

\* A step releases only what there is now and takes only what there is not; if
\* it fails, it leaves no more than the call found, what the caller handed in,
\* and whole objects.
StepIsSound(q, needs, s, now, h) ==
    LET left == now \ (s.undo \cup s.closes)
    IN  /\ s.fails # "always" =>
              /\ s.drops \subseteq now
              /\ s.takes \cap (now \ (s.drops \cup s.frees)) \subseteq KnownLeaks
        /\ s.fails # "never" =>
              /\ s.undo \subseteq now
              /\ needs \subseteq left /\ left \subseteq h \cup KnownLeaks \cup Kept
              /\ IsWhole(q, left)

\* The body is run by itself, by a client that owns h.
Reaches(body, n) == \A k \in 1 .. n : body[k].fails # "always"
BodyIsSound(q, needs, body, h) ==
    /\ \A n \in 1 .. Len(body) :
          Reaches(body, n - 1) => StepIsSound(q, needs, body[n], HeldAfter(body, n - 1, h), h)
    /\ Reaches(body, Len(body)) => IsWhole(q, HeldAfter(body, Len(body), h))

\* What a client may own between calls, if nothing has leaked.
Clean(q) ==
    {h \in SUBSET UNION {o.parts : o \in Objects[q]} :
        \A o \in Objects[q] : h \cap o.parts \in o.complete}

\* Every path of every call of the part, run by itself on whole objects and
\* with nothing leaked before, gives back what it took wherever it fails.
LibraryIsSound(q) ==
    \A f \in DOMAIN Libraries[q] : \A h \in Clean(q) :
        LET c == Libraries[q][f]
        IN  c.needs \ KnownLeaks \subseteq h /\ c.absent \cap h = {} =>
                \A body \in c.paths : BodyIsSound(q, c.needs, body, h \cup c.needs)

\* Each call by itself is sound, before the first is made: the error paths of
\* every function in the three modules of bodies.  The other properties are
\* about all sequences of calls, leaks and failures among them.
BodiesAreSound == outcome = "none" => LibraryIsSound(part)

\* Whatever step of a call fails, the call changes nothing for the caller: all
\* it had taken by then is released, but for the leaks that are known, and what
\* the caller handed in is still there (the error paths of every function in the
\* three modules of bodies).
FailureChangesNothing ==
    outcome = "failed" =>
        /\ held \subseteq before \cup KnownLeaks \cup Kept
        /\ Library[call].needs \subseteq held

\* Takes and releases alternate: no path releases what is not held, so nothing
\* is freed twice and no error path frees what was not there yet; and no pointer
\* to something held is written over (open() on an open decoder, a second
\* resampler, a packet read before the last one was unreferenced).
TakesAlternateWithReleases == freed_twice = {} /\ overwritten = {}

\* Between calls the client owns whole objects only: a frame with its block, a
\* plaintext that is locked and will be wiped, a decoder with all its members,
\* and none of what calls use while they run.
ObjectsAreWhole == ~Running => IsWhole(part, held)
=============================================================================
