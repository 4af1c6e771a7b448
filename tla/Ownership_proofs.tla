-------------------------- MODULE Ownership_proofs --------------------------
(***************************************************************************)
(* Proofs about Ownership, whatever the bodies: if each body by itself is  *)
(* sound from whole objects, then so are all sequences of calls, leaks and *)
(* failures among them.  While a call runs, what is held is what its body  *)
(* holds after its steps so far (HeldAfter); between calls it is whole.    *)
(* What has leaked before a call makes no difference to it.                *)
(***************************************************************************)
EXTENDS Ownership, SequenceTheorems, TLAPS

IsBody(body) == body \in Seq({body[i] : i \in DOMAIN body})

LEMMA PathsAreBodies ==
  ASSUME NEW q \in DOMAIN Libraries, NEW f \in DOMAIN Libraries[q],
         NEW body \in Libraries[q][f].paths
  PROVE  IsBody(body) /\ Len(body) \in Nat
  BY BodiesAssumption, LenProperties DEF IsBody

LEMMA LeaksAreNoParts ==
  ASSUME NEW q \in DOMAIN Libraries, NEW o \in Objects[q]
  PROVE  {} \in o.complete /\ o.parts \cap KnownLeaks = {}
  BY BodiesAssumption

-----------------------------------------------------------------------------
(* What a body holds.                                                       *)

LEMMA HeldAtFirst ==
  ASSUME NEW body, NEW h
  PROVE  HeldAfter(body, 0, h) = h
  BY DEF HeldAfter

\* One step releases and takes.
LEMMA HeldAfterStep ==
  ASSUME NEW body, NEW n \in Nat, NEW h, NEW s, s = body[n + 1]
  PROVE  HeldAfter(body, n + 1, h)
            = (HeldAfter(body, n, h) \ (s.drops \cup s.frees)) \cup s.takes
  <1> DEFINE gone(k) == body[k].drops \cup body[k].frees
             stays(i, m, r) == \A k \in i + 1 .. m : r \notin gone(k)
             taken(m) == UNION {{r \in body[i].takes : stays(i, m, r)} : i \in 1 .. m}
             had(m) == {r \in h : stays(0, m, r)}
  <1>1. \A m : HeldAfter(body, m, h) = had(m) \cup taken(m)
    BY DEF HeldAfter
  <1>2. \A r : \A i \in 0 .. n : stays(i, n + 1, r) <=> stays(i, n, r) /\ r \notin gone(n + 1)
    <2> SUFFICES ASSUME NEW i \in 0 .. n, NEW r
                 PROVE  stays(i, n + 1, r) <=> stays(i, n, r) /\ r \notin gone(n + 1)
      OBVIOUS
    <2>1. i + 1 .. n + 1 = (i + 1 .. n) \cup {n + 1}
      OBVIOUS
    <2> HIDE DEF gone
    <2> QED
      BY <2>1
  <1>3. \A r : stays(n + 1, n + 1, r)
    OBVIOUS
  <1> HIDE DEF stays
  <1>4. had(n + 1) = had(n) \ gone(n + 1)
    BY <1>2
  <1>5. taken(n + 1) = (taken(n) \ gone(n + 1)) \cup body[n + 1].takes
    <2>1. 1 .. n + 1 = (1 .. n) \cup {n + 1}
      OBVIOUS
    <2> DEFINE from(i, m) == {r \in body[i].takes : stays(i, m, r)}
    <2>2. \A i \in 1 .. n : from(i, n + 1) = from(i, n) \ gone(n + 1)
      BY <1>2
    <2>3. from(n + 1, n + 1) = body[n + 1].takes
      BY <1>3
    <2>4. \A m : taken(m) = UNION {from(i, m) : i \in 1 .. m}
      OBVIOUS
    <2> HIDE DEF from, taken, gone
    <2> QED
      BY <2>1, <2>2, <2>3, <2>4
  <1> HIDE DEF had, taken
  <1> QED
    BY <1>1, <1>4, <1>5

\* A body that finds more holds no less, and no more than that.
LEMMA HeldFromMore ==
  ASSUME NEW body, NEW n, NEW h, NEW more, h \subseteq more
  PROVE  /\ HeldAfter(body, n, h) \subseteq HeldAfter(body, n, more)
         /\ HeldAfter(body, n, more) \subseteq HeldAfter(body, n, h) \cup (more \ h)
  BY DEF HeldAfter

-----------------------------------------------------------------------------
(* What has leaked before makes no difference.                              *)

LEMMA WholeWithLeaks ==
  ASSUME NEW q \in DOMAIN Libraries, NEW h, NEW more,
         IsWhole(q, h), h \subseteq more, more \subseteq h \cup KnownLeaks
  PROVE  IsWhole(q, more)
  <1>1. ASSUME NEW o \in Objects[q] PROVE more \cap o.parts = h \cap o.parts
    BY LeaksAreNoParts
  <1> QED
    BY <1>1 DEF IsWhole

LEMMA StepWithLeaks ==
  ASSUME NEW q \in DOMAIN Libraries, NEW needs, NEW s, NEW now, NEW h, NEW more, NEW there,
         StepIsSound(q, needs, s, now, h),
         h \subseteq more, more \subseteq h \cup KnownLeaks,
         now \subseteq there, there \subseteq now \cup KnownLeaks
  PROVE  StepIsSound(q, needs, s, there, more)
  <1>1. ASSUME s.fails # "always"
        PROVE  /\ s.drops \subseteq there
               /\ s.takes \cap (there \ (s.drops \cup s.frees)) \subseteq KnownLeaks
    BY <1>1 DEF StepIsSound
  <1>2. ASSUME s.fails # "never"
        PROVE  LET left == there \ (s.undo \cup s.closes)
               IN  /\ s.undo \subseteq there
                   /\ needs \subseteq left /\ left \subseteq more \cup KnownLeaks \cup Kept
                   /\ IsWhole(q, left)
    <2> DEFINE left == now \ (s.undo \cup s.closes)
               remains == there \ (s.undo \cup s.closes)
    <2>1. /\ s.undo \subseteq now /\ needs \subseteq left
          /\ left \subseteq h \cup KnownLeaks \cup Kept /\ IsWhole(q, left)
      BY <1>2 DEF StepIsSound
    <2>2. left \subseteq remains /\ remains \subseteq left \cup KnownLeaks
      OBVIOUS
    <2>3. IsWhole(q, remains)
      BY <2>1, <2>2, WholeWithLeaks
    <2> QED
      BY <2>1, <2>2, <2>3
  <1> QED
    BY <1>1, <1>2 DEF StepIsSound

LEMMA BodyWithLeaks ==
  ASSUME NEW q \in DOMAIN Libraries, NEW needs, NEW body, NEW h, NEW more,
         BodyIsSound(q, needs, body, h), h \subseteq more, more \subseteq h \cup KnownLeaks
  PROVE  BodyIsSound(q, needs, body, more)
  <1>1. \A n : /\ HeldAfter(body, n, h) \subseteq HeldAfter(body, n, more)
               /\ HeldAfter(body, n, more) \subseteq HeldAfter(body, n, h) \cup KnownLeaks
    BY HeldFromMore
  <1>2. ASSUME NEW n \in 1 .. Len(body), Reaches(body, n - 1)
        PROVE  StepIsSound(q, needs, body[n], HeldAfter(body, n - 1, more), more)
    <2>1. StepIsSound(q, needs, body[n], HeldAfter(body, n - 1, h), h)
      BY <1>2 DEF BodyIsSound
    <2> QED
      BY <1>1, <2>1, StepWithLeaks
  <1>3. ASSUME Reaches(body, Len(body))
        PROVE  IsWhole(q, HeldAfter(body, Len(body), more))
    <2>1. IsWhole(q, HeldAfter(body, Len(body), h))
      BY <1>3 DEF BodyIsSound
    <2> QED
      BY <1>1, <2>1, WholeWithLeaks
  <1> QED
    BY <1>2, <1>3 DEF BodyIsSound

\* A call that may begin is sound: the client owns whole objects, and leaks.
LEMMA CallIsSound ==
  ASSUME NEW q \in DOMAIN Libraries, LibraryIsSound(q), NEW f \in DOMAIN Libraries[q],
         NEW h, IsWhole(q, h), Libraries[q][f].needs \subseteq h,
         Libraries[q][f].absent \cap h = {}, NEW body \in Libraries[q][f].paths
  PROVE  BodyIsSound(q, Libraries[q][f].needs, body, h)
  <1> DEFINE clean == h \ KnownLeaks
             needs == Libraries[q][f].needs
  <1>1. clean \in Clean(q)
    <2>1. ASSUME NEW o \in Objects[q] PROVE clean \cap o.parts = h \cap o.parts
      BY LeaksAreNoParts
    <2> QED
      BY <2>1 DEF IsWhole, Clean
  <1>2. needs \ KnownLeaks \subseteq clean /\ Libraries[q][f].absent \cap clean = {}
    OBVIOUS
  <1>3. BodyIsSound(q, needs, body, clean \cup needs)
    BY <1>1, <1>2 DEF LibraryIsSound
  <1>4. clean \cup needs \subseteq h /\ h \subseteq (clean \cup needs) \cup KnownLeaks
    OBVIOUS
  <1> QED
    BY <1>3, <1>4, BodyWithLeaks

-----------------------------------------------------------------------------
(* The inductive invariant.                                                 *)

\* The call that runs has made n steps of one of its bodies.
InBody(body, n) ==
    /\ todo = SubSeq(body, n + 1, Len(body))
    /\ held = HeldAfter(body, n, before)
    /\ Reaches(body, n)

CallRuns ==
    /\ call \in DOMAIN Library
    /\ IsWhole(part, before)
    /\ Library[call].needs \subseteq before
    /\ Library[call].absent \cap before = {}
    /\ \E body \in Library[call].paths : \E n \in 0 .. Len(body) : InBody(body, n)

IInv ==
    /\ part \in DOMAIN Libraries
    /\ LibraryIsSound(part)
    /\ Running => CallRuns
    /\ FailureChangesNothing
    /\ TakesAlternateWithReleases
    /\ ObjectsAreWhole

LEMMA InitInv == Init /\ BodiesAreSound => IInv
  <1> SUFFICES ASSUME Init, BodiesAreSound PROVE IInv
    OBVIOUS
  <1>1. part \in DOMAIN Libraries /\ LibraryIsSound(part)
    BY DEF Init, BodiesAreSound
  <1>2. IsWhole(part, {})
    BY <1>1, LeaksAreNoParts DEF IsWhole
  <1> QED
    BY <1>1, <1>2 DEF IInv, Init, Running, FailureChangesNothing, TakesAlternateWithReleases,
                      ObjectsAreWhole

LEMMA BeginInv ==
  ASSUME IInv, NEW f \in DOMAIN Library, Begin(f)
  PROVE  IInv'
  <1>1. /\ part' = part /\ held' = held /\ before' = held /\ call' = f
        /\ freed_twice' = freed_twice /\ overwritten' = overwritten /\ outcome' = "running"
        /\ Library[f].needs \subseteq held /\ Library[f].absent \cap held = {}
    BY DEF Begin
  <1>2. IsWhole(part, held)
    BY DEF IInv, ObjectsAreWhole, Begin
  <1>3. PICK body \in Library[f].paths : todo' = body
    BY DEF Begin
  <1>4. IsBody(body) /\ Len(body) \in Nat
    BY PathsAreBodies DEF IInv, Library
  <1>5. InBody(body, 0)'
    <2>1. SubSeq(body, 0 + 1, Len(body)) = body
      BY <1>4, SubSeqFull DEF IsBody
    <2>2. HeldAfter(body, 0, held) = held
      BY HeldAtFirst
    <2>3. Reaches(body, 0)
      BY DEF Reaches
    <2> QED
      BY <1>1, <1>3, <2>1, <2>2, <2>3 DEF InBody
  <1>6. CallRuns'
    <2>1. 0 \in 0 .. Len(body)
      BY <1>4
    <2> QED
      BY <1>1, <1>2, <1>3, <1>5, <2>1 DEF CallRuns, Library
  <1> QED
    BY <1>1, <1>6 DEF IInv, Running, FailureChangesNothing, TakesAlternateWithReleases,
                      ObjectsAreWhole

\* A call in a body has a next step, which is sound, or has come to its end.
NextIsSound(body, n) ==
    /\ InBody(body, n)
    /\ n <= Len(body) /\ Len(body) \in Nat
    /\ n < Len(body) =>
          /\ todo # <<>>
          /\ Head(todo) = body[n + 1]
          /\ Tail(todo) = SubSeq(body, n + 2, Len(body))
          /\ StepIsSound(part, Library[call].needs, body[n + 1], held, before)
    /\ n = Len(body) => todo = <<>> /\ IsWhole(part, held)

LEMMA InsideBody ==
  ASSUME IInv, Running
  PROVE  \E body \in Library[call].paths : \E n \in Nat : NextIsSound(body, n)
  <1>1. PICK body \in Library[call].paths : \E n \in 0 .. Len(body) : InBody(body, n)
    BY DEF IInv, CallRuns
  <1>2. IsBody(body) /\ Len(body) \in Nat
    BY PathsAreBodies DEF IInv, CallRuns, Library
  <1>3. PICK n \in 0 .. Len(body) : InBody(body, n)
    BY <1>1
  <1>4. BodyIsSound(part, Library[call].needs, body, before)
    BY CallIsSound DEF IInv, CallRuns, Library
  <1>5. ASSUME n < Len(body)
        PROVE  /\ todo # <<>>
               /\ Head(todo) = body[n + 1]
               /\ Tail(todo) = SubSeq(body, n + 2, Len(body))
               /\ StepIsSound(part, Library[call].needs, body[n + 1], held, before)
    <2>1. n + 1 \in 1 .. Len(body) /\ (n + 1) - 1 = n /\ (n + 1) + 1 = n + 2
      BY <1>2, <1>5
    <2>2. todo # <<>>
      <3>1. Len(todo) = Len(body) - (n + 1) + 1
        BY <1>2, <1>3, <2>1, SubSeqProperties DEF InBody, IsBody
      <3> QED
        BY <1>2, <1>5, <3>1
    <2>3. Head(todo) = body[n + 1] /\ Tail(todo) = SubSeq(body, n + 2, Len(body))
      BY <1>2, <1>3, <2>1, HeadTailOfSubSeq DEF InBody, IsBody
    <2>4. StepIsSound(part, Library[call].needs, body[n + 1], held, before)
      BY <1>3, <1>4, <2>1 DEF BodyIsSound, InBody
    <2> QED
      BY <2>2, <2>3, <2>4
  <1>6. ASSUME n = Len(body) PROVE todo = <<>> /\ IsWhole(part, held)
    <2>1. SubSeq(body, Len(body) + 1, Len(body)) = <<>>
      BY <1>2, SubSeqEmpty DEF IsBody
    <2> QED
      BY <1>3, <1>4, <1>6, <2>1 DEF BodyIsSound, InBody
  <1>7. n \in Nat /\ n <= Len(body)
    BY <1>2
  <1>8. NextIsSound(body, n)
    BY <1>2, <1>3, <1>5, <1>6, <1>7 DEF NextIsSound
  <1> QED
    BY <1>7, <1>8

LEMMA StepInv ==
  ASSUME IInv, StepSucceeds
  PROVE  IInv'
  <1>1. Running /\ todo # <<>> /\ Head(todo).fails # "always"
    BY DEF StepSucceeds
  <1>0. PICK body \in Library[call].paths : \E n \in Nat : NextIsSound(body, n)
    BY <1>1, InsideBody
  <1> PICK n \in Nat : NextIsSound(body, n)
    BY <1>0
  <1>2. /\ InBody(body, n) /\ n < Len(body) /\ Len(body) \in Nat
        /\ Head(todo) = body[n + 1]
        /\ Tail(todo) = SubSeq(body, n + 2, Len(body))
        /\ StepIsSound(part, Library[call].needs, body[n + 1], held, before)
    BY <1>1 DEF NextIsSound
  <1> DEFINE s == body[n + 1]
  <1>3. /\ held' = (held \ (s.drops \cup s.frees)) \cup s.takes
        /\ freed_twice' = freed_twice \cup (s.drops \ held)
        /\ overwritten' = overwritten
              \cup ((s.takes \cap (held \ (s.drops \cup s.frees))) \ KnownLeaks)
        /\ todo' = SubSeq(body, n + 2, Len(body)) /\ s.fails # "always"
        /\ UNCHANGED <<part, call, outcome, before>>
    BY <1>2 DEF StepSucceeds
  <1>4. s.drops \subseteq held
        /\ s.takes \cap (held \ (s.drops \cup s.frees)) \subseteq KnownLeaks
    BY <1>2, <1>3 DEF StepIsSound
  <1>5. TakesAlternateWithReleases'
    BY <1>3, <1>4 DEF IInv, TakesAlternateWithReleases
  <1>6. InBody(body, n + 1)'
    <2>1. held' = HeldAfter(body, n + 1, before)
      BY <1>2, <1>3, HeldAfterStep DEF InBody
    <2>2. Reaches(body, n + 1)
      <3>1. 1 .. n + 1 = (1 .. n) \cup {n + 1}
        BY <1>2
      <3> QED
        BY <1>2, <1>3, <3>1 DEF Reaches, InBody
    <2>3. (n + 1) + 1 = n + 2
      BY <1>2
    <2> QED
      BY <1>3, <2>1, <2>2, <2>3 DEF InBody
  <1>7. CallRuns'
    <2>1. n + 1 \in 0 .. Len(body)
      BY <1>2
    <2>2. Library' = Library
      BY <1>3 DEF Library
    <2> QED
      BY <1>1, <1>3, <1>6, <2>1, <2>2 DEF IInv, CallRuns
  <1>8. Running'
    BY <1>1, <1>3 DEF Running
  <1> QED
    BY <1>3, <1>5, <1>7, <1>8 DEF IInv, Running, FailureChangesNothing, ObjectsAreWhole

LEMMA FailInv ==
  ASSUME IInv, StepFails
  PROVE  IInv'
  <1>1. Running /\ todo # <<>> /\ Head(todo).fails # "never"
    BY DEF StepFails
  <1>0. PICK body \in Library[call].paths : \E n \in Nat : NextIsSound(body, n)
    BY <1>1, InsideBody
  <1> PICK n \in Nat : NextIsSound(body, n)
    BY <1>0
  <1>2. /\ n < Len(body) /\ Head(todo) = body[n + 1]
        /\ StepIsSound(part, Library[call].needs, body[n + 1], held, before)
    BY <1>1 DEF NextIsSound
  <1> DEFINE s == body[n + 1]
  <1>3. /\ held' = held \ (s.undo \cup s.closes)
        /\ freed_twice' = freed_twice \cup (s.undo \ held)
        /\ outcome' = "failed" /\ s.fails # "never"
        /\ UNCHANGED <<part, call, before, overwritten>>
    BY <1>2 DEF StepFails
  <1>4. /\ s.undo \subseteq held
        /\ Library[call].needs \subseteq held' /\ held' \subseteq before \cup KnownLeaks \cup Kept
        /\ IsWhole(part, held')
    BY <1>2, <1>3 DEF StepIsSound
  <1>5. FailureChangesNothing'
    BY <1>3, <1>4 DEF FailureChangesNothing, Library
  <1>6. TakesAlternateWithReleases' /\ ObjectsAreWhole'
    BY <1>3, <1>4 DEF IInv, TakesAlternateWithReleases, ObjectsAreWhole
  <1> QED
    BY <1>3, <1>5, <1>6 DEF IInv, Running

LEMMA ReturnInv ==
  ASSUME IInv, Return
  PROVE  IInv'
  <1>1. Running /\ todo = <<>>
    BY DEF Return
  <1>2. IsWhole(part, held)
    BY <1>1, InsideBody DEF NextIsSound
  <1>3. outcome' = "ok" /\ UNCHANGED <<part, call, todo, held, before, freed_twice, overwritten>>
    BY DEF Return
  <1> QED
    BY <1>2, <1>3 DEF IInv, Running, FailureChangesNothing, TakesAlternateWithReleases,
                      ObjectsAreWhole

LEMMA NextInv == IInv /\ [Next]_vars => IInv'
  <1> SUFFICES ASSUME IInv, [Next]_vars PROVE IInv'
    OBVIOUS
  <1>1. ASSUME NEW f \in DOMAIN Library, Begin(f) PROVE IInv'
    BY <1>1, BeginInv
  <1>2. CASE StepSucceeds
    BY <1>2, StepInv
  <1>3. CASE StepFails
    BY <1>3, FailInv
  <1>4. CASE Return
    BY <1>4, ReturnInv
  <1>5. CASE UNCHANGED vars
    BY <1>5 DEF vars, IInv, CallRuns, InBody, Library, Running, FailureChangesNothing,
                TakesAlternateWithReleases, ObjectsAreWhole
  <1> QED
    BY <1>1, <1>2, <1>3, <1>4, <1>5 DEF Next

\* The invariant holds for any bodies that are sound one by one.
THEOREM OwnershipInvariance == Spec /\ BodiesAreSound => []IInv
  BY InitInv, NextInv, PTL DEF Spec

\* A call that fails gives back what it took, whatever was called before it.
THEOREM FailuresAreHarmless == Spec /\ BodiesAreSound => []FailureChangesNothing
  <1>1. IInv => FailureChangesNothing
    BY DEF IInv
  <1> QED
    BY <1>1, OwnershipInvariance, PTL

\* In no sequence of calls is a thing released twice or its pointer written over.
THEOREM ReleasedOnce == Spec /\ BodiesAreSound => []TakesAlternateWithReleases
  <1>1. IInv => TakesAlternateWithReleases
    BY DEF IInv
  <1> QED
    BY <1>1, OwnershipInvariance, PTL

\* After every sequence of calls the client owns whole objects.
THEOREM WholeObjects == Spec /\ BodiesAreSound => []ObjectsAreWhole
  <1>1. IInv => ObjectsAreWhole
    BY DEF IInv
  <1> QED
    BY <1>1, OwnershipInvariance, PTL
=============================================================================
