------------------------- MODULE ThreadPool_proofs -------------------------
(***************************************************************************)
(* Proofs about ThreadPool.  TypeOK holds the few facts the others need:   *)
(* that only a pool that was stopped loses workers, and that running_ is   *)
(* the owner's doing.  With it, TakenOnce, Drained and NoLostWakeup are    *)
(* each inductive.                                                         *)
(***************************************************************************)
EXTENDS ThreadPool, TLAPS

IInv == TypeOK /\ TakenOnce /\ Drained /\ NoLostWakeup

\* The pool starts with no tasks and all workers about to look at the queue.
LEMMA InitInv == Init => IInv
  <1> SUFFICES ASSUME Init PROVE IInv
    OBVIOUS
  <1> USE DEF Init
  <1>1. TypeOK
    BY DEF TypeOK
  <1>2. TakenOnce
    BY DEF TakenOnce
  <1>3. Drained /\ NoLostWakeup
    BY DEF Drained, NoLostWakeup
  <1> QED
    BY <1>1, <1>2, <1>3 DEF IInv

\* submit() queues a task that is new; it cannot find all workers gone.
LEMMA SubmitInv ==
  ASSUME IInv, NEW p \in Threads, NEW t \in Tasks, submit(p, t)
  PROVE  IInv'
  <1> USE DEF IInv, submit, MaySubmit
  <1>1. TypeOK'
    BY DEF TypeOK, Threads
  <1>2. TakenOnce'
    BY DEF TypeOK, TakenOnce
  <1>3. ~ \A w \in Workers : pc'[w] = "gone"
    <2>1. CASE p \in Workers /\ pc[p] = "run"
      BY <2>1
    <2>2. CASE p \in Clients /\ owner = "using"
      BY <2>2, PoolAssumption DEF TypeOK
    <2> QED
      BY <2>1, <2>2
  <1>4. Drained'
    BY <1>3 DEF Drained, TypeOK, MaySubmit
  <1>5. NoLostWakeup'
    BY DEF NoLostWakeup
  <1> QED
    BY <1>1, <1>2, <1>4, <1>5

\* notify_one() leaves no worker asleep, or wakes one.
LEMMA NotifyInv ==
  ASSUME IInv, NEW p \in Threads, notify_one(p)
  PROVE  IInv'
  <1> USE DEF IInv, notify_one, Woken, Asleep
  <1>1. TypeOK'
    BY DEF TypeOK
  <1>2. TakenOnce'
    BY DEF TypeOK, TakenOnce
  <1>3. \A w \in Workers : pc'[w] = "gone" => pc[w] = "gone"
    BY DEF TypeOK
  <1>4. Drained'
    BY <1>3 DEF Drained
  <1>5. NoLostWakeup'
    BY PoolAssumption DEF NoLostWakeup, TypeOK
  <1> QED
    BY <1>1, <1>2, <1>4, <1>5

\* A worker's step keeps the invariant: it takes a task out of the queue as it
\* counts it, and sleeps or returns only when the queue is empty.
LEMMA WorkerInv ==
  ASSUME IInv, NEW w \in Workers, WorkerLoop(w) \/ SpuriousWakeup(w)
  PROVE  IInv'
  <1> USE DEF IInv
  <1>1. ASSUME NEW t \in Tasks, Take(w, t) PROVE IInv'
    <2>1. TypeOK'
      BY <1>1 DEF TypeOK, Take
    <2>2. TakenOnce'
      BY <1>1 DEF TypeOK, TakenOnce, Take
    <2>3. Drained'
      BY <1>1 DEF TypeOK, Drained, Take
    <2>4. NoLostWakeup'
      BY <1>1 DEF TypeOK, NoLostWakeup, Take
    <2> QED
      BY <2>1, <2>2, <2>3, <2>4
  <1>2. CASE Sleep(w)
    BY <1>2 DEF Sleep, TypeOK, TakenOnce, Drained, NoLostWakeup
  <1>3. CASE Return(w)
    BY <1>3 DEF Return, TypeOK, TakenOnce, Drained, NoLostWakeup
  <1>4. CASE Finish(w)
    BY <1>4 DEF Finish, TypeOK, TakenOnce, Drained, NoLostWakeup
  <1>5. CASE SpuriousWakeup(w)
    BY <1>5 DEF SpuriousWakeup, Woken, TypeOK, TakenOnce, Drained, NoLostWakeup
  <1> QED
    BY <1>1, <1>2, <1>3, <1>4, <1>5 DEF WorkerLoop

\* The destructor changes no task; when it has joined, all workers are gone.
LEMMA OwnerInv ==
  ASSUME IInv, Stop \/ notify_all \/ Join
  PROVE  IInv'
  <1> USE DEF IInv
  <1>1. CASE Stop
    BY <1>1 DEF Stop, TypeOK, TakenOnce, Drained, NoLostWakeup
  <1>2. CASE notify_all
    <2> USE <1>2 DEF notify_all, Woken, Asleep
    <2>1. TypeOK'
      BY DEF TypeOK
    <2>2. TakenOnce'
      BY DEF TakenOnce
    <2>3. Drained'
      BY DEF TypeOK, Drained
    <2>4. NoLostWakeup'
      BY PoolAssumption DEF TypeOK, NoLostWakeup
    <2> QED
      BY <2>1, <2>2, <2>3, <2>4
  <1>3. CASE Join
    BY <1>3 DEF Join, TypeOK, TakenOnce, Drained, NoLostWakeup
  <1> QED
    BY <1>1, <1>2, <1>3

LEMMA NextInv == IInv /\ [Next]_vars => IInv'
  <1> SUFFICES ASSUME IInv, [Next]_vars PROVE IInv'
    OBVIOUS
  <1>1. ASSUME NEW p \in Threads, NEW t \in Tasks, submit(p, t) PROVE IInv'
    BY <1>1, SubmitInv
  <1>2. ASSUME NEW p \in Threads, notify_one(p) PROVE IInv'
    BY <1>2, NotifyInv
  <1>3. ASSUME NEW w \in Workers, WorkerLoop(w) \/ SpuriousWakeup(w) PROVE IInv'
    BY <1>3, WorkerInv
  <1>4. CASE Stop \/ notify_all \/ Join
    BY <1>4, OwnerInv
  <1>5. CASE UNCHANGED vars
    BY <1>5 DEF vars, IInv, TypeOK, TakenOnce, Drained, NoLostWakeup
  <1> QED
    BY <1>1, <1>2, <1>3, <1>4, <1>5 DEF Next

\* The invariant holds for any number of workers, clients and tasks.
THEOREM Invariance == Spec => []IInv
  BY InitInv, NextInv, PTL DEF Spec

\* Every task submitted is queued or was taken once.
THEOREM TasksTakenOnce == Spec => []TakenOnce
  <1>1. IInv => TakenOnce
    BY DEF IInv
  <1> QED
    BY <1>1, Invariance, PTL

\* The destructor of the pool leaves no task behind.
THEOREM QueueDrained == Spec => []Drained
  <1>1. IInv => Drained
    BY DEF IInv
  <1> QED
    BY <1>1, Invariance, PTL

\* No wakeup is lost.
THEOREM WakeupsNotLost == Spec => []NoLostWakeup
  <1>1. IInv => NoLostWakeup
    BY DEF IInv
  <1> QED
    BY <1>1, Invariance, PTL

-----------------------------------------------------------------------------
(* What DestructorReturns needs of the wakeups.                             *)

\* Once notify_all() was called, no worker sleeps.
NobodySleepsOn ==
    owner \in {"joining", "destroyed"} => \A w \in Workers : pc[w] # "wait"

LEMMA AwakeStays == IInv /\ NobodySleepsOn /\ [Next]_vars => NobodySleepsOn'
  <1> SUFFICES ASSUME IInv, NobodySleepsOn, [Next]_vars PROVE NobodySleepsOn'
    OBVIOUS
  <1> USE DEF IInv, TypeOK, NobodySleepsOn
  <1>1. ASSUME NEW p \in Threads, NEW t \in Tasks, submit(p, t) PROVE NobodySleepsOn'
    BY <1>1 DEF submit
  <1>2. ASSUME NEW p \in Threads, notify_one(p) PROVE NobodySleepsOn'
    BY <1>2 DEF notify_one, Woken, Asleep
  <1>3. ASSUME NEW w \in Workers, WorkerLoop(w) PROVE NobodySleepsOn'
    BY <1>3 DEF WorkerLoop, Take, Sleep, Return, Finish
  <1>4. ASSUME NEW w \in Workers, SpuriousWakeup(w) PROVE NobodySleepsOn'
    BY <1>4 DEF SpuriousWakeup, Woken
  <1>5. CASE Stop
    BY <1>5 DEF Stop
  <1>6. CASE notify_all
    BY <1>6 DEF notify_all, Woken, Asleep
  <1>7. CASE Join
    BY <1>7 DEF Join
  <1>8. CASE UNCHANGED vars
    BY <1>8 DEF vars
  <1> QED
    BY <1>1, <1>2, <1>3, <1>4, <1>5, <1>6, <1>7, <1>8 DEF Next

\* The destructor never joins a worker that sleeps: none is asleep when it
\* starts to join, and none goes to sleep after the pool was stopped, however
\* late it looks at the queue.
THEOREM NoWorkerIsJoinedAsleep == Spec => []NobodySleepsOn
  <1>1. Init => NobodySleepsOn
    BY DEF Init, NobodySleepsOn
  <1> QED
    BY <1>1, AwakeStays, Invariance, PTL DEF Spec
=============================================================================
