----------------------------- MODULE ThreadPool -----------------------------
(***************************************************************************)
(* The thread pool of the native core (core/thread_pool.cpp): a priority   *)
(* queue under a mutex, a condition variable, and a destructor that stops  *)
(* the workers, which drain the queue first, and joins them.               *)
(*                                                                         *)
(* A step is what a thread does while it holds the mutex, or a call on the *)
(* condition variable.  notify_one() wakes one of the workers asleep then, *)
(* and none if there is none; a worker may also wake for no reason.  Tasks *)
(* may submit tasks.                                                       *)
(***************************************************************************)
EXTENDS Naturals, FiniteSets

CONSTANTS
    Workers,
    Clients,     \* threads that submit from outside
    Tasks,       \* each is submitted at most once
    PriorityOf   \* Tasks -> priority

ASSUME PoolAssumption ==
    /\ Workers # {}
    /\ Workers \cap Clients = {}
    /\ PriorityOf \in [Tasks -> 0 .. 3]

VARIABLES
    tasks,      \* tasks in the queue
    running,    \* running_
    pc,         \* where each worker is
    notifying,  \* threads between the unlock and the notify_one() of submit()
    submitted,  \* tasks submitted so far
    runs,       \* history: how often each task was taken
    owner       \* what the thread that owns the pool does

vars == <<tasks, running, pc, notifying, submitted, runs, owner>>

-----------------------------------------------------------------------------
Init ==
    /\ tasks = {} /\ running = TRUE
    /\ pc = [w \in Workers |-> "check"]
    /\ notifying = {} /\ submitted = {}
    /\ runs = [t \in Tasks |-> 0]
    /\ owner = "using"

\* Clients submit while the pool is in use, tasks while they run.
MaySubmit(p) ==
    /\ p \notin notifying
    /\ \/ p \in Clients /\ owner = "using"
       \/ p \in Workers /\ pc[p] = "run"

submit(p, t) ==
    /\ MaySubmit(p) /\ t \notin submitted
    /\ tasks' = tasks \cup {t}
    /\ submitted' = submitted \cup {t}
    /\ notifying' = notifying \cup {p}
    /\ UNCHANGED <<running, pc, runs, owner>>

\* The workers that wake when n of those asleep are woken.
Woken(asleep) == [w \in Workers |-> IF w \in asleep THEN "check" ELSE pc[w]]
Asleep == {w \in Workers : pc[w] = "wait"}

\* Fault: a submission wakes a worker only if its task is alone in the queue.
notify_one_IfOne(p) ==
    /\ p \in notifying
    /\ notifying' = notifying \ {p}
    /\ \/ (Asleep = {} \/ Cardinality(tasks) # 1) /\ UNCHANGED pc
       \/ Cardinality(tasks) = 1 /\ \E w \in Asleep : pc' = Woken({w})
    /\ UNCHANGED <<tasks, running, submitted, runs, owner>>

notify_one(p) ==
    /\ p \in notifying
    /\ notifying' = notifying \ {p}
    /\ \/ Asleep = {} /\ UNCHANGED pc
       \/ \E w \in Asleep : pc' = Woken({w})
    /\ UNCHANGED <<tasks, running, submitted, runs, owner>>

\* Fault: top() without pop().
Take_NoPop(w, t) ==
    /\ pc[w] = "check"
    /\ t \in tasks /\ \A u \in tasks : PriorityOf[u] <= PriorityOf[t]
    /\ runs' = [runs EXCEPT ![t] = @ + 1]
    /\ pc' = [pc EXCEPT ![w] = "run"]
    /\ UNCHANGED <<tasks, running, notifying, submitted, owner>>

\* A worker takes a task of the highest priority, also when stopping ...
Take(w, t) ==
    /\ pc[w] = "check"
    /\ t \in tasks /\ \A u \in tasks : PriorityOf[u] <= PriorityOf[t]
    /\ tasks' = tasks \ {t}
    /\ runs' = [runs EXCEPT ![t] = @ + 1]
    /\ pc' = [pc EXCEPT ![w] = "run"]
    /\ UNCHANGED <<running, notifying, submitted, owner>>

\* Fault: a worker goes to sleep without looking at the queue.
Sleep_Unchecked(w) ==
    /\ pc[w] = "check" /\ running
    /\ pc' = [pc EXCEPT ![w] = "wait"]
    /\ UNCHANGED <<tasks, running, notifying, submitted, runs, owner>>

\* ... goes to sleep if there is none ...
Sleep(w) ==
    /\ pc[w] = "check" /\ running /\ tasks = {}
    /\ pc' = [pc EXCEPT ![w] = "wait"]
    /\ UNCHANGED <<tasks, running, notifying, submitted, runs, owner>>

\* Fault: a worker returns as soon as the pool stops.
Return_AtOnce(w) ==
    /\ pc[w] = "check" /\ ~ running
    /\ pc' = [pc EXCEPT ![w] = "gone"]
    /\ UNCHANGED <<tasks, running, notifying, submitted, runs, owner>>

\* ... and returns if the pool is stopping, too.
Return(w) ==
    /\ pc[w] = "check" /\ ~ running /\ tasks = {}
    /\ pc' = [pc EXCEPT ![w] = "gone"]
    /\ UNCHANGED <<tasks, running, notifying, submitted, runs, owner>>

SpuriousWakeup(w) ==
    /\ pc[w] = "wait"
    /\ pc' = Woken({w})
    /\ UNCHANGED <<tasks, running, notifying, submitted, runs, owner>>

\* task.func() returns.
Finish(w) ==
    /\ pc[w] = "run" /\ w \notin notifying
    /\ pc' = [pc EXCEPT ![w] = "check"]
    /\ UNCHANGED <<tasks, running, notifying, submitted, runs, owner>>

\* The destructor, when no other thread is in submit(): stop ...
Stop ==
    /\ owner = "using" /\ notifying \cap Clients = {}
    /\ running' = FALSE
    /\ owner' = "notifying"
    /\ UNCHANGED <<tasks, pc, notifying, submitted, runs>>

\* Fault: one worker is woken.
notify_all_One ==
    /\ owner = "notifying"
    /\ \/ Asleep = {} /\ UNCHANGED pc
       \/ \E w \in Asleep : pc' = Woken({w})
    /\ owner' = "joining"
    /\ UNCHANGED <<tasks, running, notifying, submitted, runs>>

\* ... wake everyone ...
notify_all ==
    /\ owner = "notifying"
    /\ pc' = Woken(Asleep)
    /\ owner' = "joining"
    /\ UNCHANGED <<tasks, running, notifying, submitted, runs>>

\* ... and join.
Join ==
    /\ owner = "joining" /\ \A w \in Workers : pc[w] = "gone"
    /\ owner' = "destroyed"
    /\ UNCHANGED <<tasks, running, pc, notifying, submitted, runs>>

WorkerLoop(w) ==
    (\E t \in Tasks : Take(w, t)) \/ Sleep(w) \/ Return(w) \/ Finish(w)

Threads == Workers \cup Clients

Next ==
    \/ \E p \in Threads, t \in Tasks : submit(p, t)
    \/ \E p \in Threads : notify_one(p)
    \/ \E w \in Workers : WorkerLoop(w) \/ SpuriousWakeup(w)
    \/ Stop \/ notify_all \/ Join

Spec == Init /\ [][Next]_vars

\* Threads that can go on do, and tasks end.  Nobody need submit, destroy the
\* pool, or wake for no reason.
FairSpec ==
    /\ Spec
    /\ \A w \in Workers : WF_vars(WorkerLoop(w))
    /\ \A p \in Threads : WF_vars(notify_one(p))
    /\ WF_vars(notify_all) /\ WF_vars(Join)

-----------------------------------------------------------------------------
\* Type invariant, with what the variables' values imply of each other.
TypeOK ==
    /\ tasks \subseteq submitted /\ submitted \subseteq Tasks
    /\ running \in BOOLEAN
    /\ pc \in [Workers -> {"check", "wait", "run", "gone"}]
    /\ \A w \in Workers : pc[w] = "gone" => ~ running
    /\ notifying \subseteq Threads
    /\ runs \in [Tasks -> Nat]
    /\ owner \in {"using", "notifying", "joining", "destroyed"}
    /\ running <=> owner = "using"
    /\ owner = "destroyed" => \A w \in Workers : pc[w] = "gone"

\* Every task submitted is either still queued or was taken by one worker once,
\* whoever submitted it and whenever the pool was stopped.
TakenOnce ==
    \A t \in Tasks : runs[t] = IF t \in submitted \ tasks THEN 1 ELSE 0

\* The destructor drains the queue: no worker is gone while a task is queued
\* that nobody is left to take, and in the end no task is left.
Drained ==
    /\ owner = "destroyed" => tasks = {}
    /\ (\A w \in Workers : pc[w] = "gone") => tasks = {}

\* No wakeup is lost: while a task is queued, not all workers sleep, unless a
\* notification is on its way.
NoLostWakeup ==
    tasks # {} /\ (\A w \in Workers : pc[w] = "wait") => notifying # {}

\* A queued task is taken in the end.
TasksAreTaken == \A t \in Tasks : t \in tasks ~> t \notin tasks

\* A destructor that was called returns.
DestructorReturns == owner = "notifying" ~> owner = "destroyed"
=============================================================================
