----------------------------- MODULE ExportJobs -----------------------------
(***************************************************************************)
(* What the export service promises of each job to those who start, poll   *)
(* and cancel it (video_engine.h, "Export pipeline"): progress rises from  *)
(* 0.0 to 1.0, or falls once to -1 because the job was cancelled before it *)
(* was complete, or could not begin; then it is over and nothing changes.  *)
(***************************************************************************)
EXTENDS Integers

CONSTANTS Jobs, ONE

VARIABLES
    known,     \* jobs that can be polled and cancelled
    asked,     \* jobs asked to stop
    progress,
    over

vars == <<known, asked, progress, over>>

Init ==
    /\ known = {} /\ asked = {} /\ over = {}
    /\ progress = [j \in Jobs |-> 0]

Enter(j) ==
    /\ known' = known \cup {j}
    /\ UNCHANGED <<asked, progress, over>>

Ask(j) ==
    /\ j \in known
    /\ asked' = asked \cup {j}
    /\ UNCHANGED <<known, progress, over>>

Running(j) == j \in known /\ progress[j] \in 0 .. ONE - 1

Rise(j, p) ==
    /\ Running(j) /\ progress[j] < p
    /\ progress' = [progress EXCEPT ![j] = p]
    /\ UNCHANGED <<known, asked, over>>

Stop(j) ==
    /\ Running(j) /\ (j \in asked \/ progress[j] = 0)
    /\ progress' = [progress EXCEPT ![j] = -1]
    /\ UNCHANGED <<known, asked, over>>

End(j) ==
    /\ j \in known /\ ~ Running(j)
    /\ over' = over \cup {j}
    /\ UNCHANGED <<known, asked, progress>>

Next ==
    \E j \in Jobs :
        Enter(j) \/ Ask(j) \/ (\E p \in 1 .. ONE : Rise(j, p)) \/ Stop(j) \/ End(j)

Spec == Init /\ [][Next]_vars
=============================================================================
