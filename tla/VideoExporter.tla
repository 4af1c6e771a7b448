--------------------------- MODULE VideoExporter ---------------------------
(***************************************************************************)
(* Native export jobs (video/video_exporter.cpp).  start() spawns a        *)
(* detached worker and only then, under the exporter's mutex, enters the   *)
(* job into _jobs; the worker looks its job up and returns if it is not    *)
(* there.  A worker exports by moving the playhead of the timeline it was  *)
(* given, which is the playhead of the preview and of any other export.    *)
(*                                                                         *)
(* Times are frame numbers.  Progress is an integer, ONE standing for 1.0. *)
(***************************************************************************)
EXTENDS Integers, Sequences

CONSTANTS
    MaxJobs,    \* bound on the exports started
    Totals,     \* lengths, in frames, the timeline may have
    Positions,  \* positions the user may seek to meanwhile
    ONE         \* progress 1.0

ASSUME ExporterAssumption ==
    /\ MaxJobs \in Nat \ {0}
    /\ Totals \subseteq Nat
    /\ ONE \in Nat \ {0} /\ \A n \in Totals : n <= ONE
    /\ Positions \subseteq Nat

VARIABLES
    next_id,     \* of the exporter
    starting,    \* job whose worker start() has spawned and not entered yet, or 0
    jobs,        \* the ids in _jobs; entries are never erased
    progress, cancelled, finished,  \* the atomics of each job
    worker,      \* where the worker of each job is
    total, i,    \* its total_frames and loop counter
    frame,       \* what the frame it renders shows: [time, clips, alone]
    file,        \* its output file
    position,    \* the timeline's playhead
    disturbed,   \* history: another moved the playhead since the job did
    sinceCancel  \* history: frames written after cancel() was called

JobIds == 1 .. MaxJobs

callerVars == <<next_id, starting, jobs, cancelled>>
workerVars == <<progress, finished, worker, total, i, frame, file, sinceCancel>>
playheadVars == <<position, disturbed>>
vars == <<callerVars, workerVars, playheadVars>>

Absent == [state |-> "absent", frames |-> <<>>]

-----------------------------------------------------------------------------
Init ==
    /\ next_id = 1 /\ starting = 0 /\ jobs = {}
    /\ progress = [j \in JobIds |-> 0]
    /\ cancelled = [j \in JobIds |-> FALSE]
    /\ finished = [j \in JobIds |-> FALSE]
    /\ worker = [j \in JobIds |-> "none"]
    /\ total = [j \in JobIds |-> 0]
    /\ i = [j \in JobIds |-> 0]
    /\ frame = [j \in JobIds |-> [time |-> 0, clips |-> 0, alone |-> TRUE]]
    /\ file = [j \in JobIds |-> Absent]
    /\ position = 0
    /\ disturbed = [j \in JobIds |-> FALSE]
    /\ sinceCancel = [j \in JobIds |-> 0]

\* start(): the id is taken and the worker runs ...
StartSpawn ==
    /\ starting = 0 /\ next_id \in JobIds
    /\ next_id' = next_id + 1
    /\ starting' = next_id
    /\ worker' = [worker EXCEPT ![next_id] = "lookup"]
    /\ UNCHANGED <<jobs, cancelled, progress, finished, total, i, frame,
                   file, sinceCancel, playheadVars>>

\* ... before the job is entered.
StartInsert ==
    /\ starting # 0
    /\ jobs' = jobs \cup {starting}
    /\ starting' = 0
    /\ UNCHANGED <<next_id, cancelled, workerVars, playheadVars>>

\* Fault: cancel() reports the job as stopped itself.
Cancel_Reports(j) ==
    /\ starting = 0 /\ j \in jobs
    /\ cancelled' = [cancelled EXCEPT ![j] = TRUE]
    /\ progress' = [progress EXCEPT ![j] = -1]
    /\ UNCHANGED <<next_id, starting, jobs, finished, worker, total, i, frame,
                   file, sinceCancel, playheadVars>>

\* cancel() of a known job.
Cancel(j) ==
    /\ starting = 0 /\ j \in jobs
    /\ cancelled' = [cancelled EXCEPT ![j] = TRUE]
    /\ UNCHANGED <<next_id, starting, jobs, workerVars, playheadVars>>

\* The user moves the playhead.
UserSeek(p) ==
    /\ starting = 0
    /\ position' = p
    /\ disturbed' = [j \in JobIds |-> TRUE]
    /\ UNCHANGED <<callerVars, workerVars>>

-----------------------------------------------------------------------------
\* The worker of job j goes from one place to another.
Goes(j, from, to) ==
    /\ worker[j] = from
    /\ worker' = [worker EXCEPT ![j] = to]
    /\ UNCHANGED callerVars

\* run_export() finds its job, or returns.
LookUp(j) ==
    /\ Goes(j, "lookup", IF j \in jobs THEN "begin" ELSE "done")
    /\ UNCHANGED <<progress, finished, total, i, frame, file, sinceCancel,
                   playheadVars>>

\* Nothing on the timeline: the job is complete without a file.
NothingToExport(j) ==
    /\ 0 \in Totals
    /\ Goes(j, "begin", "complete")
    /\ UNCHANGED <<progress, finished, total, i, frame, file, sinceCancel,
                   playheadVars>>

Open(j, n) ==
    /\ Goes(j, "begin", "check")
    /\ total' = [total EXCEPT ![j] = n]
    /\ file' = [file EXCEPT ![j] = [state |-> "open", frames |-> <<>>]]
    /\ UNCHANGED <<progress, finished, i, frame, sinceCancel, playheadVars>>

\* Fault: the path that cannot be opened just returns.
OpenFails_Returns(j, n) ==
    /\ Goes(j, "begin", "done")
    /\ total' = [total EXCEPT ![j] = n]
    /\ UNCHANGED <<progress, finished, i, frame, file, sinceCancel, playheadVars>>

OpenFails(j, n) ==
    /\ Goes(j, "begin", "give_up")
    /\ total' = [total EXCEPT ![j] = n]
    /\ UNCHANGED <<progress, finished, i, frame, file, sinceCancel, playheadVars>>

\* Fault: the job is cancelled only if it has exported nothing yet.
GoOn_AfterFirst(j) ==
    /\ i[j] < total[j] /\ (i[j] = 0 => ~ cancelled[j])
    /\ Goes(j, "check", "seek")
    /\ UNCHANGED <<progress, finished, total, i, frame, file, sinceCancel,
                   playheadVars>>

\* The head of the loop, for another frame ...
GoOn(j) ==
    /\ i[j] < total[j] /\ ~ cancelled[j]
    /\ Goes(j, "check", "seek")
    /\ UNCHANGED <<progress, finished, total, i, frame, file, sinceCancel,
                   playheadVars>>

\* Fault: a cancelled job leaves what it has written.
Discard_KeepsFile(j) ==
    /\ i[j] < total[j] /\ cancelled[j]
    /\ Goes(j, "check", "give_up")
    /\ file' = [file EXCEPT ![j].state = "closed"]
    /\ UNCHANGED <<progress, finished, total, i, frame, sinceCancel, playheadVars>>

\* ... when cancelled: close and remove the file ...
Discard(j) ==
    /\ i[j] < total[j] /\ cancelled[j]
    /\ Goes(j, "check", "give_up")
    /\ file' = [file EXCEPT ![j] = Absent]
    /\ UNCHANGED <<progress, finished, total, i, frame, sinceCancel, playheadVars>>

\* ... and at the end: close it, whether cancelled or not.
Close(j) ==
    /\ i[j] = total[j]
    /\ Goes(j, "check", "complete")
    /\ file' = [file EXCEPT ![j].state = "closed"]
    /\ UNCHANGED <<progress, finished, total, i, frame, sinceCancel, playheadVars>>

\* Fault: frames are numbered from one.
Seek_FromOne(j) ==
    /\ Goes(j, "seek", "read")
    /\ position' = i[j] + 1
    /\ disturbed' = [k \in JobIds |-> k # j]
    /\ UNCHANGED <<progress, finished, total, i, frame, file, sinceCancel>>

Seek(j) ==
    /\ Goes(j, "seek", "read")
    /\ position' = i[j]
    /\ disturbed' = [k \in JobIds |-> k # j]
    /\ UNCHANGED <<progress, finished, total, i, frame, file, sinceCancel>>

\* render_frame() reads the playhead for the time to render ...
ReadPlayhead(j) ==
    /\ Goes(j, "read", "collect")
    /\ frame' = [frame EXCEPT ![j].time = position]
    /\ UNCHANGED <<progress, finished, total, i, file, sinceCancel, playheadVars>>

\* ... and active_clips_at_position() reads it again.
CollectClips(j) ==
    /\ Goes(j, "collect", "write")
    /\ frame' = [frame EXCEPT ![j].clips = position, ![j].alone = ~ disturbed[j]]
    /\ UNCHANGED <<progress, finished, total, i, file, sinceCancel, playheadVars>>

\* render_frame() fails; its result is not looked at.
RenderFails(j) ==
    /\ Goes(j, "collect", "advance")
    /\ UNCHANGED <<progress, finished, total, i, frame, file, sinceCancel,
                   playheadVars>>

\* The frame is written; nobody releases it to the pool.
Write(j) ==
    /\ Goes(j, "write", "advance")
    /\ file' = [file EXCEPT ![j].frames =
                  Append(@, [number |-> i[j], shows |-> frame[j]])]
    /\ sinceCancel' = [sinceCancel EXCEPT ![j] = IF cancelled[j] THEN @ + 1 ELSE @]
    /\ UNCHANGED <<progress, finished, total, i, frame, playheadVars>>

Advance(j) ==
    /\ Goes(j, "advance", "check")
    /\ i' = [i EXCEPT ![j] = @ + 1]
    /\ progress' = [progress EXCEPT ![j] = ((i[j] + 1) * ONE) \div total[j]]
    /\ UNCHANGED <<finished, total, frame, file, sinceCancel, playheadVars>>

Complete(j) ==
    /\ Goes(j, "complete", "ending")
    /\ progress' = [progress EXCEPT ![j] = ONE]
    /\ UNCHANGED <<finished, total, i, frame, file, sinceCancel, playheadVars>>

GiveUp(j) ==
    /\ Goes(j, "give_up", "ending")
    /\ progress' = [progress EXCEPT ![j] = -1]
    /\ UNCHANGED <<finished, total, i, frame, file, sinceCancel, playheadVars>>

SetFinished(j) ==
    /\ Goes(j, "ending", "done")
    /\ finished' = [finished EXCEPT ![j] = TRUE]
    /\ UNCHANGED <<progress, total, i, frame, file, sinceCancel, playheadVars>>

Work(j) ==
    \/ LookUp(j)
    \/ NothingToExport(j)
    \/ \E n \in Totals \ {0} : Open(j, n) \/ OpenFails(j, n)
    \/ GoOn(j) \/ Discard(j) \/ Close(j)
    \/ Seek(j) \/ ReadPlayhead(j) \/ CollectClips(j) \/ RenderFails(j)
    \/ Write(j) \/ Advance(j)
    \/ Complete(j) \/ GiveUp(j) \/ SetFinished(j)

Next ==
    \/ StartSpawn \/ StartInsert
    \/ \E j \in JobIds : Cancel(j) \/ Work(j)
    \/ \E p \in Positions : UserSeek(p)

Spec == Init /\ [][Next]_vars

\* Threads that are running are scheduled: the caller inside start(), and each
\* worker, which waits for nobody.
FairSpec == Spec /\ WF_vars(StartInsert) /\ \A j \in JobIds : WF_vars(Work(j))

-----------------------------------------------------------------------------
\* A poller that reads -1 for a job finds no partial file, and one that reads
\* finished finds the file closed or none: the file is settled before the
\* outcome is published, on every path out of the worker.
OutcomeMatchesFile ==
    \A j \in JobIds :
        /\ progress[j] = -1 => file[j].state = "absent"
        /\ finished[j] => file[j].state # "open" /\ progress[j] \in {-1, ONE}
        /\ finished[j] /\ progress[j] = ONE /\ total[j] # 0 => file[j].state = "closed"

\* Once cancelled, a job writes no frame but the one it was at.
CancelStopsWithinAFrame == \A j \in JobIds : sinceCancel[j] <= 1

\* The jobs, as those who poll and cancel them see them.
Promise == INSTANCE ExportJobs WITH
    Jobs <- JobIds,
    known <- jobs,
    asked <- {j \in JobIds : cancelled[j]},
    over <- {j \in JobIds : finished[j]}

\* The exporter keeps its promise whenever cancel() is called: what a poller
\* sees rises to 1.0 or ends at -1, the latter only for a job that was cancelled
\* or exported nothing, and does not change once it has ended.
KeepsPromise == Promise!Spec

\* A frame shows the clips of the time it is rendered for, that of its number,
\* unless somebody moved the playhead between the worker's seek and its render;
\* and frames are written in order, none twice.
FramesShowTheirTime ==
    \A j \in JobIds : \A n \in DOMAIN file[j].frames :
        LET f == file[j].frames[n]
        IN  /\ f.shows.alone => f.shows.time = f.number /\ f.shows.clips = f.number
            /\ f.number < total[j]
            /\ \A m \in 1 .. n - 1 : file[j].frames[m].number < f.number

\* A job whose worker found it ends, cancelled or not.
FoundExportFinishes ==
    \A j \in JobIds : worker[j] = "begin" ~> finished[j]

\* Every job start() entered ends.
StartedExportFinishes ==
    \A j \in JobIds : j \in jobs ~> finished[j]
=============================================================================
