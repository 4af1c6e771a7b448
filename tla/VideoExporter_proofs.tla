----------------------- MODULE VideoExporter_proofs -----------------------
(***************************************************************************)
(* Proofs about VideoExporter: its safety, and that it implements          *)
(* ExportJobs, for any number of jobs, lengths and seeks.                  *)
(*                                                                         *)
(* The invariant says of each job what is so at the place its worker is:   *)
(* JobInv of its progress, its file and its cancellation, FramesInv of the *)
(* playhead and the frames.                                                *)
(***************************************************************************)
EXTENDS VideoExporter, TLAPS

Shown == [time : Nat, clips : Nat, alone : BOOLEAN]
Written == [number : Nat, shows : Shown]

Exporting == {"check", "seek", "read", "collect", "write", "advance"}
Active == Exporting \cup {"begin", "complete", "give_up", "ending"}
Fresh == {"none", "lookup", "begin"}

TypeOK ==
    /\ next_id \in Nat \ {0} /\ starting \in JobIds \cup {0}
    /\ jobs \subseteq JobIds
    /\ progress \in [JobIds -> Int]
    /\ cancelled \in [JobIds -> BOOLEAN]
    /\ finished \in [JobIds -> BOOLEAN]
    /\ worker \in [JobIds -> Active \cup Fresh \cup {"done"}]
    /\ total \in [JobIds -> Nat] /\ i \in [JobIds -> Nat]
    /\ frame \in [JobIds -> Shown]
    /\ file \in [JobIds -> [state : {"absent", "open", "closed"}, frames : Seq(Written)]]
    /\ position \in Nat
    /\ disturbed \in [JobIds -> BOOLEAN]
    /\ sinceCancel \in [JobIds -> Nat]

\* What Advance makes of progress.
Share(k, n) == (k * ONE) \div n

\* Nothing has been exported, and nothing said.
Untouched(j) ==
    /\ total[j] = 0 /\ i[j] = 0 /\ progress[j] = 0 /\ sinceCancel[j] = 0
    /\ file[j] = Absent

\* The outcome is known and agrees with the file.
Settled(j) ==
    /\ progress[j] \in {-1, ONE} /\ file[j].state # "open"
    /\ progress[j] = -1 => file[j].state = "absent"
    /\ progress[j] = ONE /\ total[j] # 0 => file[j].state = "closed"

JobInv(j) ==
    /\ next_id <= j => worker[j] = "none"
    /\ worker[j] \in Active => j \in jobs
    /\ worker[j] \in Fresh \/ (worker[j] = "done" /\ ~ finished[j]) => Untouched(j)
    /\ worker[j] \in Exporting =>
        /\ total[j] \in Totals \ {0} /\ i[j] <= total[j]
        /\ worker[j] # "check" => i[j] < total[j]
        /\ progress[j] = Share(i[j], total[j])
        /\ file[j].state = "open"
    /\ worker[j] = "complete" =>
        /\ progress[j] \in 0 .. ONE
        /\ file[j].state = IF total[j] = 0 THEN "absent" ELSE "closed"
    /\ worker[j] = "give_up" =>
        /\ progress[j] \in 0 .. ONE - 1
        /\ cancelled[j] \/ progress[j] = 0
        /\ file[j].state = "absent"
    /\ worker[j] = "ending" => Settled(j)
    /\ finished[j] => worker[j] = "done" /\ Settled(j)
    /\ sinceCancel[j] <= 1
    /\ sinceCancel[j] = 1 => cancelled[j]
    /\ worker[j] \in {"seek", "read", "collect", "write"} => sinceCancel[j] = 0

\* Frame n of a file shows its time, if nobody disturbed it, and has the
\* highest number so far.
GoodFrame(j, n) ==
    LET f == file[j].frames[n]
    IN  /\ f.shows.alone => f.shows.time = f.number /\ f.shows.clips = f.number
        /\ f.number < total[j]
        /\ f.number < i[j] \/ (worker[j] = "advance" /\ f.number = i[j])
        /\ \A m \in 1 .. n - 1 : file[j].frames[m].number < f.number

FramesInv(j) ==
    /\ worker[j] \in {"read", "collect"} /\ ~ disturbed[j] => position = i[j]
    /\ worker[j] = "collect" /\ ~ disturbed[j] => frame[j].time = i[j]
    /\ worker[j] = "write" /\ frame[j].alone => frame[j].time = i[j] /\ frame[j].clips = i[j]
    /\ \A n \in 1 .. Len(file[j].frames) : GoodFrame(j, n)

IInv == TypeOK /\ \A j \in JobIds : JobInv(j) /\ FramesInv(j)

-----------------------------------------------------------------------------
(* Arithmetic of progress.                                                  *)

LEMMA Quotient ==
  ASSUME NEW a \in Nat, NEW n \in Nat \ {0}
  PROVE  /\ a \div n \in Nat
         /\ n * (a \div n) <= a
         /\ a < n * (a \div n) + n
  OBVIOUS

\* Progress rises with every frame, stays below 1.0 until the last and is 1.0
\* after it.
LEMMA ShareRises ==
  ASSUME NEW n \in Totals \ {0}, NEW k \in Nat, k <= n
  PROVE  /\ Share(k, n) \in 0 .. ONE
         /\ k < n => Share(k, n) <= ONE - 1 /\ Share(k, n) <= Share(k + 1, n)
         /\ k = n => Share(k, n) = ONE
         /\ k = 0 => Share(k, n) = 0
  <1>1. n \in Nat \ {0} /\ ONE \in Nat \ {0} /\ n <= ONE
    BY ExporterAssumption
  <1>2. k * ONE \in Nat /\ (k + 1) * ONE \in Nat /\ n * ONE \in Nat
    BY <1>1
  <1> DEFINE q == (k * ONE) \div n
             r == ((k + 1) * ONE) \div n
  <1>3. q \in Nat /\ n * q <= k * ONE /\ k * ONE < n * q + n
    BY <1>1, <1>2, Quotient
  <1>4. r \in Nat /\ n * r <= (k + 1) * ONE /\ (k + 1) * ONE < n * r + n
    BY <1>1, <1>2, Quotient
  <1> HIDE DEF q, r
  <1>5. (k + 1) * ONE = k * ONE + ONE
    BY <1>1
  <1>6. q <= r
    <2>1. SUFFICES ASSUME q >= r + 1 PROVE FALSE
      BY <1>3, <1>4
    <2>2. n * q >= n * (r + 1)
      BY <2>1, <1>1, <1>3, <1>4
    <2>3. n * (r + 1) = n * r + n
      BY <1>1, <1>4
    <2> QED
      BY <2>2, <2>3, <1>1, <1>2, <1>3, <1>4, <1>5
  <1>7. k < n => q <= ONE - 1
    <2>1. SUFFICES ASSUME k + 1 <= n, q >= ONE PROVE FALSE
      BY <1>1, <1>3
    <2>2. n * q >= n * ONE
      BY <2>1, <1>1, <1>3
    <2>3. (k + 1) * ONE <= n * ONE
      BY <2>1, <1>1
    <2> QED
      BY <2>2, <2>3, <1>1, <1>2, <1>3, <1>5
  <1>8. k = n => q = ONE
    <2>1. SUFFICES ASSUME n * q <= n * ONE, n * ONE < n * q + n PROVE q = ONE
      BY <1>3
    <2>2. ~ (q >= ONE + 1)
      <3>1. q >= ONE + 1 => n * q >= n * (ONE + 1)
        BY <1>1, <1>3
      <3>2. n * (ONE + 1) = n * ONE + n
        BY <1>1
      <3> QED
        BY <2>1, <3>1, <3>2, <1>1, <1>2, <1>3
    <2>3. ~ (ONE >= q + 1)
      <3>1. ONE >= q + 1 => n * ONE >= n * (q + 1)
        BY <1>1, <1>3
      <3>2. n * (q + 1) = n * q + n
        BY <1>1, <1>3
      <3> QED
        BY <2>1, <3>1, <3>2, <1>1, <1>2, <1>3
    <2> QED
      BY <2>2, <2>3, <1>1, <1>3
  <1>9. k = 0 => q = 0
    <2>1. SUFFICES ASSUME n * q <= 0 PROVE q = 0
      BY <1>1, <1>3
    <2>2. q >= 1 => n * q >= n * 1
      BY <1>1, <1>3
    <2> QED
      BY <2>1, <2>2, <1>1, <1>3
  <1> QED
    BY <1>1, <1>3, <1>6, <1>7, <1>8, <1>9 DEF Share, q, r

-----------------------------------------------------------------------------
(* The invariant.                                                           *)

LEMMA InitInv == Init => IInv
  <1> SUFFICES ASSUME Init PROVE IInv
    OBVIOUS
  <1> USE DEF Init
  <1>1. TypeOK
    BY ExporterAssumption DEF TypeOK, JobIds, Absent, Shown, Active, Fresh, Exporting
  <1>2. ASSUME NEW j \in JobIds PROVE JobInv(j) /\ FramesInv(j)
    BY DEF JobInv, FramesInv, GoodFrame, Untouched, Absent, JobIds, Active, Exporting, Fresh
  <1> QED
    BY <1>1, <1>2 DEF IInv

\* What others may do while job k is at its place.
Same(k) ==
    /\ next_id <= next_id' /\ jobs \subseteq jobs'
    /\ cancelled[k] => cancelled'[k]
    /\ worker'[k] = worker[k] /\ progress'[k] = progress[k]
    /\ finished'[k] = finished[k] /\ total'[k] = total[k] /\ i'[k] = i[k]
    /\ frame'[k] = frame[k] /\ file'[k] = file[k] /\ sinceCancel'[k] = sinceCancel[k]
    /\ ~ disturbed'[k] => ~ disturbed[k] /\ position' = position

\* The invariant of a job survives what others do.
LEMMA OthersInv ==
  ASSUME TypeOK, TypeOK', NEW k \in JobIds, Same(k), JobInv(k), FramesInv(k)
  PROVE  (JobInv(k) /\ FramesInv(k))'
  <1>1. JobInv(k)'
    BY DEF Same, JobInv, Settled, Untouched, TypeOK, JobIds
  <1>2. FramesInv(k)'
    BY DEF Same, FramesInv, GoodFrame
  <1> QED
    BY <1>1, <1>2

\* start(), cancel() and the user's seeks touch no job but the one that starts.
LEMMA CallerInv ==
  ASSUME IInv,
         \/ StartSpawn \/ StartInsert
         \/ \E j \in JobIds : Cancel(j)
         \/ \E p \in Positions : UserSeek(p)
  PROVE  IInv'
  <1> USE DEF IInv, workerVars, playheadVars, callerVars
  <1>1. CASE StartSpawn
    <2>1. TypeOK'
      BY <1>1 DEF StartSpawn, TypeOK, Fresh, JobIds
    <2>2. ASSUME NEW k \in JobIds PROVE (JobInv(k) /\ FramesInv(k))'
      <3>1. CASE k = next_id
        <4>1. worker[k] = "none" /\ worker'[k] = "lookup" /\ ~ finished[k]
          BY <1>1, <3>1, <2>2 DEF StartSpawn, TypeOK, JobInv, JobIds
        <4>2. JobInv(k)'
          BY <1>1, <3>1, <4>1 DEF StartSpawn, TypeOK, JobInv, Untouched, Fresh, Active, Exporting, JobIds
        <4>3. FramesInv(k)'
          BY <1>1, <4>1 DEF StartSpawn, FramesInv, GoodFrame, JobInv, Untouched, Absent, Fresh
        <4> QED
          BY <4>2, <4>3
      <3>2. CASE k # next_id
        <4>1. Same(k)
          BY <1>1, <3>2 DEF StartSpawn, Same, TypeOK
        <4> QED
          BY <4>1, <2>1, OthersInv
      <3> QED
        BY <3>1, <3>2
    <2> QED
      BY <2>1, <2>2
  <1>2. CASE StartInsert
    <2>1. TypeOK'
      BY <1>2 DEF StartInsert, TypeOK
    <2>2. ASSUME NEW k \in JobIds PROVE Same(k)
      BY <1>2 DEF StartInsert, Same, TypeOK
    <2> QED
      BY <2>1, <2>2, OthersInv
  <1>3. ASSUME NEW j \in JobIds, Cancel(j) PROVE IInv'
    <2>1. TypeOK'
      BY <1>3 DEF Cancel, TypeOK
    <2>2. ASSUME NEW k \in JobIds PROVE Same(k)
      BY <1>3 DEF Cancel, Same, TypeOK
    <2> QED
      BY <2>1, <2>2, OthersInv
  <1>4. ASSUME NEW p \in Positions, UserSeek(p) PROVE IInv'
    <2>1. TypeOK'
      BY <1>4, ExporterAssumption DEF UserSeek, TypeOK
    <2>2. ASSUME NEW k \in JobIds PROVE Same(k)
      BY <1>4 DEF UserSeek, Same, TypeOK
    <2> QED
      BY <2>1, <2>2, OthersInv
  <1> QED
    BY <1>1, <1>2, <1>3, <1>4

\* A worker's step changes its own job only, but for the playhead, which it
\* marks as disturbed for the others.
LEMMA WorkerKeepsOthers ==
  ASSUME TypeOK, NEW j \in JobIds, Work(j), NEW k \in JobIds, k # j
  PROVE  Same(k)
  <1> USE DEF Goes, Same, workerVars, playheadVars, callerVars, TypeOK
  <1>1. CASE LookUp(j)
    BY <1>1 DEF LookUp
  <1>2. CASE NothingToExport(j)
    BY <1>2 DEF NothingToExport
  <1>3. CASE GoOn(j)
    BY <1>3 DEF GoOn
  <1>4. CASE Discard(j)
    BY <1>4 DEF Discard
  <1>5. CASE Close(j)
    BY <1>5 DEF Close
  <1>6. CASE Seek(j)
    <2>1. disturbed'[k]
      BY <1>6, Zenon DEF Seek
    <2> QED
      BY <1>6, <2>1 DEF Seek
  <1>7. CASE ReadPlayhead(j)
    BY <1>7 DEF ReadPlayhead
  <1>8. CASE CollectClips(j)
    BY <1>8 DEF CollectClips
  <1>9. CASE RenderFails(j)
    BY <1>9 DEF RenderFails
  <1>10. CASE Write(j)
    BY <1>10 DEF Write
  <1>11. CASE Advance(j)
    BY <1>11 DEF Advance
  <1>12. CASE Complete(j)
    BY <1>12 DEF Complete
  <1>13. CASE GiveUp(j)
    BY <1>13 DEF GiveUp
  <1>14. CASE SetFinished(j)
    BY <1>14 DEF SetFinished
  <1>15. ASSUME NEW n \in Totals \ {0}, Open(j, n) \/ OpenFails(j, n) PROVE Same(k)
    <2>1. CASE Open(j, n)
      BY <2>1 DEF Open
    <2>2. CASE OpenFails(j, n)
      BY <2>2 DEF OpenFails
    <2> QED
      BY <1>15, <2>1, <2>2
  <1> QED
    BY <1>1, <1>2, <1>3, <1>4, <1>5, <1>6, <1>7, <1>8, <1>9, <1>10, <1>11, <1>12, <1>13, <1>14, <1>15 DEF Work

\* A worker's step keeps the types.
LEMMA WorkerTypes ==
  ASSUME TypeOK, NEW j \in JobIds, Work(j), JobInv(j)
  PROVE  TypeOK'
  <1> USE DEF Goes, workerVars, playheadVars, callerVars, TypeOK, Active, Fresh, Exporting
  <1>1. CASE LookUp(j)
    BY <1>1 DEF LookUp
  <1>2. CASE NothingToExport(j)
    BY <1>2 DEF NothingToExport
  <1>3. CASE GoOn(j)
    BY <1>3 DEF GoOn
  <1>4. CASE Discard(j)
    BY <1>4 DEF Discard, Absent
  <1>5. CASE Close(j)
    BY <1>5 DEF Close
  <1>6. CASE Seek(j)
    BY <1>6 DEF Seek
  <1>7. CASE ReadPlayhead(j)
    BY <1>7 DEF ReadPlayhead, Shown
  <1>8. CASE CollectClips(j)
    <2>1. frame' \in [JobIds -> Shown]
      <3>1. frame' = [frame EXCEPT ![j] = [frame[j] EXCEPT !.clips = position,
                                                           !.alone = ~ disturbed[j]]]
        BY <1>8 DEF CollectClips
      <3>2. frame \in [JobIds -> Shown] /\ position \in Nat /\ (~ disturbed[j]) \in BOOLEAN
        OBVIOUS
      <3> HIDE DEF Goes, workerVars, playheadVars, callerVars, TypeOK, Active, Fresh, Exporting
      <3>3. [frame[j] EXCEPT !.clips = position, !.alone = ~ disturbed[j]] \in Shown
        BY <3>2 DEF Shown
      <3> HIDE DEF Shown
      <3> QED
        BY <3>1, <3>2, <3>3
    <2> QED
      BY <1>8, <2>1 DEF CollectClips
  <1>9. CASE RenderFails(j)
    BY <1>9 DEF RenderFails
  <1>10. CASE Write(j)
    <2>1. [number |-> i[j], shows |-> frame[j]] \in Written
      BY DEF Written, Shown
    <2>2. Append(file[j].frames, [number |-> i[j], shows |-> frame[j]]) \in Seq(Written)
      BY <2>1
    <2>3. file' \in [JobIds -> [state : {"absent", "open", "closed"}, frames : Seq(Written)]]
      <3>1. file' = [file EXCEPT ![j].frames =
                       Append(@, [number |-> i[j], shows |-> frame[j]])]
        BY <1>10 DEF Write
      <3> HIDE DEF Goes, workerVars, playheadVars, callerVars, Active, Fresh, Exporting
      <3> QED
        BY <2>2, <3>1
    <2>4. worker' \in [JobIds -> Active \cup Fresh \cup {"done"}]
      BY <1>10 DEF Write
    <2>5. sinceCancel' \in [JobIds -> Nat]
      BY <1>10 DEF Write
    <2>6. UNCHANGED <<callerVars, progress, finished, total, i, frame, playheadVars>>
      BY <1>10 DEF Write
    <2> QED
      BY <2>3, <2>4, <2>5, <2>6
  <1>11. CASE Advance(j)
    <2>1. i[j] + 1 \in Nat /\ i[j] + 1 <= total[j] /\ total[j] \in Totals \ {0}
      <3>1. worker[j] = "advance" /\ i[j] \in Nat /\ total[j] \in Nat
        BY <1>11 DEF Advance
      <3>2. total[j] \in Totals \ {0} /\ i[j] < total[j]
        BY <3>1 DEF JobInv
      <3> HIDE DEF Goes, workerVars, playheadVars, callerVars, TypeOK, Active, Fresh, Exporting
      <3> QED
        BY <3>1, <3>2
    <2>2. ((i[j] + 1) * ONE) \div total[j] \in Int
      BY <2>1, ShareRises DEF Share
    <2> QED
      BY <1>11, <2>1, <2>2 DEF Advance
  <1>12. CASE Complete(j)
    BY <1>12, ExporterAssumption DEF Complete
  <1>13. CASE GiveUp(j)
    BY <1>13 DEF GiveUp
  <1>14. CASE SetFinished(j)
    BY <1>14 DEF SetFinished
  <1>15. ASSUME NEW n \in Totals \ {0}, Open(j, n) PROVE TypeOK'
    <2>1. n \in Nat
      BY ExporterAssumption
    <2>2. [state |-> "open", frames |-> <<>>]
            \in [state : {"absent", "open", "closed"}, frames : Seq(Written)]
      OBVIOUS
    <2>3. file' \in [JobIds -> [state : {"absent", "open", "closed"}, frames : Seq(Written)]]
      BY <1>15, <2>2 DEF Open
    <2> QED
      BY <1>15, <2>1, <2>3 DEF Open
  <1>16. ASSUME NEW n \in Totals \ {0}, OpenFails(j, n) PROVE TypeOK'
    BY <1>16, ExporterAssumption DEF OpenFails
  <1> QED
    BY <1>1, <1>2, <1>3, <1>4, <1>5, <1>6, <1>7, <1>8, <1>9, <1>10, <1>11, <1>12, <1>13, <1>14, <1>15, <1>16 DEF Work

\* A worker's step takes what is so at one place to what is so at the next.
LEMMA WorkerJobInv ==
  ASSUME TypeOK, TypeOK', NEW j \in JobIds, Work(j), JobInv(j)
  PROVE  JobInv(j)'
  <1> USE DEF Goes, workerVars, playheadVars, callerVars, TypeOK, Active, Fresh, Exporting,
              JobInv, Settled, Untouched
  <1>1. CASE LookUp(j)
    BY <1>1 DEF LookUp
  <1>2. CASE NothingToExport(j)
    BY <1>2, ExporterAssumption DEF NothingToExport, Absent
  <1>3. CASE GoOn(j)
    BY <1>3 DEF GoOn
  <1>4. CASE Discard(j)
    <2>1. total[j] \in Totals \ {0} /\ i[j] \in Nat /\ i[j] <= total[j]
      BY <1>4 DEF Discard
    <2>2. progress[j] \in 0 .. ONE /\ (i[j] < total[j] => progress[j] <= ONE - 1)
      BY <1>4, <2>1, ShareRises DEF Discard
    <2> QED
      BY <1>4, <2>1, <2>2, ExporterAssumption DEF Discard, Absent
  <1>5. CASE Close(j)
    <2>1. total[j] \in Totals \ {0} /\ i[j] \in Nat /\ i[j] <= total[j]
      BY <1>5 DEF Close
    <2>2. progress[j] \in 0 .. ONE /\ (i[j] < total[j] => progress[j] <= ONE - 1)
      BY <1>5, <2>1, ShareRises DEF Close
    <2> QED
      BY <1>5, <2>1, <2>2, ExporterAssumption DEF Close
  <1>6. CASE Seek(j)
    BY <1>6 DEF Seek
  <1>7. CASE ReadPlayhead(j)
    BY <1>7 DEF ReadPlayhead
  <1>8. CASE CollectClips(j)
    BY <1>8 DEF CollectClips
  <1>9. CASE RenderFails(j)
    BY <1>9 DEF RenderFails
  <1>10. CASE Write(j)
    BY <1>10 DEF Write
  <1>11. CASE Advance(j)
    <2>1. i[j] + 1 \in Nat /\ i[j] + 1 <= total[j] /\ total[j] \in Totals \ {0}
      BY <1>11, ExporterAssumption DEF Advance
    <2>2. progress'[j] = Share(i'[j], total'[j])
      BY <1>11 DEF Advance, Share
    <2>3. worker[j] = "advance" /\ worker'[j] = "check" /\ i'[j] = i[j] + 1
          /\ UNCHANGED <<callerVars, finished, total, file, sinceCancel>>
      BY <1>11 DEF Advance
    <2>4. /\ ~ next_id <= j /\ ~ finished[j] /\ file[j].state = "open"
          /\ sinceCancel[j] <= 1 /\ (sinceCancel[j] = 1 => cancelled[j])
      BY <2>3
    <2> HIDE DEF TypeOK
    <2> QED
      BY <2>1, <2>2, <2>3, <2>4
  <1>12. CASE Complete(j)
    BY <1>12, ExporterAssumption DEF Complete
  <1>13. CASE GiveUp(j)
    <2>1. /\ worker[j] = "give_up" /\ worker'[j] = "ending" /\ progress'[j] = -1
          /\ UNCHANGED <<callerVars, finished, total, file, sinceCancel>>
      BY <1>13 DEF GiveUp
    <2>2. /\ ~ next_id <= j /\ ~ finished[j] /\ file[j].state = "absent"
          /\ sinceCancel[j] <= 1 /\ (sinceCancel[j] = 1 => cancelled[j])
      BY <2>1
    <2> HIDE DEF TypeOK
    <2> QED
      BY <2>1, <2>2, ExporterAssumption
  <1>14. CASE SetFinished(j)
    BY <1>14 DEF SetFinished
  <1>15. ASSUME NEW n \in Totals \ {0}, Open(j, n) PROVE JobInv(j)'
    <2>1. n \in Nat \ {0} /\ Share(0, n) = 0
      BY ExporterAssumption, ShareRises
    <2> QED
      BY <1>15, <2>1 DEF Open
  <1>16. ASSUME NEW n \in Totals \ {0}, OpenFails(j, n) PROVE JobInv(j)'
    <2>1. /\ worker[j] = "begin" /\ worker'[j] = "give_up"
          /\ UNCHANGED <<callerVars, progress, finished, file, sinceCancel>>
      BY <1>16 DEF OpenFails
    <2> HIDE DEF TypeOK
    <2>2. Untouched(j)
      <3>1. worker[j] \in Fresh
        BY <2>1
      <3> HIDE DEF Untouched, Fresh
      <3> QED BY <3>1, Zenon
    <2>3. ~ next_id <= j /\ ~ finished[j]
      BY <2>1
    <2>4. j \in jobs
      BY <2>1
    <2> QED
      BY <2>1, <2>2, <2>3, <2>4, ExporterAssumption DEF Absent
  <1> HIDE DEF Goes, workerVars, playheadVars, callerVars, TypeOK, JobInv, Settled, Untouched
  <1> QED
    BY <1>1, <1>2, <1>3, <1>4, <1>5, <1>6, <1>7, <1>8, <1>9, <1>10, <1>11, <1>12, <1>13, <1>14, <1>15, <1>16, Zenon DEF Work

\* A worker's step moves the playhead or reads it, and numbers frames in order.
LEMMA WorkerFramesInv ==
  ASSUME TypeOK, TypeOK', NEW j \in JobIds, Work(j), JobInv(j), FramesInv(j)
  PROVE  FramesInv(j)'
  <1> USE DEF Goes, workerVars, playheadVars, callerVars, TypeOK, Active, Fresh, Exporting,
              FramesInv, GoodFrame
  <1>1. CASE LookUp(j)
    BY <1>1 DEF LookUp
  <1>2. CASE NothingToExport(j)
    BY <1>2 DEF NothingToExport
  <1>3. CASE GoOn(j)
    BY <1>3 DEF GoOn
  <1>4. CASE Discard(j)
    BY <1>4 DEF Discard, Absent
  <1>5. CASE Close(j)
    BY <1>5 DEF Close
  <1>6. CASE Seek(j)
    BY <1>6 DEF Seek
  <1>7. CASE ReadPlayhead(j)
    BY <1>7 DEF ReadPlayhead, Shown
  <1>8. CASE CollectClips(j)
    <2>1. frame'[j].alone => frame'[j].time = i[j] /\ frame'[j].clips = i[j]
      <3>1. frame'[j].alone = ~ disturbed[j]
        BY <1>8 DEF CollectClips, Shown
      <3>2. frame'[j].time = frame[j].time /\ frame'[j].clips = position
        BY <1>8 DEF CollectClips, Shown
      <3>3. worker[j] = "collect"
        BY <1>8 DEF CollectClips
      <3> QED
        BY <3>1, <3>2, <3>3
    <2> QED
      BY <1>8, <2>1 DEF CollectClips
  <1>9. CASE RenderFails(j)
    BY <1>9 DEF RenderFails
  <1>10. CASE Write(j)
    <2> DEFINE s == file[j].frames
               g == [number |-> i[j], shows |-> frame[j]]
    <2>1. worker[j] = "write" /\ i[j] < total[j] /\ worker'[j] = "advance"
      BY <1>10 DEF Write, JobInv
    <2>2. i' = i /\ total' = total /\ frame' = frame
      BY <1>10 DEF Write
    <2>3. g \in Written
      BY DEF Written, Shown
    <2>4. s \in Seq(Written)
      OBVIOUS
    <2>5. file'[j].frames = Append(s, g)
      BY <1>10 DEF Write
    <2>6. g.number = i[j] /\ g.shows = frame[j]
      OBVIOUS
    <2>7. \A n \in 1 .. Len(s) : GoodFrame(j, n) /\ s[n].number < i[j]
      BY <2>1
    <2> HIDE DEF s, g
    <2>8. Len(file'[j].frames) = Len(s) + 1 /\ Len(s) \in Nat
      BY <2>3, <2>4, <2>5
    <2>9. \A n \in 1 .. Len(s) : file'[j].frames[n] = s[n]
      BY <2>3, <2>4, <2>5
    <2>10. ASSUME NEW n \in 1 .. Len(s) + 1 PROVE GoodFrame(j, n)'
      <3>1. CASE n = Len(s) + 1
        <4>1. file'[j].frames[n] = g
          BY <2>3, <2>4, <2>5, <3>1
        <4>2. \A m \in 1 .. n - 1 : file'[j].frames[m].number < i[j]
          <5>1. ASSUME NEW m \in 1 .. Len(s) PROVE file'[j].frames[m].number < i[j]
            <6>1. file'[j].frames[m] = s[m]
              BY <2>9
            <6>2. s[m].number < i[j]
              BY <2>7
            <6> QED
              BY <6>1, <6>2
          <5>2. 1 .. n - 1 = 1 .. Len(s)
            BY <2>8, <3>1
          <5> QED
            BY <5>1, <5>2
        <4> QED
          BY <2>1, <2>2, <2>6, <4>1, <4>2
      <3>2. CASE n \in 1 .. Len(s)
        <4>1. file'[j].frames[n] = s[n]
          BY <2>9, <3>2
        <4>2. \A m \in 1 .. n - 1 : file'[j].frames[m] = s[m]
          BY <2>8, <2>9, <3>2
        <4> QED
          BY <2>1, <2>2, <2>7, <3>2, <4>1, <4>2 DEF s
      <3> QED
        BY <2>8, <3>1, <3>2
    <2> QED
      BY <2>1, <2>8, <2>10
  <1>11. CASE Advance(j)
    <2>1. worker[j] = "advance" /\ i'[j] = i[j] + 1 /\ file' = file /\ total' = total
      BY <1>11 DEF Advance
    <2>2. ASSUME NEW n \in 1 .. Len(file[j].frames) PROVE GoodFrame(j, n)'
      <3>1. GoodFrame(j, n)
        BY <2>2
      <3>2. file[j].frames[n].number \in Nat
        <4>1. file[j].frames \in Seq(Written)
          OBVIOUS
        <4>2. file[j].frames[n] \in Written
          BY <2>2, <4>1
        <4> QED
          BY <4>2 DEF Written
      <3>3. worker'[j] = "check"
        BY <1>11 DEF Advance
      <3> QED
        BY <2>1, <3>1, <3>2, <3>3
    <2> QED
      BY <1>11, <2>1, <2>2 DEF Advance
  <1>12. CASE Complete(j)
    BY <1>12 DEF Complete
  <1>13. CASE GiveUp(j)
    BY <1>13 DEF GiveUp
  <1>14. CASE SetFinished(j)
    BY <1>14 DEF SetFinished
  <1>15. ASSUME NEW n \in Totals \ {0}, Open(j, n) PROVE FramesInv(j)'
    BY <1>15 DEF Open
  <1>16. ASSUME NEW n \in Totals \ {0}, OpenFails(j, n) PROVE FramesInv(j)'
    BY <1>16 DEF OpenFails, JobInv, Untouched, Absent
  <1> HIDE DEF Goes, workerVars, playheadVars, callerVars, TypeOK, FramesInv, GoodFrame
  <1> QED
    BY <1>1, <1>2, <1>3, <1>4, <1>5, <1>6, <1>7, <1>8, <1>9, <1>10, <1>11, <1>12, <1>13, <1>14, <1>15, <1>16 DEF Work

LEMMA NextInv == IInv /\ [Next]_vars => IInv'
  <1> SUFFICES ASSUME IInv, [Next]_vars PROVE IInv'
    OBVIOUS
  <1>1. CASE \/ StartSpawn \/ StartInsert
             \/ \E j \in JobIds : Cancel(j)
             \/ \E p \in Positions : UserSeek(p)
    BY <1>1, CallerInv
  <1>2. ASSUME NEW j \in JobIds, Work(j) PROVE IInv'
    <2>1. TypeOK'
      BY <1>2, WorkerTypes DEF IInv
    <2>2. ASSUME NEW k \in JobIds PROVE (JobInv(k) /\ FramesInv(k))'
      <3>1. CASE k = j
        BY <1>2, <2>1, <3>1, WorkerJobInv, WorkerFramesInv DEF IInv
      <3>2. CASE k # j
        BY <1>2, <2>1, <3>2, WorkerKeepsOthers, OthersInv DEF IInv
      <3> QED
        BY <3>1, <3>2
    <2> QED
      BY <2>1, <2>2 DEF IInv
  <1>3. CASE UNCHANGED vars
    BY <1>3 DEF vars, callerVars, workerVars, playheadVars, IInv, TypeOK, JobInv, FramesInv,
                GoodFrame, Settled, Untouched
  <1> QED
    BY <1>1, <1>2, <1>3 DEF Next

-----------------------------------------------------------------------------
(* What follows.                                                            *)

\* The invariant holds for any number of jobs, lengths and seeks.
THEOREM Invariance == Spec => []IInv
  BY InitInv, NextInv, PTL DEF Spec

\* What a poller reads of a job agrees with its file.
THEOREM OutcomesMatchFiles == Spec => []OutcomeMatchesFile
  <1>1. IInv => OutcomeMatchesFile
    <2> SUFFICES ASSUME IInv, NEW j \in JobIds
                 PROVE  /\ progress[j] = -1 => file[j].state = "absent"
                        /\ finished[j] => file[j].state # "open" /\ progress[j] \in {-1, ONE}
                        /\ finished[j] /\ progress[j] = ONE /\ total[j] # 0
                             => file[j].state = "closed"
      BY DEF OutcomeMatchesFile
    <2>1. JobInv(j) /\ TypeOK
      BY DEF IInv
    <2>2. worker[j] \in Exporting => progress[j] \in Nat
      BY <2>1, ShareRises DEF JobInv, TypeOK
    <2> QED
      BY <2>1, <2>2, ExporterAssumption
      DEF JobInv, TypeOK, Settled, Untouched, Absent, Active, Fresh, Exporting
  <1> QED
    BY <1>1, Invariance, PTL

\* A cancelled job writes one more frame at most.
THEOREM CancellationStops == Spec => []CancelStopsWithinAFrame
  <1>1. IInv => CancelStopsWithinAFrame
    BY DEF IInv, JobInv, CancelStopsWithinAFrame
  <1> QED
    BY <1>1, Invariance, PTL

\* Frames nobody disturbed show the time of their number, and numbers rise.
THEOREM FramesAreInTime == Spec => []FramesShowTheirTime
  <1>1. IInv => FramesShowTheirTime
    <2> SUFFICES ASSUME IInv, NEW j \in JobIds, NEW n \in DOMAIN file[j].frames
                 PROVE  GoodFrame(j, n)
      BY DEF FramesShowTheirTime, GoodFrame
    <2>1. file[j].frames \in Seq(Written)
      BY DEF IInv, TypeOK
    <2>2. n \in 1 .. Len(file[j].frames)
      BY <2>1
    <2> QED
      BY <2>2 DEF IInv, FramesInv
  <1> QED
    BY <1>1, Invariance, PTL

-----------------------------------------------------------------------------
(* The exporter implements ExportJobs.                                      *)

LEMMA InitRefines == Init => Promise!Init
  BY DEF Init, Promise!Init, JobIds

\* What the worker of job j does is, seen from outside, a rise, a stop, the end,
\* or nothing.
LEMMA WorkerRefines ==
  ASSUME IInv, NEW j \in JobIds, Work(j)
  PROVE  [Promise!Next]_Promise!vars
  <1> DEFINE Quiet == UNCHANGED <<jobs, cancelled, progress, finished>>
  <1> USE DEF Goes, workerVars, playheadVars, callerVars
  <1>1. TypeOK /\ JobInv(j)
    BY DEF IInv
  <1>2. Quiet => UNCHANGED Promise!vars
    BY DEF Promise!vars
  <1> HIDE DEF Quiet
  <1>3. LookUp(j) \/ NothingToExport(j) \/ GoOn(j) \/ Discard(j) \/ Close(j) => Quiet
    BY DEF LookUp, NothingToExport, GoOn, Discard, Close, Quiet
  <1>4. Seek(j) \/ ReadPlayhead(j) \/ CollectClips(j) \/ RenderFails(j) \/ Write(j) => Quiet
    BY DEF Seek, ReadPlayhead, CollectClips, RenderFails, Write, Quiet
  <1>5. ASSUME NEW n \in Totals \ {0}, Open(j, n) \/ OpenFails(j, n) PROVE Quiet
    BY <1>5 DEF Open, OpenFails, Quiet
  <1>6. CASE Advance(j)
    <2>1. /\ i[j] \in Nat /\ i[j] < total[j] /\ total[j] \in Totals \ {0} /\ j \in jobs
          /\ progress[j] = Share(i[j], total[j])
      BY <1>1, <1>6 DEF Advance, JobInv, TypeOK, Active, Exporting
    <2>2. /\ progress' = [progress EXCEPT ![j] = Share(i[j] + 1, total[j])]
          /\ UNCHANGED <<jobs, cancelled, finished>>
      BY <1>6 DEF Advance, Share
    <2>3. total[j] \in Nat
      BY <2>1, ExporterAssumption
    <2>4. progress[j] \in 0 .. ONE - 1 /\ progress[j] <= Share(i[j] + 1, total[j])
      BY <2>1, <2>3, ShareRises, ExporterAssumption
    <2>5. Share(i[j] + 1, total[j]) \in 0 .. ONE
      BY <2>1, <2>3, ShareRises
    <2>6. CASE progress[j] = Share(i[j] + 1, total[j])
      BY <1>1, <1>2, <2>2, <2>6 DEF TypeOK, Quiet
    <2>7. CASE progress[j] < Share(i[j] + 1, total[j])
      <3>1. Share(i[j] + 1, total[j]) \in 1 .. ONE
        BY <2>4, <2>5, <2>7, ExporterAssumption
      <3>2. Promise!Rise(j, Share(i[j] + 1, total[j]))
        BY <2>1, <2>2, <2>4, <2>7 DEF Promise!Rise, Promise!Running
      <3> QED
        BY <3>1, <3>2 DEF Promise!Next
    <2> QED
      BY <2>4, <2>5, <2>6, <2>7, ExporterAssumption
  <1>7. CASE Complete(j)
    <2>1. j \in jobs /\ progress[j] \in 0 .. ONE /\ ONE \in 1 .. ONE
      BY <1>1, <1>7, ExporterAssumption DEF Complete, JobInv, Active
    <2>2. progress' = [progress EXCEPT ![j] = ONE] /\ UNCHANGED <<jobs, cancelled, finished>>
      BY <1>7 DEF Complete
    <2>3. CASE progress[j] = ONE
      BY <1>1, <1>2, <2>2, <2>3 DEF TypeOK, Quiet
    <2>4. CASE progress[j] # ONE
      <3>1. Promise!Rise(j, ONE)
        BY <2>1, <2>2, <2>4, ExporterAssumption DEF Promise!Rise, Promise!Running
      <3> QED
        BY <2>1, <3>1 DEF Promise!Next
    <2> QED
      BY <2>3, <2>4
  <1>8. CASE GiveUp(j)
    <2>1. Promise!Stop(j)
      BY <1>1, <1>8 DEF GiveUp, JobInv, Active, Promise!Stop, Promise!Running
    <2> QED
      BY <2>1 DEF Promise!Next
  <1>9. CASE SetFinished(j)
    <2>1. j \in jobs /\ progress[j] \in {-1, ONE}
      BY <1>1, <1>9 DEF SetFinished, JobInv, Active, Settled
    <2>2. {k \in JobIds : finished'[k]} = {k \in JobIds : finished[k]} \cup {j}
      BY <1>1, <1>9 DEF SetFinished, TypeOK
    <2>3. UNCHANGED <<jobs, cancelled, progress>>
      BY <1>9 DEF SetFinished
    <2>4. ~ Promise!Running(j)
      BY <2>1, ExporterAssumption DEF Promise!Running
    <2>5. Promise!End(j)
      BY <2>1, <2>2, <2>3, <2>4 DEF Promise!End
    <2> QED
      BY <2>5 DEF Promise!Next
  <1> QED
    BY <1>2, <1>3, <1>4, <1>5, <1>6, <1>7, <1>8, <1>9 DEF Work

LEMMA NextRefines == IInv /\ [Next]_vars => [Promise!Next]_Promise!vars
  <1> SUFFICES ASSUME IInv, [Next]_vars PROVE [Promise!Next]_Promise!vars
    OBVIOUS
  <1> USE DEF workerVars, playheadVars, callerVars
  <1>1. CASE StartSpawn
    BY <1>1 DEF StartSpawn, Promise!vars
  <1>2. CASE StartInsert
    <2>1. starting \in JobIds
      BY <1>2 DEF StartInsert, IInv, TypeOK
    <2>2. Promise!Enter(starting)
      BY <1>2 DEF StartInsert, Promise!Enter
    <2> QED
      BY <2>1, <2>2 DEF Promise!Next
  <1>3. ASSUME NEW j \in JobIds, Cancel(j) PROVE [Promise!Next]_Promise!vars
    <2>1. {k \in JobIds : cancelled'[k]} = {k \in JobIds : cancelled[k]} \cup {j}
      BY <1>3 DEF Cancel, IInv, TypeOK
    <2>2. Promise!Ask(j)
      BY <1>3, <2>1 DEF Cancel, Promise!Ask
    <2> QED
      BY <2>2 DEF Promise!Next
  <1>4. ASSUME NEW j \in JobIds, Work(j) PROVE [Promise!Next]_Promise!vars
    BY <1>4, WorkerRefines
  <1>5. ASSUME NEW p \in Positions, UserSeek(p) PROVE [Promise!Next]_Promise!vars
    BY <1>5 DEF UserSeek, Promise!vars
  <1>6. CASE UNCHANGED vars
    BY <1>6 DEF vars, Promise!vars
  <1> QED
    BY <1>1, <1>2, <1>3, <1>4, <1>5, <1>6 DEF Next

\* The exporter implements ExportJobs: what pollers see of any job rises to 1.0
\* or falls once to -1, for a reason, and is then over.
THEOREM PromiseIsKept == Spec => KeepsPromise
  <1>1. Spec => []IInv
    BY Invariance
  <1>2. Promise!Spec <=> Promise!Init /\ [][Promise!Next]_Promise!vars
    BY DEF Promise!Spec
  <1> QED
    BY <1>1, <1>2, InitRefines, NextRefines, PTL DEF Spec, KeepsPromise
=============================================================================
