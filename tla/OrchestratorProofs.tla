------------------------- MODULE OrchestratorProofs -------------------------
(***************************************************************************)
(* Theorems about module Orchestrator, for any set of jobs, any selection  *)
(* of the faults, and with or without Job Objects.                         *)
(*                                                                         *)
(* One inductive invariant carries them all.  It follows a job through its *)
(* life: while no worker has seen it (PUnseen), while the worker holds it  *)
(* (PCurrent, with PWorker for where the worker is and PQueue for why the  *)
(* job it holds is not in line any more), and from then on (PResult).      *)
(***************************************************************************)
EXTENDS Orchestrator, TLAPS

USE DEF Terminal, Status, FileState, ProcState, Label, AfterWait,
        daemonVars, queueVars, storeVars, fileVars, workerVars, runVars

-----------------------------------------------------------------------------
(* The inductive invariant.                                                *)

(* Where the worker is.  It holds a job except in its loop; the wait        *)
(* goroutine lives while the worker is between the launch and the teardown; *)
(* doneChan is closed once that goroutine is gone, and unless Wait failed   *)
(* the sample with it.                                                     *)
Idle      == {"loop", "pop", "exited"}
Waiting   == {"select", "parked", "expired", "join"}
Ending    == {"teardown", "finish", "report", "score", "findings", "html", "json", "encode"}
Unsettled == {"claimed", "launch", "monitor", "fail", "teardown", "finish"} \cup Waiting

PWorker ==
    /\ cur = NoJob <=> pc \in Idle
    /\ ~up => pc = "loop"
    /\ waiting => pc \in Waiting
    /\ done => pc \in Waiting \cup Ending
    /\ pc \in Waiting => (done <=> ~waiting)
    /\ pc \in Ending => done
    /\ pc \in {"join", "teardown", "finish", "report"} => mem \in {"completed", "timeout"}
    /\ mem = "timeout" => pc \in {"join"} \cup Ending

(* The jobs pushed are accepted ones, each pushed once, in the order        *)
(* FifoOrder says; the job the worker holds is the last one it took.        *)
PQueue ==
    /\ FifoOrder
    /\ \A i, k \in 1..Len(pushed) : pushed[i] = pushed[k] => i = k
    /\ \A i \in 1..Len(pushed) : submit[pushed[i]] = "accepted"
    /\ cur # NoJob => Len(started) > 0 /\ cur = started[Len(started)]

(* A job no worker has seen has only the row SubmitJob wrote.               *)
Unseen(j) == submit[j] # "accepted" \/ \E i \in 1..Len(queue) : queue[i] = j

PUnseen ==
    /\ \A j \in Job : Unseen(j) => /\ proc[j] = "none" /\ html[j] = "none" /\ json[j] = "none"
                                   /\ row[j] \in {"absent", "queued"}
    /\ \A j \in Job : submit[j] \in {"none", "analysed"} => row[j] = "absent"
    /\ \A j \in Job : submit[j] = "saved" => row[j] = "queued"
    /\ QueuedRowsAreQueued
    /\ AcceptedHasRow

(* The job the worker holds: its row, its process and its files.            *)
Scored ==
    /\ pc \in {"score", "findings"} => storeOpen
    /\ pc \in {"findings", "html", "json", "encode"} => verdict[cur] /\ row[cur] = "completed"
    /\ pc \in {"html", "json", "encode"} => findings[cur]

PCurrent ==
    cur # NoJob =>
        /\ row[cur] \notin {"absent", "failed"}
        /\ pc \in Unsettled => row[cur] \in {"queued", "running"}
        /\ pc \in {"claimed", "launch"} => proc[cur] = "none"
        /\ pc = "monitor" => proc[cur] \in {"alive", "zombie"}
        /\ pc = "fail" => proc[cur] \in {"none", "zombie"}
        /\ waiting => proc[cur] \in {"alive", "zombie"}
        /\ pc = "join" => mem = "timeout"
        /\ done => proc[cur] \in AfterWait
        /\ mem = "timeout" => proc[cur] \notin {"alive", "adrift"}
        /\ pc \in {"json", "encode"} => html[cur] = "full"
        /\ pc \notin {"json", "encode"} => html[cur] = "none"
        /\ pc # "encode" <=> json[cur] = "none"
        /\ "store" \notin Faults /\ cur \notin cutOff => Scored

(* The row, the files and the process of a job agree, whether or not the    *)
(* worker still holds it.                                                   *)
ResultOf(j) ==
    /\ verdict[j] => row[j] = "completed"
    /\ row[j] = "failed" => html[j] = "none" /\ json[j] = "none" /\ proc[j] # "alive"
    /\ row[j] \in {"completed", "timeout"} => proc[j] \in AfterWait
    /\ row[j] = "timeout" => proc[j] # "adrift"
    /\ KillOnClose /\ proc[j] = "alive" =>
           up /\ cur = j /\ pc \in {"monitor", "select", "parked", "expired"}
    /\ KillOnClose /\ proc[j] = "adrift" => up /\ Taken(j)
    /\ json[j] # "none" =>
           /\ html[j] = "full"
           /\ "store" \notin Faults /\ j \notin cutOff =>
                  verdict[j] /\ findings[j] /\ row[j] = "completed"

PResult == \A j \in Job : ResultOf(j)

IInv == TypeOK /\ PWorker /\ PQueue /\ PUnseen /\ PCurrent /\ PResult

USE DEF Idle, Waiting, Ending, Unsettled

-----------------------------------------------------------------------------
(* Types.                                                                  *)

\* The initial state is well typed.
LEMMA TypeInit == Init => TypeOK
<1> SUFFICES ASSUME Init PROVE TypeOK
  OBVIOUS
<1> USE DEF Init
<1>1. verdict \in [Job -> BOOLEAN] /\ findings \in [Job -> BOOLEAN] /\ cutOff \subseteq Job
  OBVIOUS
<1>2. /\ up \in BOOLEAN /\ ctxDone \in BOOLEAN /\ storeOpen \in BOOLEAN
      /\ waiting \in BOOLEAN /\ done \in BOOLEAN
  OBVIOUS
<1>3. /\ submit \in [Job -> {"none", "analysed", "saved", "accepted", "rejected", "lost"}]
      /\ queue \in Seq(Job) /\ pushed \in Seq(Job) /\ started \in Seq(Job)
      /\ row \in [Job -> Status \cup {"absent"}]
      /\ html \in [Job -> FileState] /\ json \in [Job -> FileState]
      /\ pc \in Label /\ cur \in Job \cup {NoJob}
      /\ mem \in {"none", "running", "completed", "timeout"}
      /\ proc \in [Job -> ProcState]
      /\ runCtx \in {"none", "live", "done"}
  OBVIOUS
<1> QED
  BY <1>1, <1>2, <1>3 DEF TypeOK

\* What the end of the daemon makes of the samples.
LEMMA EndTypes ==
  ASSUME proc \in [Job -> ProcState], ProcessEnds
  PROVE  /\ proc' \in [Job -> ProcState]
         /\ \A j \in Job :
               /\ proc[j] \in {"none", "reaped", "lost"} => proc'[j] = proc[j]
               /\ proc[j] = "zombie" => proc'[j] = "reaped"
               /\ proc[j] = "alive" => proc'[j] = IF KillOnClose THEN "reaped" ELSE "alive"
               /\ proc[j] = "adrift" => proc'[j] = IF KillOnClose THEN "lost" ELSE "adrift"
<1>1. proc' = [j \in Job |-> LET left == IF KillOnClose THEN Killed(proc[j]) ELSE proc[j]
                           IN  IF left = "zombie" THEN "reaped" ELSE left]
  BY DEF ProcessEnds
<1> QED BY <1>1 DEF Killed

\* PWorker is needed for the status SaveFinalStatus writes.
LEMMA TypeStep == ASSUME TypeOK, PWorker, [Next]_vars PROVE TypeOK'
<1> USE DEF TypeOK
<1>1. ASSUME NEW j \in Job, AnalyzeFileStatic(j) PROVE TypeOK'
  BY <1>1 DEF AnalyzeFileStatic
<1>2. ASSUME NEW j \in Job, SaveQueued(j) PROVE TypeOK'
  <2>1. CASE SaveJobOk(j, "queued", FALSE) /\ submit' = [submit EXCEPT ![j] = "saved"]
    BY <1>2, <2>1 DEF SaveQueued, SaveJobOk
  <2>2. CASE SaveJobFails /\ submit' = [submit EXCEPT ![j] = "rejected"]
    BY <1>2, <2>2 DEF SaveQueued, SaveJobFails
  <2> QED BY <1>2, <2>1, <2>2 DEF SaveQueued
<1>3. ASSUME NEW j \in Job, Push(j) PROVE TypeOK'
  BY <1>3 DEF Push
<1>4. ASSUME NEW j \in Job, SampleExits(j) PROVE TypeOK'
  <2>1. proc' \in [Job -> ProcState]
    BY <1>4 DEF SampleExits
  <2> QED BY <1>4, <2>1 DEF SampleExits
<1>5. CASE CheckContext
  BY <1>5 DEF CheckContext
<1>6. CASE Pop
  BY <1>6 DEF Pop
<1>7. CASE MarkRunning
  BY <1>7 DEF MarkRunning, SaveJob, SaveJobOk, SaveJobFails
<1>8. CASE CreateProcess
  BY <1>8 DEF CreateProcess
<1>9. CASE StartMonitor
  <2>1. proc' \in [Job -> ProcState]
    BY <1>9 DEF StartMonitor, Killed
  <2>2. pc' \in Label /\ waiting' \in BOOLEAN
    BY <1>9 DEF StartMonitor, Label
  <2>3. UNCHANGED <<daemonVars, submit, queueVars, storeVars, fileVars, cur, mem, runCtx, done>>
    BY <1>9 DEF StartMonitor
  <2> QED BY <2>1, <2>2, <2>3
<1>10. CASE FailJob
  BY <1>10 DEF FailJob, SaveJob, SaveJobOk, SaveJobFails, Return
<1>11. CASE SelectDone \/ SelectExpired \/ SelectParks
  BY <1>11 DEF SelectDone, SelectExpired, SelectParks
<1>12. CASE KillExpired
  BY <1>12 DEF KillExpired, Killed
<1>13. CASE JoinWait \/ TearDown
  BY <1>13 DEF JoinWait, TearDown
<1>14. CASE SaveFinalStatus
  <2>1. mem \in Status
    BY <1>14 DEF SaveFinalStatus, PWorker
  <2>2. CASE SaveJobFails
    BY <1>14, <2>2 DEF SaveFinalStatus, SaveJobFails
  <2>3. CASE SaveJobOk(cur, mem, FALSE)
    BY <1>14, <2>1, <2>3 DEF SaveFinalStatus, SaveJobOk
  <2> QED BY <1>14, <2>2, <2>3 DEF SaveFinalStatus, SaveJob
<1>15. CASE ReadJob \/ ScoreJob \/ SaveFindings
  <2>1. CASE ReadJob
    BY <2>1 DEF ReadJob, Return
  <2>2. CASE ScoreJob
    BY <2>2 DEF ScoreJob, SaveJob, SaveJobOk, SaveJobFails
  <2>3. CASE SaveFindings
    <3>1. findings' \in [Job -> BOOLEAN]
      BY <2>3 DEF SaveFindings
    <3> QED BY <2>3, <3>1 DEF SaveFindings
  <2> QED BY <1>15, <2>1, <2>2, <2>3
<1>16. CASE WriteHTML
  <2>1. html' \in [Job -> FileState]
    <3>1. CASE html' = [html EXCEPT ![cur] = "full"]
      BY <3>1
    <3>2. CASE \E left \in {"none", "partial"} : html' = [html EXCEPT ![cur] = left]
      BY <3>2
    <3> QED BY <1>16, <3>1, <3>2 DEF WriteHTML
  <2> QED BY <1>16, <2>1 DEF WriteHTML, Return
<1>17. CASE CreateJSON
  BY <1>17 DEF CreateJSON, Return
<1>18. CASE EncodeJSON
  BY <1>18 DEF EncodeJSON, Return
<1>19. CASE WatcherKills
  <2>1. proc' \in [Job -> ProcState]
    BY <1>19 DEF WatcherKills, Killed
  <2>2. UNCHANGED <<daemonVars, submit, queueVars, storeVars, fileVars, workerVars,
                    runCtx, waiting, done>>
    BY <1>19 DEF WatcherKills
  <2> QED BY <2>1, <2>2
<1>20. CASE WaitReturns \/ WaitFails
  <2>1. proc' \in [Job -> ProcState] /\ CloseDone
    BY <1>20 DEF WaitReturns, WaitFails
  <2>2. /\ pc' \in Label /\ mem' \in {"none", "running", "completed", "timeout"}
        /\ waiting' \in BOOLEAN /\ done' \in BOOLEAN
    BY <2>1 DEF CloseDone, Label
  <2>3. UNCHANGED <<daemonVars, submit, queueVars, storeVars, fileVars, cur, runCtx>>
    BY <2>1 DEF CloseDone
  <2> QED BY <2>1, <2>2, <2>3
<1>21. CASE Deadline
  BY <1>21 DEF Deadline, WakeExpired
<1>22. CASE Cancel
  <2>1. pc' \in Label /\ runCtx' \in {"none", "live", "done"} /\ ctxDone' \in BOOLEAN
    BY <1>22 DEF Cancel, WakeExpired, Label
  <2>2. UNCHANGED <<up, storeOpen, cutOff, submit, queueVars, storeVars, fileVars, cur, mem,
                    proc, waiting, done>>
    BY <1>22 DEF Cancel
  <2> QED BY <2>1, <2>2
<1>23. CASE Close
  <2>1. storeOpen' \in BOOLEAN /\ cutOff' \subseteq Job
    BY <1>23 DEF Close
  <2>2. UNCHANGED <<up, ctxDone, submit, queueVars, storeVars, fileVars, workerVars, runVars>>
    BY <1>23 DEF Close
  <2> QED BY <2>1, <2>2
<1>24. CASE Crash
  <2>1. ProcessEnds
    BY <1>24 DEF Crash
  <2>2. submit' \in [Job -> {"none", "analysed", "saved", "accepted", "rejected", "lost"}]
    BY <2>1 DEF ProcessEnds
  <2>3. proc' \in [Job -> ProcState]
    BY <2>1, EndTypes
  <2>4. queue' \in Seq(Job) /\ pushed' \in Seq(Job) /\ started' \in Seq(Job)
    BY <2>1 DEF ProcessEnds
  <2>5. /\ up' \in BOOLEAN /\ ctxDone' \in BOOLEAN /\ storeOpen' \in BOOLEAN
        /\ waiting' \in BOOLEAN /\ done' \in BOOLEAN
    BY <2>1 DEF ProcessEnds
  <2>6. /\ pc' \in Label /\ cur' \in Job \cup {NoJob} /\ runCtx' \in {"none", "live", "done"}
        /\ mem' \in {"none", "running", "completed", "timeout"}
        /\ UNCHANGED <<cutOff, storeVars, fileVars>>
    BY <2>1 DEF ProcessEnds
  <2> QED BY <2>2, <2>3, <2>4, <2>5, <2>6
<1>25. CASE NewOrchestrator
  BY <1>25 DEF NewOrchestrator
<1>26. CASE UNCHANGED vars
  BY <1>26 DEF vars
<1> QED
  BY <1>1, <1>2, <1>3, <1>4, <1>5, <1>6, <1>7, <1>8, <1>9, <1>10, <1>11, <1>12, <1>13,
     <1>14, <1>15, <1>16, <1>17, <1>18, <1>19, <1>20, <1>21, <1>22, <1>23, <1>24, <1>25,
     <1>26 DEF Next, Worker

-----------------------------------------------------------------------------
(* Where the worker is.                                                    *)

\* Between Pop and the end of executeJob the worker holds a job.
LEMMA CurrentJob == ASSUME IInv, pc \notin Idle PROVE cur \in Job /\ cur # NoJob
  BY DEF IInv, TypeOK, PWorker

\* Every early return, and the end of executeJob.
LEMMA WorkerReturns == ASSUME Return, up, ~waiting, UNCHANGED <<up, waiting>> PROVE PWorker'
  BY DEF Return, PWorker

\* Every step keeps the worker's program counter, doneChan and the wait goroutine
\* in agreement.
LEMMA WorkerStep == ASSUME IInv, [Next]_vars PROVE PWorker'
<1> USE OrchestratorAssumption DEF IInv, PWorker
<1>1. ASSUME NEW j \in Job, AnalyzeFileStatic(j) PROVE PWorker'
  BY <1>1 DEF AnalyzeFileStatic
<1>2. ASSUME NEW j \in Job, SaveQueued(j) PROVE PWorker'
  BY <1>2 DEF SaveQueued
<1>3. ASSUME NEW j \in Job, Push(j) PROVE PWorker'
  BY <1>3 DEF Push
<1>4. ASSUME NEW j \in Job, SampleExits(j) PROVE PWorker'
  BY <1>4 DEF SampleExits
<1>5. CASE CheckContext
  BY <1>5 DEF CheckContext
<1>6. CASE Pop
  BY <1>6 DEF Pop, TypeOK
<1>7. CASE MarkRunning
  BY <1>7 DEF MarkRunning
<1>8. CASE CreateProcess
  BY <1>8 DEF CreateProcess
<1>9. CASE StartMonitor
  BY <1>9 DEF StartMonitor, TypeOK
<1>10. CASE FailJob
  BY <1>10, WorkerReturns DEF FailJob
<1>11. CASE SelectDone \/ SelectExpired \/ SelectParks
  BY <1>11 DEF SelectDone, SelectExpired, SelectParks
<1>12. CASE KillExpired
  BY <1>12 DEF KillExpired
<1>13. CASE JoinWait \/ TearDown
  BY <1>13 DEF JoinWait, TearDown
<1>14. CASE SaveFinalStatus
  BY <1>14 DEF SaveFinalStatus
<1>15. CASE ReadJob \/ ScoreJob \/ SaveFindings \/ WriteHTML \/ CreateJSON \/ EncodeJSON
  <2>1. up /\ done /\ ~waiting /\ UNCHANGED <<up, waiting>> /\ pc \in Ending
    BY <1>15 DEF ReadJob, ScoreJob, SaveFindings, WriteHTML, CreateJSON, EncodeJSON
  <2>2. CASE Return
    BY <2>1, <2>2, WorkerReturns
  <2>3. CASE ~Return
    <3>1. pc' \in {"score", "findings", "html", "json", "encode"} /\ UNCHANGED <<cur, mem, done>>
      BY <1>15, <2>3 DEF ReadJob, ScoreJob, SaveFindings, WriteHTML, CreateJSON, EncodeJSON
    <3> QED BY <2>1, <3>1
  <2> QED BY <2>2, <2>3
<1>16. CASE WatcherKills
  BY <1>16 DEF WatcherKills
<1>17. CASE WaitReturns \/ WaitFails
  BY <1>17 DEF WaitReturns, WaitFails, CloseDone
<1>18. CASE Deadline
  BY <1>18 DEF Deadline, WakeExpired
<1>19. CASE Cancel
  BY <1>19 DEF Cancel, WakeExpired
<1>20. CASE Close
  BY <1>20 DEF Close
<1>21. CASE Crash
  BY <1>21 DEF Crash, ProcessEnds
<1>22. CASE NewOrchestrator
  BY <1>22 DEF NewOrchestrator
<1>23. CASE UNCHANGED vars
  BY <1>23 DEF vars
<1> QED
  BY <1>1, <1>2, <1>3, <1>4, <1>5, <1>6, <1>7, <1>8, <1>9, <1>10, <1>11, <1>12, <1>13,
     <1>14, <1>15, <1>16, <1>17, <1>18, <1>19, <1>20, <1>21, <1>22, <1>23 DEF Next, Worker

-----------------------------------------------------------------------------
(* The end of a sample.                                                    *)

\* A sample ends by itself or by its watcher, and nothing else changes.
EndOf(j) ==
    /\ \/ proc[j] = "alive" /\ proc'[j] \in {"zombie", "reaped"}
                            /\ (cur = j => proc'[j] = "zombie")
       \/ proc[j] = "adrift" /\ proc'[j] = "lost"
    /\ \A i \in Job : i # j => proc'[i] = proc[i]

LEMMA SampleEnds ==
  ASSUME IInv, WatcherKills \/ \E i \in Job : SampleExits(i)
  PROVE  /\ \E j \in Job : EndOf(j)
         /\ UNCHANGED <<daemonVars, submit, queueVars, storeVars, fileVars, workerVars,
                        runCtx, waiting, done>>
<1>1. proc \in [Job -> ProcState]
  BY DEF IInv, TypeOK
<1>2. CASE WatcherKills
  <2>1. PICK j \in Job : proc[j] \in {"alive", "adrift"} /\ proc' = [proc EXCEPT ![j] = Killed(@)]
    BY <1>2 DEF WatcherKills
  <2>2. EndOf(j)
    BY <1>1, <2>1 DEF EndOf, Killed
  <2> QED BY <1>2, <2>2 DEF WatcherKills
<1>3. CASE \E i \in Job : SampleExits(i)
  <2>1. PICK j \in Job : SampleExits(j)
    BY <1>3
  <2>2. cur = j => up
    BY OrchestratorAssumption DEF IInv, PWorker
  <2>3. CASE proc[j] = "alive" /\ proc' = [proc EXCEPT ![j] = IF up /\ cur = j THEN "zombie" ELSE "reaped"]
    <3>1. EndOf(j)
      BY <1>1, <2>2, <2>3 DEF EndOf
    <3> QED BY <2>1, <3>1 DEF SampleExits
  <2>4. CASE proc[j] = "adrift" /\ proc' = [proc EXCEPT ![j] = "lost"]
    <3>1. EndOf(j)
      BY <1>1, <2>4 DEF EndOf
    <3> QED BY <2>1, <3>1 DEF SampleExits
  <2> QED BY <2>1, <2>3, <2>4 DEF SampleExits
<1> QED BY <1>2, <1>3

-----------------------------------------------------------------------------
(* The queue.                                                              *)

\* The job the worker holds was accepted and stands in line no more: it is the last
\* one popped, and no job is pushed twice.
LEMMA CurrentSeen == ASSUME IInv, cur # NoJob PROVE cur \in Job /\ ~Unseen(cur)
<1>1. cur \in Job
  BY DEF IInv, TypeOK
<1> DEFINE n == Len(started)
<1>2. n \in Nat /\ n > 0 /\ Len(queue) \in Nat /\ Len(pushed) = n + Len(queue)
  BY DEF IInv, TypeOK, PQueue, FifoOrder
<1>3. cur = pushed[n] /\ submit[cur] = "accepted"
  BY <1>2 DEF IInv, PQueue, FifoOrder
<1>4. ASSUME NEW i \in 1..Len(queue) PROVE queue[i] # cur
  <2>1. queue[i] = pushed[n + i]
    BY DEF IInv, PQueue, FifoOrder
  <2>2. n \in 1..Len(pushed) /\ n + i \in 1..Len(pushed) /\ n # n + i
    BY <1>2
  <2> QED BY <1>3, <2>1, <2>2 DEF IInv, PQueue
<1> QED BY <1>1, <1>3, <1>4 DEF Unseen

\* A step that neither pushes, pops nor takes up a job keeps the order.
LEMMA QueueKept ==
  ASSUME IInv, UNCHANGED queueVars, cur' \in {cur, NoJob},
         \A j \in Job : submit[j] = "accepted" => submit'[j] = "accepted"
  PROVE  PQueue'
<1>1. \A i \in 1..Len(pushed) : pushed[i] \in Job
  BY DEF IInv, TypeOK
<1> QED BY <1>1 DEF IInv, PQueue, FifoOrder

\* Push adds a job that was never pushed before, at both ends.
LEMMA QueuePush ==
  ASSUME IInv, NEW j \in Job, Push(j) PROVE PQueue'
<1> DEFINE n == Len(pushed)
<1>1. /\ queue \in Seq(Job) /\ pushed \in Seq(Job) /\ started \in Seq(Job)
      /\ n = Len(started) + Len(queue)
  BY DEF IInv, TypeOK, PQueue, FifoOrder
<1>2. /\ submit[j] = "saved" /\ queue' = Append(queue, j) /\ pushed' = Append(pushed, j)
      /\ UNCHANGED <<started, cur>> /\ submit' = [submit EXCEPT ![j] = "accepted"]
  BY DEF Push
<1>3. \A i \in 1..n : /\ pushed'[i] = pushed[i] /\ pushed[i] # j /\ pushed[i] \in Job
                      /\ submit[pushed[i]] = "accepted"
  BY <1>1, <1>2 DEF IInv, PQueue
<1>4. n \in Nat /\ Len(pushed') = n + 1 /\ pushed'[n + 1] = j
  <2>1. pushed \in Seq(Job) /\ pushed' = Append(pushed, j)
    BY <1>1, <1>2
  <2> QED BY <2>1
<1>5. /\ Len(queue') = Len(queue) + 1 /\ queue'[Len(queue) + 1] = j
      /\ \A i \in 1..Len(queue) : queue'[i] = queue[i]
  BY <1>1, <1>2
<1>6. FifoOrder'
  <2>1. \A i \in 1..Len(queue') : queue'[i] = pushed'[Len(started) + i]
    <3> SUFFICES ASSUME NEW i \in 1..Len(queue') PROVE queue'[i] = pushed'[Len(started) + i]
      OBVIOUS
    <3>1. CASE i = Len(queue) + 1
      BY <3>1, <1>1, <1>4, <1>5
    <3>2. CASE i # Len(queue) + 1
      <4>1. i \in 1..Len(queue) /\ Len(started) + i \in 1..n
        BY <3>2, <1>1, <1>5
      <4> QED BY <4>1, <1>3, <1>5 DEF IInv, PQueue, FifoOrder
    <3> QED BY <3>1, <3>2
  <2>2. \A i \in 1..Len(started') : started'[i] = pushed'[i]
    BY <1>1, <1>2, <1>3 DEF IInv, PQueue, FifoOrder
  <2>3. Len(pushed') = Len(started') + Len(queue')
    BY <1>1, <1>2, <1>4, <1>5
  <2>4. started' = started
    BY <1>2
  <2> QED BY <2>1, <2>2, <2>3, <2>4 DEF FifoOrder
<1>7. \A i, k \in 1..Len(pushed') : pushed'[i] = pushed'[k] => i = k
  <2>1. \A i \in 1..Len(pushed') : i = n + 1 \/ i \in 1..n
    BY <1>4
  <2>2. \A i, k \in 1..n : pushed[i] = pushed[k] => i = k
    BY DEF IInv, PQueue
  <2> QED BY <2>1, <2>2, <1>3, <1>4
<1>8. \A i \in 1..Len(pushed') : submit'[pushed'[i]] = "accepted"
  BY <1>1, <1>2, <1>3, <1>4 DEF IInv, TypeOK
<1> QED BY <1>2, <1>6, <1>7, <1>8 DEF IInv, PQueue

\* Pop moves the oldest job from the line to the jobs started.
LEMMA QueuePop == ASSUME IInv, Pop PROVE PQueue'
<1> DEFINE n == Len(started)
<1>1. /\ queue \in Seq(Job) /\ queue # <<>> /\ pushed \in Seq(Job) /\ started \in Seq(Job)
      /\ Len(pushed) = n + Len(queue)
  BY DEF IInv, TypeOK, PQueue, FifoOrder, Pop
<1>2. /\ Len(queue) \in Nat \ {0} /\ Head(queue) = queue[1]
      /\ queue' = Tail(queue) /\ Len(queue') = Len(queue) - 1
      /\ \A i \in 1..Len(queue') : queue'[i] = queue[i + 1]
  BY <1>1 DEF Pop
<1>3. /\ started' = Append(started, queue[1]) /\ Len(started') = n + 1
      /\ started'[n + 1] = queue[1] /\ \A i \in 1..n : started'[i] = started[i]
  BY <1>1, <1>2 DEF Pop
<1>4. /\ pushed' = pushed /\ cur' = queue[1] /\ submit' = submit
  BY <1>2 DEF Pop
<1>5. FifoOrder'
  <2>1. queue[1] = pushed[n + 1]
    BY <1>1, <1>2 DEF IInv, PQueue, FifoOrder
  <2>2. \A i \in 1..Len(started') : started'[i] = pushed'[i]
    BY <1>1, <1>3, <1>4, <2>1 DEF IInv, PQueue, FifoOrder
  <2>3. \A i \in 1..Len(queue') : queue'[i] = pushed'[Len(started') + i]
    <3> SUFFICES ASSUME NEW i \in 1..Len(queue') PROVE queue'[i] = pushed'[Len(started') + i]
      OBVIOUS
    <3>1. i + 1 \in 1..Len(queue) /\ n + (i + 1) = Len(started') + i
      BY <1>1, <1>2, <1>3
    <3> QED BY <3>1, <1>2, <1>4 DEF IInv, PQueue, FifoOrder
  <2>4. Len(pushed') = Len(started') + Len(queue')
    <3>1. n \in Nat /\ Len(queue) \in Nat /\ Len(pushed) = n + Len(queue)
      BY <1>1
    <3>2. Len(started') = n + 1 /\ Len(queue') = Len(queue) - 1 /\ pushed' = pushed
      BY <1>2, <1>3, <1>4
    <3> QED BY <3>1, <3>2
  <2> QED BY <2>2, <2>3, <2>4 DEF FifoOrder
<1> QED BY <1>1, <1>3, <1>4, <1>5 DEF IInv, PQueue

\* Every step keeps the order of the queue.
LEMMA QueueStep == ASSUME IInv, [Next]_vars PROVE PQueue'
<1>1. ASSUME NEW j \in Job, AnalyzeFileStatic(j) PROVE PQueue'
  BY <1>1, QueueKept DEF AnalyzeFileStatic, IInv, TypeOK
<1>2. ASSUME NEW j \in Job, SaveQueued(j) PROVE PQueue'
  <2>1. /\ submit[j] = "analysed" /\ UNCHANGED <<queueVars, cur>>
        /\ \/ submit' = [submit EXCEPT ![j] = "saved"]
           \/ submit' = [submit EXCEPT ![j] = "rejected"]
    BY <1>2 DEF SaveQueued
  <2>2. \A i \in Job : submit[i] = "accepted" => submit'[i] = "accepted"
    BY <2>1 DEF IInv, TypeOK
  <2> QED BY <2>1, <2>2, QueueKept DEF IInv
<1>3. ASSUME NEW j \in Job, Push(j) PROVE PQueue'
  BY <1>3, QueuePush
<1>4. CASE Pop
  BY <1>4, QueuePop
<1>5. CASE Worker /\ ~Pop
  <2>1. UNCHANGED <<queueVars, submit>>
    BY <1>5 DEF Worker, CheckContext, MarkRunning, CreateProcess, StartMonitor, FailJob,
       SelectDone, SelectExpired, SelectParks, KillExpired, JoinWait, TearDown,
       SaveFinalStatus, ReadJob, ScoreJob, SaveFindings, WriteHTML, CreateJSON, EncodeJSON
  <2>2. cur' \in {cur, NoJob}
    BY <1>5 DEF Worker, CheckContext, MarkRunning, CreateProcess, StartMonitor, FailJob,
       SelectDone, SelectExpired, SelectParks, KillExpired, JoinWait, TearDown,
       SaveFinalStatus, ReadJob, ScoreJob, SaveFindings, WriteHTML, CreateJSON, EncodeJSON, Return
  <2> QED BY <2>1, <2>2, QueueKept DEF IInv
<1>6. CASE Crash
  BY <1>6 DEF Crash, ProcessEnds, PQueue, FifoOrder
<1>7. ASSUME NEW j \in Job, SampleExits(j) PROVE PQueue'
  BY <1>7, QueueKept DEF SampleExits, IInv
<1>8. CASE WatcherKills \/ WaitReturns \/ WaitFails \/ Deadline \/ Cancel \/ Close \/ NewOrchestrator
  BY <1>8, QueueKept DEF WatcherKills, WaitReturns, WaitFails, CloseDone, Deadline, Cancel, Close,
                         NewOrchestrator, IInv
<1>9. CASE UNCHANGED vars
  BY <1>9, QueueKept DEF vars, IInv
<1> QED
  BY <1>1, <1>2, <1>3, <1>4, <1>5, <1>6, <1>7, <1>8, <1>9 DEF Next

-----------------------------------------------------------------------------
(* Jobs no worker has seen, and what the steps of the worker leave alone.  *)

(* What SaveJob does to the rows, with or without an error.                 *)
LEMMA SaveJobEffect ==
  ASSUME TypeOK, NEW j \in Job, NEW s \in Status, NEW b \in BOOLEAN, SaveJob(j, s, b)
  PROVE  /\ row' \in [Job -> Status \cup {"absent"}] /\ verdict' \in [Job -> BOOLEAN]
         /\ UNCHANGED findings
         /\ \A i \in Job : i # j => row'[i] = row[i] /\ verdict'[i] = verdict[i]
         /\ \/ row'[j] = s /\ verdict'[j] = b
            \/ row'[j] = row[j] /\ verdict'[j] = verdict[j] /\ StoreErrs
<1>1. CASE SaveJobOk(j, s, b)
  BY <1>1 DEF SaveJobOk, TypeOK
<1>2. CASE SaveJobFails
  BY <1>2 DEF SaveJobFails, TypeOK
<1> QED BY <1>1, <1>2 DEF SaveJob

(* The worker and its wait goroutine touch only the job held.               *)
OthersKept ==
    \A i \in Job : i # cur => /\ row'[i] = row[i] /\ verdict'[i] = verdict[i]
                              /\ findings'[i] = findings[i]
                              /\ html'[i] = html[i] /\ json'[i] = json[i] /\ proc'[i] = proc[i]

\* The worker and its wait goroutine touch the job held and no other.
LEMMA OthersFrame ==
  ASSUME IInv, Worker \/ WaitReturns \/ WaitFails
  PROVE  OthersKept /\ UNCHANGED <<up, storeOpen, cutOff, submit>>
<1>1. cur # NoJob => cur \in Job
  BY DEF IInv, TypeOK
<1> USE DEF OthersKept
<1>a. TypeOK /\ PWorker
  BY DEF IInv
<1>2. CASE CheckContext BY <1>2 DEF CheckContext
<1>3. CASE Pop BY <1>3 DEF Pop
<1>4. CASE MarkRunning
  <2>1. SaveJob(cur, "running", FALSE) /\ cur \in Job
    BY <1>1, <1>4, <1>a DEF MarkRunning, PWorker
  <2> QED BY <1>4, <1>a, <2>1, SaveJobEffect DEF MarkRunning
<1>5. CASE CreateProcess BY <1>5, <1>a DEF CreateProcess, TypeOK
<1>6. CASE StartMonitor BY <1>6, <1>a DEF StartMonitor, TypeOK
<1>7. CASE FailJob
  <2>1. SaveJob(cur, "failed", FALSE) /\ cur \in Job
    BY <1>1, <1>7, <1>a DEF FailJob, PWorker
  <2> QED BY <1>7, <1>a, <2>1, SaveJobEffect DEF FailJob
<1>8. CASE SelectDone \/ SelectExpired \/ SelectParks
  BY <1>8 DEF SelectDone, SelectExpired, SelectParks
<1>9. CASE KillExpired BY <1>9, <1>a DEF KillExpired, TypeOK
<1>10. CASE JoinWait \/ TearDown BY <1>10 DEF JoinWait, TearDown
<1>11. CASE SaveFinalStatus
  <2>1. SaveJob(cur, mem, FALSE) /\ cur \in Job /\ mem \in Status
    BY <1>1, <1>11, <1>a DEF SaveFinalStatus, PWorker
  <2> QED BY <1>11, <1>a, <2>1, SaveJobEffect DEF SaveFinalStatus
<1>12. CASE ReadJob BY <1>12 DEF ReadJob
<1>18. CASE ScoreJob
  <2>1. SaveJob(cur, "completed", TRUE) /\ cur \in Job
    BY <1>1, <1>18, <1>a DEF ScoreJob, PWorker
  <2> QED BY <1>18, <1>a, <2>1, SaveJobEffect DEF ScoreJob
<1>19. CASE SaveFindings BY <1>19, <1>a DEF SaveFindings, TypeOK
<1>13. CASE WriteHTML BY <1>13, <1>a DEF WriteHTML, TypeOK
<1>14. CASE CreateJSON BY <1>14, <1>a DEF CreateJSON, TypeOK
<1>15. CASE EncodeJSON BY <1>15, <1>a DEF EncodeJSON, TypeOK
<1>16. CASE WaitReturns BY <1>16, <1>a DEF WaitReturns, CloseDone, TypeOK
<1>17. CASE WaitFails BY <1>17, <1>a DEF WaitFails, CloseDone, TypeOK
<1> QED BY <1>2, <1>3, <1>4, <1>5, <1>6, <1>7, <1>8, <1>9, <1>10, <1>11, <1>12, <1>13,
           <1>14, <1>15, <1>16, <1>17, <1>18, <1>19 DEF Worker

\* So none of their steps concerns a job that no worker has seen.
LEMMA UnseenKept ==
  ASSUME IInv, UNCHANGED <<submit, queue>>, OthersKept,
         cur # NoJob => row'[cur] # "absent"
  PROVE  PUnseen'
<1>1. \A i \in Job : Unseen(i) => i # cur
  <2>1. CASE cur = NoJob
    BY <2>1, OrchestratorAssumption
  <2>2. CASE cur # NoJob
    BY <2>2, CurrentSeen
  <2> QED BY <2>1, <2>2
<1>2. \A i \in Job : Unseen(i)' <=> Unseen(i)
  BY DEF Unseen
<1>3. \A i \in Job : Unseen(i) => /\ row'[i] = row[i] /\ html'[i] = html[i]
                                  /\ json'[i] = json[i] /\ proc'[i] = proc[i]
  BY <1>1 DEF OthersKept
<1>4. \A i \in 1..Len(queue) : queue[i] \in Job /\ Unseen(queue[i])
  BY DEF Unseen, IInv, TypeOK
<1>5. QueuedRowsAreQueued'
  BY <1>3, <1>4 DEF QueuedRowsAreQueued, IInv, PUnseen
<1>6. AcceptedHasRow'
  BY OrchestratorAssumption DEF AcceptedHasRow, OthersKept, IInv, PUnseen
<1>7. \A i \in Job : submit[i] # "accepted" => Unseen(i)
  BY DEF Unseen
<1> QED BY <1>2, <1>3, <1>5, <1>6, <1>7 DEF IInv, PUnseen

\* A job pushed has the row SubmitJob saved just before.
LEMMA UnseenPush == ASSUME IInv, NEW j \in Job, Push(j) PROVE PUnseen'
<1>1. /\ submit[j] = "saved" /\ submit' = [submit EXCEPT ![j] = "accepted"]
      /\ queue' = Append(queue, j) /\ UNCHANGED <<row, verdict, html, json, proc>>
  BY DEF Push
<1>2. \A i \in 1..Len(queue') : queue'[i] = j \/ \E k \in 1..Len(queue) : queue'[i] = queue[k]
  BY <1>1 DEF IInv, TypeOK
<1>3. Unseen(j) /\ row[j] = "queued"
  BY <1>1 DEF Unseen, IInv, PUnseen
<1>4. \A i \in Job : Unseen(i)' => Unseen(i)
  BY <1>1, <1>2, <1>3 DEF Unseen, IInv, TypeOK
<1>5. QueuedRowsAreQueued'
  BY <1>1, <1>2, <1>3 DEF QueuedRowsAreQueued, IInv, PUnseen
<1>6. AcceptedHasRow'
  BY <1>1, <1>3 DEF AcceptedHasRow, IInv, PUnseen, TypeOK
<1> QED BY <1>1, <1>3, <1>4, <1>5, <1>6 DEF IInv, PUnseen, TypeOK

\* SubmitJob writes the first row of a job that was in line nowhere.
LEMMA UnseenSaveQueued == ASSUME IInv, NEW j \in Job, SaveQueued(j) PROVE PUnseen'
<1>1. /\ submit[j] = "analysed" /\ row[j] = "absent" /\ UNCHANGED <<queue, html, json, proc>>
      /\ submit \in [Job -> {"none", "analysed", "saved", "accepted", "rejected", "lost"}]
  BY DEF SaveQueued, IInv, PUnseen, TypeOK
<1>2. /\ \A i \in Job : i # j => row'[i] = row[i] /\ submit'[i] = submit[i]
      /\ \/ row'[j] = "queued" /\ submit'[j] = "saved"
         \/ row'[j] = "absent" /\ submit'[j] = "rejected"
  <2>1. CASE SaveJobOk(j, "queued", FALSE) /\ submit' = [submit EXCEPT ![j] = "saved"]
    BY <1>1, <2>1 DEF SaveJobOk, IInv, TypeOK
  <2>2. CASE SaveJobFails /\ submit' = [submit EXCEPT ![j] = "rejected"]
    BY <1>1, <2>2 DEF SaveJobFails
  <2> QED BY <2>1, <2>2 DEF SaveQueued
<1>3. \A i \in Job : Unseen(i)' <=> Unseen(i)
  BY <1>1, <1>2 DEF Unseen
<1>4. \A i \in 1..Len(queue) : queue[i] \in Job /\ queue[i] # j
  BY <1>1 DEF IInv, PUnseen, QueuedRowsAreQueued, TypeOK
<1>5. QueuedRowsAreQueued'
  BY <1>1, <1>2, <1>4 DEF QueuedRowsAreQueued, IInv, PUnseen
<1>6. AcceptedHasRow'
  BY <1>1, <1>2 DEF AcceptedHasRow, IInv, PUnseen
<1> QED BY <1>1, <1>2, <1>3, <1>5, <1>6 DEF IInv, PUnseen

\* The end of the daemon writes no row, and no sample starts in it.
LEMMA UnseenProcessEnds == ASSUME IInv, ProcessEnds PROVE PUnseen'
<1>1. queue' = <<>> /\ UNCHANGED <<row, html, json>>
  BY DEF ProcessEnds
<1>2. \A i \in Job : /\ submit'[i] = IF submit[i] \in {"analysed", "saved"} THEN "lost"
                                                                          ELSE submit[i]
                     /\ proc[i] = "none" => proc'[i] = "none"
  BY EndTypes DEF ProcessEnds, IInv, TypeOK
<1>3. \A i \in Job : Unseen(i)' => Unseen(i)
  BY <1>1, <1>2 DEF Unseen
<1>4. QueuedRowsAreQueued'
  BY <1>1 DEF QueuedRowsAreQueued
<1>5. AcceptedHasRow'
  BY <1>1, <1>2 DEF AcceptedHasRow, IInv, PUnseen
<1> QED BY <1>1, <1>2, <1>3, <1>4, <1>5 DEF IInv, PUnseen

\* Every step keeps what holds of the jobs no worker has seen.
LEMMA UnseenStep == ASSUME IInv, [Next]_vars PROVE PUnseen'
<1>1. ASSUME NEW j \in Job, AnalyzeFileStatic(j) PROVE PUnseen'
  <2>1. /\ submit[j] = "none" /\ UNCHANGED <<queue, row, html, json, proc>>
        /\ submit'[j] \in {"analysed", "rejected"} /\ \A i \in Job : i # j => submit'[i] = submit[i]
    BY <1>1 DEF AnalyzeFileStatic, IInv, TypeOK
  <2>2. \A i \in Job : Unseen(i)' <=> Unseen(i)
    BY <2>1 DEF Unseen
  <2> QED BY <2>1, <2>2 DEF IInv, PUnseen, QueuedRowsAreQueued, AcceptedHasRow
<1>2. ASSUME NEW j \in Job, SaveQueued(j) PROVE PUnseen'
  BY <1>2, UnseenSaveQueued
<1>3. ASSUME NEW j \in Job, Push(j) PROVE PUnseen'
  BY <1>3, UnseenPush
<1>4. CASE Pop
  <2>1. UNCHANGED <<submit, row, html, json, proc>>
    BY <1>4 DEF Pop
  <2>2. \A i \in 1..Len(queue') : i + 1 \in 1..Len(queue) /\ queue'[i] = queue[i + 1]
    BY <1>4 DEF Pop, IInv, TypeOK
  <2>3. \A i \in Job : Unseen(i)' => Unseen(i)
    BY <2>1, <2>2 DEF Unseen
  <2> QED BY <2>1, <2>2, <2>3 DEF IInv, PUnseen, QueuedRowsAreQueued, AcceptedHasRow
<1>5. CASE (Worker /\ ~Pop) \/ WaitReturns \/ WaitFails
  <2>1. UNCHANGED queue
    BY <1>5 DEF Worker, CheckContext, MarkRunning, CreateProcess, StartMonitor, FailJob, SelectDone,
       SelectExpired, SelectParks, KillExpired, JoinWait, TearDown, SaveFinalStatus, ReadJob,
       ScoreJob, SaveFindings, WriteHTML, CreateJSON, EncodeJSON, WatcherKills, WaitReturns,
       WaitFails, CloseDone
  <2>2. OthersKept /\ UNCHANGED submit
    BY <1>5, OthersFrame
  <2>3. cur # NoJob => row'[cur] # "absent"
    <3> SUFFICES ASSUME cur # NoJob PROVE row'[cur] # "absent"
      OBVIOUS
    <3>1. cur \in Job /\ submit[cur] = "accepted" /\ row[cur] # "absent"
      BY CurrentSeen DEF Unseen, IInv, PUnseen, AcceptedHasRow
    <3>2. CASE UNCHANGED row
      BY <3>1, <3>2
    <3>3. ASSUME NEW s \in Status, NEW b \in BOOLEAN, SaveJob(cur, s, b) PROVE row'[cur] # "absent"
      BY <3>1, <3>3, SaveJobEffect DEF IInv
    <3>4. \/ UNCHANGED row
          \/ \E s \in Status, b \in BOOLEAN : SaveJob(cur, s, b)
      <4>1. CASE SaveFinalStatus
        BY <4>1 DEF SaveFinalStatus, IInv, PWorker
      <4>2. CASE ScoreJob \/ MarkRunning \/ FailJob
        BY <4>2 DEF ScoreJob, MarkRunning, FailJob
      <4> QED BY <1>5, <4>1, <4>2 DEF Worker, CheckContext, CreateProcess, StartMonitor,
             SelectDone, SelectExpired, SelectParks, KillExpired, JoinWait, TearDown, ReadJob,
             SaveFindings, WriteHTML, CreateJSON, EncodeJSON, WaitReturns, WaitFails, CloseDone
    <3> QED BY <3>2, <3>3, <3>4
  <2> QED BY <2>1, <2>2, <2>3, UnseenKept
<1>6. CASE WatcherKills \/ \E i \in Job : SampleExits(i)
  <2>1. PICK j \in Job : EndOf(j)
    BY <1>6, SampleEnds
  <2>2. UNCHANGED <<submit, queue, row, html, json>> /\ ~Unseen(j)
    BY <1>6, <2>1, SampleEnds DEF EndOf, IInv, PUnseen
  <2>3. \A i \in Job : Unseen(i)' <=> Unseen(i)
    BY <2>2 DEF Unseen
  <2>4. \A i \in Job : Unseen(i) => proc'[i] = proc[i]
    BY <2>1, <2>2 DEF EndOf
  <2> QED BY <2>2, <2>3, <2>4 DEF IInv, PUnseen, QueuedRowsAreQueued, AcceptedHasRow
<1>7. CASE Crash
  BY <1>7, UnseenProcessEnds DEF Crash
<1>8. CASE Deadline \/ Cancel \/ Close \/ NewOrchestrator \/ UNCHANGED vars
  BY <1>8 DEF Deadline, Cancel, Close, NewOrchestrator, vars,
     IInv, PUnseen, Unseen, QueuedRowsAreQueued, AcceptedHasRow
<1> QED
  BY <1>1, <1>2, <1>3, <1>4, <1>5, <1>6, <1>7, <1>8 DEF Next

-----------------------------------------------------------------------------
(* The job the worker holds.                                               *)

\* The job taken from the line is as SubmitJob left it.
LEMMA CurrentPop == ASSUME IInv, Pop PROVE PCurrent'
<1>1. queue # <<>> /\ cur' = queue[1] /\ 1 \in 1..Len(queue) /\ queue[1] \in Job
  BY DEF Pop, IInv, TypeOK
<1>2. Unseen(queue[1]) /\ row[queue[1]] = "queued"
  BY <1>1 DEF Unseen, IInv, PUnseen, QueuedRowsAreQueued
<1>3. /\ UNCHANGED <<row, verdict, html, json, proc, waiting, done>> /\ pc' = "claimed"
      /\ ~waiting /\ ~done /\ mem' = "none"
  BY DEF Pop, IInv, PWorker
<1> QED BY <1>1, <1>2, <1>3 DEF PCurrent, Scored, IInv, PUnseen

\* The writes of the row by the worker, up to and including the last one.
LEMMA CurrentSaves ==
  ASSUME IInv, MarkRunning \/ SaveFinalStatus \/ ScoreJob \/ SaveFindings
  PROVE  PCurrent'
<1>1. /\ cur \in Job /\ cur # NoJob
      /\ UNCHANGED <<cur, storeOpen, cutOff, proc, html, json, waiting, done>>
  BY CurrentJob DEF MarkRunning, SaveFinalStatus, ScoreJob, SaveFindings
<1> USE DEF Scored
<1>2. CASE MarkRunning
  <2>1. SaveJob(cur, "running", FALSE) /\ pc = "claimed" /\ pc' = "launch" /\ mem' = "running"
    BY <1>2 DEF MarkRunning
  <2>2. row'[cur] \in {"queued", "running"}
    BY <1>1, <2>1, SaveJobEffect DEF IInv, PCurrent
  <2> QED BY <1>1, <2>1, <2>2 DEF IInv, PCurrent
<1>3. CASE SaveFinalStatus
  <2>1. /\ SaveJob(cur, mem, FALSE) /\ pc = "finish" /\ pc' = "report"
        /\ mem \in {"completed", "timeout"} /\ mem' = mem
    BY <1>3 DEF SaveFinalStatus, IInv, PWorker
  <2>2. row'[cur] \notin {"absent", "failed"}
    BY <1>1, <2>1, SaveJobEffect DEF IInv, PCurrent
  <2> QED BY <1>1, <2>1, <2>2 DEF IInv, PCurrent
<1>4. CASE ScoreJob
  <2>1. SaveJob(cur, "completed", TRUE) /\ pc = "score" /\ pc' = "findings" /\ mem' = mem
    BY <1>4 DEF ScoreJob
  <2>2. /\ row'[cur] \notin {"absent", "failed"}
        /\ "store" \notin Faults /\ storeOpen => verdict'[cur] /\ row'[cur] = "completed"
    <3>1. \/ row'[cur] = "completed" /\ verdict'[cur] = TRUE
          \/ row'[cur] = row[cur] /\ StoreErrs
      BY <1>1, <2>1, SaveJobEffect DEF IInv
    <3>2. row[cur] \notin {"absent", "failed"}
      BY <1>1 DEF IInv, PCurrent
    <3> QED BY <2>1, <3>1, <3>2 DEF StoreErrs
  <2> QED BY <1>1, <2>1, <2>2 DEF IInv, PCurrent
<1>5. CASE SaveFindings
  <2>1. UNCHANGED <<row, verdict, mem>> /\ pc = "findings" /\ pc' = "html"
    BY <1>5 DEF SaveFindings
  <2>2. "store" \notin Faults /\ storeOpen => findings'[cur]
    BY <1>1, <1>5 DEF SaveFindings, StoreErrs, IInv, TypeOK
  <2> QED BY <1>1, <2>1, <2>2 DEF IInv, PCurrent
<1> QED BY <1>2, <1>3, <1>4, <1>5

\* Every step keeps what holds of the job in hand.
LEMMA CurrentStep == ASSUME IInv, [Next]_vars PROVE PCurrent'
<1> USE DEF Scored
<1>1. ASSUME NEW j \in Job, AnalyzeFileStatic(j) \/ Push(j) PROVE PCurrent'
  BY <1>1 DEF AnalyzeFileStatic, Push, IInv, PCurrent
<1>2. ASSUME NEW j \in Job, SaveQueued(j) PROVE PCurrent'
  <2>1. /\ submit[j] = "analysed"
        /\ UNCHANGED <<storeOpen, cutOff, cur, pc, mem, html, json, proc, waiting, done>>
    BY <1>2 DEF SaveQueued
  <2>2. cur # NoJob => /\ row'[cur] = row[cur] /\ verdict'[cur] = verdict[cur]
                       /\ findings'[cur] = findings[cur]
    <3>1. cur # NoJob => cur \in Job /\ cur # j
      BY <2>1, CurrentSeen DEF Unseen
    <3> QED BY <1>2, <3>1 DEF SaveQueued, SaveJobOk, SaveJobFails, IInv, TypeOK
  <2> QED BY <2>1, <2>2 DEF IInv, PCurrent
<1>3. CASE WatcherKills \/ \E i \in Job : SampleExits(i)
  <2>1. PICK j \in Job : EndOf(j)
    BY <1>3, SampleEnds
  <2>2. UNCHANGED <<storeOpen, cutOff, cur, pc, mem, row, verdict, findings, html, json, waiting, done>>
    BY <1>3, SampleEnds
  <2>3. cur # NoJob => \/ proc'[cur] = proc[cur]
                       \/ proc[cur] = "alive" /\ proc'[cur] = "zombie"
                       \/ proc[cur] = "adrift" /\ proc'[cur] = "lost"
    BY <2>1 DEF EndOf, IInv, TypeOK
  <2> QED BY <2>2, <2>3 DEF IInv, PCurrent
<1>4. CASE CheckContext
  BY <1>4 DEF CheckContext, IInv, PCurrent, PWorker
<1>5. CASE Pop
  BY <1>5, CurrentPop
<1>6. CASE MarkRunning \/ SaveFinalStatus \/ ScoreJob \/ SaveFindings
  BY <1>6, CurrentSaves
<1>16. CASE ReadJob /\ ~Return
  BY <1>16 DEF ReadJob, IInv, PCurrent
<1>7. CASE CreateProcess
  BY <1>7, CurrentJob DEF CreateProcess, IInv, TypeOK, PWorker, PCurrent
<1>8. CASE StartMonitor
  BY <1>8, CurrentJob DEF StartMonitor, Killed, IInv, TypeOK, PWorker, PCurrent
<1>9. CASE FailJob \/ Return
  BY <1>9 DEF FailJob, Return, PCurrent
<1>10. CASE SelectDone \/ SelectExpired \/ SelectParks
  BY <1>10 DEF SelectDone, SelectExpired, SelectParks, IInv, PWorker, PCurrent
<1>11. CASE KillExpired
  BY <1>11, CurrentJob DEF KillExpired, Killed, IInv, TypeOK, PWorker, PCurrent
<1>12. CASE JoinWait \/ TearDown
  BY <1>12 DEF JoinWait, TearDown, IInv, PWorker, PCurrent
<1>13. CASE WriteHTML /\ ~Return
  <2>1. /\ pc = "html" /\ pc' = "json" /\ html' = [html EXCEPT ![cur] = "full"]
        /\ UNCHANGED <<storeOpen, cutOff, cur, mem, row, verdict, findings, json, proc, waiting, done>>
    BY <1>13 DEF WriteHTML
  <2>2. cur \in Job /\ html'[cur] = "full"
    BY <2>1, CurrentJob DEF IInv, TypeOK
  <2> QED BY <2>1, <2>2 DEF IInv, PCurrent
<1>14. CASE CreateJSON /\ ~Return
  <2>1. /\ pc = "json" /\ pc' = "encode" /\ json' = [json EXCEPT ![cur] = "partial"]
        /\ UNCHANGED <<storeOpen, cutOff, cur, mem, row, verdict, findings, html, proc, waiting, done>>
    BY <1>14 DEF CreateJSON
  <2>2. cur \in Job /\ json'[cur] = "partial"
    BY <2>1, CurrentJob DEF IInv, TypeOK
  <2> QED BY <2>1, <2>2 DEF IInv, PCurrent
<1>15. CASE EncodeJSON
  BY <1>9, <1>15 DEF EncodeJSON
<1>17. CASE WaitReturns \/ WaitFails
  <2>1. /\ up /\ waiting /\ cur \in Job /\ cur # NoJob /\ pc \in Waiting /\ ~done
        /\ UNCHANGED <<cur, row, verdict, findings, html, json>> /\ ~waiting' /\ done'
    BY <1>17, CurrentJob DEF WaitReturns, WaitFails, CloseDone, IInv, PWorker
  <2>2. /\ proc'[cur] \in AfterWait
        /\ proc[cur] = "zombie" => proc'[cur] # "adrift"
    BY <1>17, <2>1 DEF WaitReturns, WaitFails, IInv, TypeOK
  <2>3. \/ UNCHANGED <<pc, mem>>
        \/ pc = "parked" /\ pc' = "teardown" /\ mem' = "completed"
    BY <1>17 DEF WaitReturns, WaitFails, CloseDone
  <2>4. mem' = "timeout" => mem = "timeout"
    BY <2>3
  <2>5. proc[cur] \in {"alive", "zombie"} /\ (pc = "join" => proc[cur] # "alive")
    BY <2>1 DEF IInv, PCurrent
  <2>6. mem = "timeout" => proc[cur] # "alive"
    BY <2>1 DEF IInv, PCurrent
  <2> QED BY <2>1, <2>2, <2>3, <2>4, <2>5, <2>6 DEF IInv, PCurrent
<1>18. CASE Deadline \/ Cancel
  BY <1>18 DEF Deadline, Cancel, WakeExpired, IInv, PWorker, PCurrent
<1>19. CASE Crash
  BY <1>19 DEF Crash, ProcessEnds, PCurrent
<1>20. CASE Close
  BY <1>20 DEF Close, IInv, TypeOK, PCurrent
<1>21. CASE NewOrchestrator \/ UNCHANGED vars
  BY <1>21 DEF NewOrchestrator, vars, IInv, PWorker, PCurrent
<1> QED
  BY <1>1, <1>2, <1>3, <1>4, <1>5, <1>6, <1>7, <1>8, <1>9, <1>10, <1>11, <1>12, <1>13,
     <1>14, <1>15, <1>16, <1>17, <1>18, <1>19, <1>20, <1>21 DEF Next, Worker

-----------------------------------------------------------------------------
(* Rows, files and processes agree.                                        *)

\* A daemon that goes on remembers the jobs it has taken.
LEMMA TakenKept ==
  ASSUME IInv, [Next]_vars, up', NEW j \in Job, Taken(j)
  PROVE  Taken(j)'
<1>1. started \in Seq(Job)
  BY DEF IInv, TypeOK
<1>2. CASE Pop
  <2>1. queue[1] \in Job /\ started' = Append(started, queue[1])
    BY <1>2 DEF Pop, IInv, TypeOK
  <2>2. Len(started) \in Nat /\ Len(started') = Len(started) + 1
        /\ \A i \in 1..Len(started) : started'[i] = started[i]
    BY <1>1, <2>1
  <2> QED BY <2>2 DEF Taken
<1>3. CASE UNCHANGED started
  BY <1>3 DEF Taken
<1>4. UNCHANGED started \/ Pop
  BY DEF Next, Worker, AnalyzeFileStatic, SaveQueued, Push, SampleExits, CheckContext, MarkRunning,
     CreateProcess, StartMonitor, FailJob, SelectDone, SelectExpired, SelectParks, KillExpired,
     JoinWait, TearDown, SaveFinalStatus, ReadJob, ScoreJob, SaveFindings, WriteHTML, CreateJSON,
     EncodeJSON, WatcherKills, WaitReturns, WaitFails, CloseDone, Deadline, Cancel, Close, Crash,
     ProcessEnds, NewOrchestrator, vars
<1> QED BY <1>2, <1>3, <1>4

\* The job the worker holds is one its daemon has taken.
LEMMA CurrentTaken == ASSUME IInv, cur # NoJob PROVE Taken(cur)
<1>1. Len(started) \in Nat /\ Len(started) > 0 /\ cur = started[Len(started)]
  BY DEF IInv, TypeOK, PQueue
<1> QED BY <1>1 DEF Taken

\* A job the worker does not hold, in a step of the worker and its wait goroutine.
LEMMA ResultOther ==
  ASSUME IInv, OthersKept, UNCHANGED <<up, cutOff>>, NEW j \in Job, j # cur,
         up' /\ Taken(j) => Taken(j)'
  PROVE  ResultOf(j)'
  BY DEF OthersKept, ResultOf, IInv, PResult

\* The job the worker holds, when its row is written.
LEMMA ResultSaves ==
  ASSUME IInv, cur \in Job, NEW j \in Job, j = cur,
         MarkRunning \/ FailJob \/ SaveFinalStatus \/ ScoreJob
  PROVE  ResultOf(j)'
<1>1. ResultOf(j) /\ json[j] = "none" /\ html[j] = "none" /\ proc[j] # "alive"
  BY DEF IInv, PResult, PCurrent, PWorker, MarkRunning, FailJob, SaveFinalStatus, ScoreJob
<1>2. up' = up /\ started' = started /\ proc' = proc /\ html' = html /\ json' = json
  BY DEF MarkRunning, FailJob, SaveFinalStatus, ScoreJob
<1>3. /\ verdict'[j] => row'[j] = "completed"
      /\ row'[j] \in {"completed", "timeout"} => proc[j] \in AfterWait
      /\ row'[j] = "timeout" => proc[j] # "adrift"
  <2>1. CASE MarkRunning
    <3>1. SaveJob(j, "running", FALSE) /\ row[j] \in {"queued", "running"}
      BY <2>1 DEF MarkRunning, IInv, PCurrent, PWorker
    <3>2. \/ row'[j] = "running" /\ verdict'[j] = FALSE
          \/ row'[j] = row[j] /\ verdict'[j] = verdict[j]
      BY <3>1, SaveJobEffect DEF IInv
    <3> QED BY <1>1, <3>1, <3>2 DEF ResultOf
  <2>2. CASE FailJob
    <3>1. SaveJob(j, "failed", FALSE) /\ row[j] \in {"queued", "running"}
      BY <2>2 DEF FailJob, IInv, PCurrent, PWorker
    <3>2. \/ row'[j] = "failed" /\ verdict'[j] = FALSE
          \/ row'[j] = row[j] /\ verdict'[j] = verdict[j]
      BY <3>1, SaveJobEffect DEF IInv
    <3> QED BY <1>1, <3>1, <3>2 DEF ResultOf
  <2>3. CASE SaveFinalStatus
    <3>1. /\ SaveJob(j, mem, FALSE) /\ mem \in Status /\ proc[j] \in AfterWait
          /\ row[j] \in {"queued", "running"} /\ (mem = "timeout" => proc[j] # "adrift")
      BY <2>3 DEF SaveFinalStatus, IInv, PCurrent, PWorker
    <3>2. \/ row'[j] = mem /\ verdict'[j] = FALSE
          \/ row'[j] = row[j] /\ verdict'[j] = verdict[j]
      BY <3>1, SaveJobEffect DEF IInv
    <3> QED BY <1>1, <3>1, <3>2 DEF ResultOf
  <2>4. CASE ScoreJob
    <3>1. proc[j] \in AfterWait
      BY <2>4 DEF ScoreJob, IInv, PCurrent, PWorker
    <3>2. \/ row'[j] = "completed" /\ verdict'[j] = TRUE
          \/ row'[j] = row[j] /\ verdict'[j] = verdict[j]
      BY <2>4, SaveJobEffect DEF ScoreJob, IInv
    <3> QED BY <1>1, <3>1, <3>2 DEF ResultOf
  <2> QED BY <2>1, <2>2, <2>3, <2>4
<1>4. KillOnClose /\ proc'[j] = "adrift" => up' /\ Taken(j)'
  BY <1>1, <1>2 DEF ResultOf, Taken
<1> QED BY <1>1, <1>2, <1>3, <1>4 DEF ResultOf

\* Every step keeps the row, the files and the process of each job in agreement.
LEMMA ResultStep == ASSUME IInv, [Next]_vars PROVE PResult'
<1> SUFFICES ASSUME NEW j \in Job PROVE ResultOf(j)'
  BY DEF PResult
<1>a. ResultOf(j)
  BY DEF IInv, PResult
<1>b. up' /\ Taken(j) => Taken(j)'
  BY TakenKept
<1>1. ASSUME NEW i \in Job, AnalyzeFileStatic(i) \/ Push(i) PROVE ResultOf(j)'
  BY <1>1, <1>a, <1>b DEF AnalyzeFileStatic, Push, ResultOf
<1>2. ASSUME NEW i \in Job, SaveQueued(i) PROVE ResultOf(j)'
  <2>1. UNCHANGED <<up, cutOff, cur, pc, findings, html, json, proc>>
    BY <1>2 DEF SaveQueued, SaveJobOk, SaveJobFails
  <2>2. CASE row'[j] = row[j] /\ verdict'[j] = verdict[j]
    BY <1>a, <1>b, <2>1, <2>2 DEF ResultOf
  <2>3. CASE SaveJobOk(i, "queued", FALSE) /\ i = j
    <3>1. Unseen(i)
      BY <1>2 DEF SaveQueued, Unseen
    <3>2. proc[j] = "none" /\ json[j] = "none"
      BY <2>3, <3>1 DEF IInv, PUnseen
    <3>3. row'[j] = "queued" /\ verdict'[j] = FALSE
      BY <2>3 DEF SaveJobOk, IInv, TypeOK
    <3> QED BY <2>1, <3>2, <3>3 DEF ResultOf
  <2> QED BY <1>2, <2>2, <2>3 DEF SaveQueued, SaveJobOk, SaveJobFails, IInv, TypeOK
<1>3. CASE WatcherKills \/ \E i \in Job : SampleExits(i)
  <2>1. PICK i \in Job : EndOf(i)
    BY <1>3, SampleEnds
  <2>2. UNCHANGED <<up, cutOff, cur, pc, row, verdict, findings, html, json>>
    BY <1>3, SampleEnds
  <2>3. \/ proc'[j] = proc[j]
        \/ proc[j] = "alive" /\ proc'[j] \in {"zombie", "reaped"}
        \/ proc[j] = "adrift" /\ proc'[j] = "lost"
    BY <2>1 DEF EndOf
  <2> QED BY <1>a, <1>b, <2>2, <2>3 DEF ResultOf
<1>4. CASE (Worker \/ WaitReturns \/ WaitFails) /\ j # cur
  BY <1>4, OthersFrame, <1>b, ResultOther
<1>5. CASE (MarkRunning \/ FailJob \/ SaveFinalStatus \/ ScoreJob) /\ j = cur
  BY <1>5, ResultSaves
<1>6. CASE CheckContext \/ Pop
  BY <1>6, <1>a, <1>b DEF CheckContext, Pop, IInv, PWorker, ResultOf
<1>7. CASE CreateProcess /\ j = cur
  BY <1>7, <1>a, <1>b DEF CreateProcess, IInv, TypeOK, PCurrent, PWorker, ResultOf
<1>8. CASE StartMonitor /\ j = cur
  BY <1>8, <1>a, <1>b DEF StartMonitor, Killed, IInv, TypeOK, PCurrent, PWorker, ResultOf
<1>9. CASE (SelectDone \/ SelectExpired \/ SelectParks) /\ j = cur
  BY <1>9, <1>a, <1>b DEF SelectDone, SelectExpired, SelectParks, IInv, PCurrent, PWorker, ResultOf
<1>10. CASE KillExpired /\ j = cur
  BY <1>10, <1>a, <1>b DEF KillExpired, Killed, IInv, TypeOK, PCurrent, PWorker, ResultOf
<1>11. CASE (JoinWait \/ TearDown) /\ j = cur
  BY <1>11, <1>a, <1>b DEF JoinWait, TearDown, IInv, PCurrent, PWorker, ResultOf
<1>12. CASE (ReadJob \/ SaveFindings \/ WriteHTML) /\ j = cur
  <2>1. /\ row[j] # "failed" /\ json[j] = "none" /\ proc[j] \in AfterWait
        /\ UNCHANGED <<up, row, verdict, json, proc>>
    BY <1>12 DEF ReadJob, SaveFindings, WriteHTML, IInv, PCurrent, PWorker
  <2> QED BY <1>a, <1>b, <2>1 DEF ResultOf
<1>13. CASE (CreateJSON \/ EncodeJSON) /\ j = cur
  <2>1. /\ row[j] # "failed" /\ proc[j] \in AfterWait /\ html[j] = "full"
        /\ "store" \notin Faults /\ j \notin cutOff =>
               verdict[j] /\ findings[j] /\ row[j] = "completed"
        /\ UNCHANGED <<up, cutOff, row, verdict, findings, html, proc>>
    BY <1>13 DEF CreateJSON, EncodeJSON, IInv, PCurrent, Scored, PWorker
  <2> QED BY <1>a, <1>b, <2>1 DEF ResultOf
<1>15. CASE (WaitReturns \/ WaitFails) /\ j = cur
  <2>1. /\ proc[j] \in {"alive", "zombie"} /\ proc'[j] \in AfterWait /\ up /\ Taken(j)
        /\ UNCHANGED <<up, cutOff, row, verdict, findings, html, json>>
    <3>1. cur # NoJob
      BY <1>15, OrchestratorAssumption
    <3> QED BY <1>15, <3>1, CurrentTaken DEF WaitReturns, WaitFails, CloseDone, IInv, TypeOK,
                                             PCurrent
  <2> QED BY <1>a, <1>b, <2>1 DEF ResultOf
<1>16. CASE Deadline \/ Cancel
  BY <1>16, <1>a, <1>b DEF Deadline, Cancel, WakeExpired, ResultOf
<1>17. CASE Crash
  <2>1. UNCHANGED <<cutOff, row, verdict, findings, html, json>>
    BY <1>17 DEF Crash, ProcessEnds
  <2>2. /\ proc[j] \in AfterWait => proc'[j] \in AfterWait
        /\ KillOnClose => proc'[j] \notin {"alive", "adrift"}
        /\ proc'[j] = "alive" => proc[j] = "alive"
        /\ proc'[j] = "adrift" => proc[j] = "adrift"
    BY <1>17, EndTypes DEF Crash, IInv, TypeOK
  <2> QED BY <1>a, <2>1, <2>2 DEF ResultOf
<1>18. CASE Close \/ UNCHANGED vars
  BY <1>18, <1>a, <1>b DEF Close, vars, ResultOf
<1>19. CASE NewOrchestrator
  BY <1>19, <1>a, <1>b DEF NewOrchestrator, ResultOf
<1> QED
  BY <1>1, <1>2, <1>3, <1>4, <1>5, <1>6, <1>7, <1>8, <1>9, <1>10, <1>11, <1>12, <1>13,
     <1>15, <1>16, <1>17, <1>18, <1>19 DEF Next, Worker

-----------------------------------------------------------------------------
(* The invariant, and what it gives.                                       *)

\* The invariant holds initially.
LEMMA Initially == Init => IInv
<1> SUFFICES ASSUME Init PROVE IInv
  OBVIOUS
<1>1. TypeOK
  BY TypeInit
<1>2. PWorker /\ PCurrent
  BY DEF Init, PWorker, PCurrent
<1>3. PQueue
  BY DEF Init, PQueue, FifoOrder
<1>4. PUnseen
  BY DEF Init, PUnseen, QueuedRowsAreQueued, AcceptedHasRow
<1>5. PResult
  BY DEF Init, PResult, ResultOf
<1> QED BY <1>1, <1>2, <1>3, <1>4, <1>5 DEF IInv

\* The invariant holds in every reachable state.
THEOREM Inductive == Spec => []IInv
<1>1. IInv /\ [Next]_vars => IInv'
  <2> SUFFICES ASSUME IInv, [Next]_vars PROVE IInv'
    OBVIOUS
  <2>1. TypeOK'
    BY TypeStep DEF IInv
  <2> QED BY <2>1, WorkerStep, QueueStep, UnseenStep, CurrentStep, ResultStep DEF IInv
<1> QED BY <1>1, Initially, PTL DEF Spec

\* Every variable keeps its type; of SaveFinalStatus this says that the status it
\* saves was set on every path to it.
THEOREM TypeCorrect == Spec => []TypeOK
<1>1. IInv => TypeOK
  BY DEF IInv
<1> QED BY <1>1, Inductive, PTL

\* The worker takes the jobs in the order in which SubmitJob pushed them, and none
\* is lost, doubled or overtaken in the queue.
THEOREM QueueKeepsOrder == Spec => []FifoOrder
<1>1. IInv => FifoOrder
  BY DEF IInv, PQueue
<1> QED BY <1>1, Inductive, PTL

\* A job that waits in memory has the row "queued", and an accepted job has a row:
\* SubmitJob saves before it pushes and refuses the job if the save fails.
THEOREM QueueAgreesWithStore == Spec => [](QueuedRowsAreQueued /\ AcceptedHasRow)
<1>1. IInv => QueuedRowsAreQueued /\ AcceptedHasRow
  BY DEF IInv, PUnseen
<1> QED BY <1>1, Inductive, PTL

\* A job is reported "completed" or "timeout" only when Wait has returned for its
\* sample, at a deadline, a shutdown or a crash too: the sample has ended, unless
\* Wait failed and the job did not time out.
THEOREM VerdictsAfterExit == Spec => []VerdictAfterExit
<1>1. IInv => VerdictAfterExit
  BY DEF IInv, PResult, ResultOf, VerdictAfterExit
<1> QED BY <1>1, Inductive, PTL

\* With Job Objects, the only sample alive is that of the job the living worker holds,
\* or one on which Wait failed, in the daemon that took it.
THEOREM SamplesSupervised == Spec => []SampleSupervised
<1>1. IInv => SampleSupervised
  BY DEF IInv, PResult, ResultOf, SampleSupervised
<1> QED BY <1>1, Inductive, PTL

\* A report file of any size means a whole HTML file and, as long as saves succeed and
\* the store is not closed under GenerateReport, a scored row with the status
\* "completed" and all its findings.
THEOREM ReportsBacked == Spec => []ReportImpliesVerdict
<1>1. IInv => ReportImpliesVerdict
  BY DEF IInv, PResult, ResultOf, ReportImpliesVerdict
<1> QED BY <1>1, Inductive, PTL

\* A failed job has no verdict and no report file.
THEOREM FailuresUnreported == Spec => []FailedHasNoReport
<1>1. IInv => FailedHasNoReport
  BY DEF IInv, PResult, ResultOf, FailedHasNoReport
<1> QED BY <1>1, Inductive, PTL

\* The step of StatusForward: only the first write of a row, by SubmitJob, and
\* the worker's saves change it.
Forward(j) == /\ row'[j] # row[j] => row[j] # "failed" /\ Rank(row[j]) < Rank(row'[j])
              /\ verdict[j] => verdict'[j]

\* The order of the statuses.
LEMMA RankValues ==
  /\ Rank("absent") = 0 /\ Rank("queued") = 1 /\ Rank("running") = 2
  /\ Rank("failed") = 3 /\ Rank("timeout") = 3 /\ Rank("completed") = 4
  BY DEF Rank

\* Every step moves a row forward or leaves it.
LEMMA ForwardStep == ASSUME IInv, [Next]_vars, NEW j \in Job PROVE Forward(j)
<1>a. row[j] \in Status \cup {"absent"} /\ (verdict[j] => row[j] = "completed")
  BY DEF IInv, TypeOK, PResult, ResultOf
<1>1. CASE row'[j] = row[j] /\ verdict'[j] = verdict[j]
  BY <1>1 DEF Forward
<1>2. CASE SaveQueued(j)
  <2>1. row[j] = "absent" /\ ~verdict[j]
    BY <1>2, <1>a DEF SaveQueued, IInv, PUnseen
  <2>2. row'[j] = "queued" \/ row'[j] = row[j]
    BY <1>2 DEF SaveQueued, SaveJobOk, SaveJobFails, IInv, TypeOK
  <2> QED BY <2>1, <2>2, RankValues DEF Forward
<1>3. ASSUME NEW s \in {"running", "failed", "completed", "timeout"},
             SaveJob(j, s, FALSE), row[j] \in {"queued", "running"}
      PROVE  Forward(j)
  <2>1. ~verdict[j]
    BY <1>3, <1>a
  <2>2. row'[j] = s \/ row'[j] = row[j]
    BY <1>3, SaveJobEffect DEF IInv
  <2>3. row'[j] # row[j] => Rank(row[j]) < Rank(row'[j])
    BY <1>3, <2>2, RankValues
  <2> QED BY <1>3, <2>1, <2>3 DEF Forward
<1>4. CASE (MarkRunning \/ FailJob \/ SaveFinalStatus) /\ j = cur
  <2>1. row[j] \in {"queued", "running"}
    BY <1>4 DEF MarkRunning, FailJob, SaveFinalStatus, IInv, PWorker, PCurrent
  <2>2. \E s \in {"running", "failed", "completed", "timeout"} : SaveJob(j, s, FALSE)
    BY <1>4 DEF MarkRunning, FailJob, SaveFinalStatus, IInv, PWorker
  <2> QED BY <1>3, <2>1, <2>2
<1>5. CASE ScoreJob /\ j = cur
  <2>1. row[j] \in {"queued", "running", "timeout", "completed"}
    BY <1>5, <1>a DEF ScoreJob, IInv, PWorker, PCurrent
  <2>2. \/ row'[j] = "completed" /\ verdict'[j] = TRUE
        \/ row'[j] = row[j] /\ verdict'[j] = verdict[j]
    BY <1>5, SaveJobEffect DEF ScoreJob, IInv
  <2> QED BY <2>1, <2>2, RankValues DEF Forward
<1>6. CASE Worker /\ j # cur
  BY <1>1, <1>6, OthersFrame DEF OthersKept
<1>7. ASSUME NEW i \in Job, SaveQueued(i), i # j PROVE Forward(j)
  BY <1>1, <1>7 DEF SaveQueued, SaveJobOk, SaveJobFails, IInv, TypeOK
<1>8. CASE UNCHANGED <<row, verdict>>
  BY <1>1, <1>8
<1>9. \/ UNCHANGED <<row, verdict>>
      \/ \E i \in Job : SaveQueued(i)
      \/ MarkRunning \/ FailJob \/ SaveFinalStatus \/ ScoreJob
  BY DEF Next, Worker, AnalyzeFileStatic, Push, SampleExits, CheckContext, Pop, CreateProcess,
     StartMonitor, SelectDone, SelectExpired, SelectParks, KillExpired, JoinWait, TearDown,
     ReadJob, SaveFindings, WriteHTML, CreateJSON, EncodeJSON, WatcherKills, WaitReturns, WaitFails,
     CloseDone, Deadline, Cancel, Close, Crash, ProcessEnds, NewOrchestrator, vars
<1> QED
  BY <1>2, <1>4, <1>5, <1>6, <1>7, <1>8, <1>9 DEF Worker

\* No row ever moves back, whichever saves are lost and however often the daemon is
\* restarted.
THEOREM StatusMovesForward == Spec => StatusForward
<1>1. IInv /\ [Next]_vars => [\A j \in Job : Forward(j)]_storeVars
  BY ForwardStep
<1> QED BY <1>1, Inductive, PTL DEF Spec, StatusForward, Forward

\* Only CreateProcess starts a sample, and only that of a job not run before.
LEMMA RunsOnceStep ==
  ASSUME IInv, [Next]_vars, NEW j \in Job, proc'[j] = "alive"
  PROVE  proc[j] \in {"none", "alive"} /\ row[j] \notin Terminal
<1>1. CASE proc[j] = "alive"
  BY <1>1 DEF IInv, PResult, ResultOf
<1>2. CASE CreateProcess /\ j = cur
  BY <1>2 DEF CreateProcess, IInv, PWorker, PCurrent
<1>3. CASE CreateProcess /\ j # cur
  BY <1>1, <1>3 DEF CreateProcess, IInv, TypeOK
<1>4. CASE StartMonitor \/ KillExpired
  BY <1>1, <1>4 DEF StartMonitor, KillExpired, Killed, IInv, TypeOK
<1>5. CASE WatcherKills \/ \E i \in Job : SampleExits(i)
  BY <1>1, <1>5, SampleEnds DEF EndOf
<1>6. CASE WaitReturns \/ WaitFails
  BY <1>1, <1>6 DEF WaitReturns, WaitFails, IInv, TypeOK
<1>8. CASE Crash
  BY <1>1, <1>8, EndTypes DEF Crash, IInv, TypeOK
<1>7. CASE UNCHANGED proc
  BY <1>1, <1>7
<1> QED
  BY <1>2, <1>3, <1>4, <1>5, <1>6, <1>7, <1>8 DEF Next, Worker, AnalyzeFileStatic, SaveQueued, Push,
     CheckContext, Pop, MarkRunning, FailJob, SelectDone, SelectExpired, SelectParks, JoinWait,
     TearDown, SaveFinalStatus, ReadJob, ScoreJob, SaveFindings, WriteHTML, CreateJSON, EncodeJSON,
     Deadline, Cancel, Close, NewOrchestrator, vars

\* No sample is launched twice, nor after its job has ended.
THEOREM SamplesRunOnce == Spec => RunsAtMostOnce
<1>1. IInv /\ [Next]_vars =>
          [\A j \in Job : proc'[j] = "alive" => proc[j] \in {"none", "alive"}
                                                /\ row[j] \notin Terminal]_proc
  BY RunsOnceStep
<1> QED BY <1>1, Inductive, PTL DEF Spec, RunsAtMostOnce

-----------------------------------------------------------------------------
(* The orchestrator implements the ledger.                                 *)

Published == {j \in Job : json[j] # "none"}

\* Past moves with the accepted jobs, the job held and the jobs in line only.
LEMMA PastKept ==
  ASSUME UNCHANGED <<cur, queue>>,
         \A j \in Job : submit'[j] = "accepted" <=> submit[j] = "accepted"
  PROVE  Past' = Past
  BY DEF Past

\* The jobs in line are accepted ones.
LEMMA LineAccepted ==
  ASSUME IInv PROVE \A i \in 1..Len(queue) : queue[i] \in Job /\ submit[queue[i]] = "accepted"
<1> SUFFICES ASSUME NEW i \in 1..Len(queue)
             PROVE  queue[i] \in Job /\ submit[queue[i]] = "accepted"
  OBVIOUS
<1>1. /\ queue \in Seq(Job) /\ Len(started) \in Nat /\ Len(pushed) = Len(started) + Len(queue)
      /\ queue[i] = pushed[Len(started) + i]
  BY DEF IInv, TypeOK, PQueue, FifoOrder
<1>2. Len(started) + i \in 1..Len(pushed)
  BY <1>1
<1> QED BY <1>1, <1>2 DEF IInv, PQueue

\* Push is the ledger's Accept.
LEMMA LedgerAccepts == ASSUME IInv, NEW j \in Job, Push(j) PROVE Ledger!Accept(j)
<1>1. /\ submit[j] = "saved" /\ submit' = [submit EXCEPT ![j] = "accepted"]
      /\ queue' = Append(queue, j) /\ UNCHANGED <<cur, json>>
  BY DEF Push
<1>2. j # cur
  BY <1>1, CurrentSeen, OrchestratorAssumption DEF Unseen
<1>3. \A i \in 1..Len(queue) : queue[i] # j
  BY <1>1, LineAccepted
<1>4. j \notin Past
  BY <1>1 DEF Past
<1>5. \A i \in Job : (\E k \in 1..Len(queue') : queue'[k] = i)
                         <=> (i = j \/ \E k \in 1..Len(queue) : queue[k] = i)
  <2>1. queue \in Seq(Job)
    BY DEF IInv, TypeOK
  <2>2. Len(queue') = Len(queue) + 1 /\ queue'[Len(queue) + 1] = j /\ Len(queue) \in Nat
    BY <1>1, <2>1
  <2>3. \A k \in 1..Len(queue) : queue'[k] = queue[k]
    BY <1>1, <2>1
  <2> QED BY <2>2, <2>3
<1>6. Past' = Past
  BY <1>1, <1>3, <1>5 DEF Past, IInv, TypeOK
<1>7. Published' = Published
  BY <1>1 DEF Published
<1> QED BY <1>1, <1>2, <1>3, <1>4, <1>6, <1>7 DEF Ledger!Accept, Ledger!InLine, Published

\* Pop is the ledger's Start.
LEMMA LedgerStarts == ASSUME IInv, Pop PROVE Ledger!Start
<1>1. /\ cur = NoJob /\ queue # <<>> /\ cur' = Head(queue) /\ queue' = Tail(queue)
      /\ UNCHANGED <<submit, json>>
  BY DEF Pop, IInv, PWorker
<1>2. /\ queue \in Seq(Job) /\ Len(queue) \in Nat /\ 1 \in 1..Len(queue) /\ cur' = queue[1]
      /\ Len(queue') = Len(queue) - 1 /\ queue[1] \in Job
      /\ \A k \in 1..Len(queue') : k + 1 \in 1..Len(queue) /\ queue'[k] = queue[k + 1]
  BY <1>1 DEF IInv, TypeOK
<1>3. \A i \in Job \ {queue[1]} : (\E k \in 1..Len(queue') : queue'[k] = i)
                                      <=> \E k \in 1..Len(queue) : queue[k] = i
  <2> SUFFICES ASSUME NEW i \in Job \ {queue[1]}, NEW k \in 1..Len(queue), queue[k] = i
               PROVE  \E m \in 1..Len(queue') : queue'[m] = i
    BY <1>2
  <2>1. k - 1 \in 1..Len(queue') /\ (k - 1) + 1 = k
    BY <1>2
  <2> QED BY <1>2, <2>1
<1>4. \A i \in Job : cur # i
  BY <1>1, OrchestratorAssumption
<1>5. Past' = Past
  BY <1>1, <1>2, <1>3, <1>4 DEF Past
<1>6. Published' = Published
  BY <1>1 DEF Published
<1> QED BY <1>1, <1>5, <1>6 DEF Ledger!Start, Published

\* Every way out of executeJob is the ledger's Finish.
LEMMA LedgerFinishes ==
  ASSUME IInv, cur # NoJob, cur' = NoJob, UNCHANGED <<queue, submit>>, Published' = Published
  PROVE  Ledger!Finish
<1>1. cur \in Job /\ submit[cur] = "accepted" /\ \A i \in 1..Len(queue) : queue[i] # cur
  BY CurrentSeen DEF Unseen
<1>2. Past' = Past \cup {cur}
  BY <1>1, OrchestratorAssumption DEF Past
<1> QED BY <1>2 DEF Ledger!Finish, Published

\* Creating report.json is the ledger's Publish.
LEMMA LedgerPublishes ==
  ASSUME IInv, CreateJSON, ~Return PROVE Ledger!Publish
<1>1. cur \in Job /\ cur # NoJob /\ UNCHANGED <<cur, queue, submit>>
  BY CurrentJob DEF CreateJSON
<1>2. json' = [json EXCEPT ![cur] = "partial"]
  BY DEF CreateJSON
<1>3. Published' = Published \cup {cur}
  BY <1>1, <1>2 DEF Published, IInv, TypeOK
<1>4. Past' = Past
  BY <1>1, PastKept
<1> QED BY <1>1, <1>3, <1>4 DEF Ledger!Publish, Published

\* The end of the daemon is the ledger's Forget.
LEMMA LedgerForgets == ASSUME IInv, ProcessEnds PROVE Ledger!Forget
<1>1. queue' = <<>> /\ cur' = NoJob /\ UNCHANGED json
  BY DEF ProcessEnds
<1>2. \A j \in Job : submit'[j] = "accepted" <=> submit[j] = "accepted"
  BY DEF ProcessEnds
<1>3. \A j \in Job : (\E i \in 1..Len(queue) : queue[i] = j) => submit[j] = "accepted"
  BY LineAccepted
<1>4. cur # NoJob => cur \in Job /\ submit[cur] = "accepted"
  BY CurrentSeen DEF Unseen
<1>5. Past' = {j \in Job : submit[j] = "accepted"}
  BY <1>1, <1>2, OrchestratorAssumption DEF Past
<1>6. Past' = Past \cup {j \in Job : j = cur \/ \E i \in 1..Len(queue) : queue[i] = j}
  <2>1. \A j \in Job : submit[j] = "accepted" <=>
            j \in Past \/ j = cur \/ \E i \in 1..Len(queue) : queue[i] = j
    BY <1>3, <1>4, OrchestratorAssumption DEF Past
  <2>2. Past \subseteq Job
    BY DEF Past
  <2> QED BY <1>5, <2>1, <2>2
<1>7. Published' = Published
  BY <1>1 DEF Published
<1> QED BY <1>1, <1>6, <1>7 DEF Ledger!Forget, Ledger!InLine, Published

\* Every other step leaves the ledger alone.
LEMMA LedgerStep == ASSUME IInv, [Next]_vars PROVE [Ledger!Next]_(Ledger!ledger)
<1>1. ASSUME NEW j \in Job, Push(j) PROVE Ledger!Next
  BY <1>1, LedgerAccepts DEF Ledger!Next
<1>2. CASE Pop
  BY <1>2, LedgerStarts DEF Ledger!Next
<1>3. CASE Crash
  BY <1>3, LedgerForgets DEF Crash, Ledger!Next
<1>4. CASE (ReadJob \/ WriteHTML \/ CreateJSON \/ EncodeJSON \/ FailJob) /\ Return
  <2>1. cur # NoJob /\ cur \in Job /\ UNCHANGED <<queue, submit>>
    BY <1>4, CurrentJob DEF ReadJob, ScoreJob, SaveFindings, WriteHTML, CreateJSON, EncodeJSON,
                            FailJob
  <2>2. Published' = Published
    <3>1. CASE UNCHANGED json
      BY <3>1 DEF Published
    <3>2. CASE EncodeJSON /\ json' = [json EXCEPT ![cur] = "full"]
      <4>1. json[cur] # "none"
        BY <2>1, <3>2 DEF EncodeJSON, IInv, PCurrent
      <4> QED BY <2>1, <3>2, <4>1 DEF Published, IInv, TypeOK
    <3> QED BY <1>4, <3>1, <3>2 DEF ReadJob, ScoreJob, SaveFindings, WriteHTML, CreateJSON,
                                    EncodeJSON, FailJob, Return
  <2> QED BY <1>4, <2>1, <2>2, LedgerFinishes DEF Return, Ledger!Next
<1>5. CASE CreateJSON /\ ~Return
  BY <1>5, LedgerPublishes DEF Ledger!Next
<1>6. ASSUME UNCHANGED <<cur, queue, json>>,
             \A j \in Job : submit'[j] = "accepted" <=> submit[j] = "accepted"
      PROVE  UNCHANGED Ledger!ledger
  BY <1>6, PastKept DEF Ledger!ledger
<1>7. ASSUME NEW j \in Job, AnalyzeFileStatic(j) \/ SaveQueued(j) PROVE UNCHANGED Ledger!ledger
  <2>1. /\ submit[j] \in {"none", "analysed"} /\ UNCHANGED <<cur, queue, json>>
        /\ \E s \in {"analysed", "rejected", "saved"} : submit' = [submit EXCEPT ![j] = s]
    BY <1>7 DEF AnalyzeFileStatic, SaveQueued
  <2>2. \A i \in Job : submit'[i] = "accepted" <=> submit[i] = "accepted"
    BY <2>1 DEF IInv, TypeOK
  <2> QED BY <1>6, <2>1, <2>2
<1>8. CASE UNCHANGED <<cur, queue, json, submit>>
  BY <1>6, <1>8
<1>9. \/ UNCHANGED <<cur, queue, json, submit>>
      \/ \E j \in Job : AnalyzeFileStatic(j) \/ SaveQueued(j) \/ Push(j)
      \/ Pop \/ Crash
      \/ (ReadJob \/ WriteHTML \/ CreateJSON \/ EncodeJSON \/ FailJob) /\ Return
      \/ CreateJSON /\ ~Return
  BY DEF Next, Worker, SampleExits, CheckContext, MarkRunning, CreateProcess, FailJob, ReadJob,
     StartMonitor, SelectDone, SelectExpired, SelectParks, KillExpired, JoinWait, TearDown,
     SaveFinalStatus, ScoreJob, SaveFindings, WriteHTML, EncodeJSON, WatcherKills, WaitReturns,
     WaitFails, CloseDone, Deadline, Cancel, Close, NewOrchestrator, vars
<1> QED
  BY <1>1, <1>2, <1>3, <1>4, <1>5, <1>7, <1>8, <1>9

\* The orchestrator implements JobLedger.
THEOREM ImplementsLedger == Spec => LedgerSpec
<1>1. Init => Ledger!Init
  BY OrchestratorAssumption DEF Init, Ledger!Init, Past
<1>2. IInv /\ [Next]_vars => [Ledger!Next]_(Ledger!ledger)
  BY LedgerStep
<1> QED BY <1>1, <1>2, Inductive, PTL DEF Spec, LedgerSpec, Ledger!Spec

-----------------------------------------------------------------------------
(* Wakeups.  Wherever executeJob waits, what it waits for is on its way;   *)
(* fairness, which TLC's run adds, only has to make it happen.             *)

\* The run context exists as long as it can be selected on, and a worker parks
\* only while both cases of its select can still become ready.
PContext ==
    /\ pc \in {"monitor", "select", "expired", "join"} => runCtx \in {"live", "done"}
    /\ pc = "parked" => waiting /\ ~done /\ runCtx = "live"

\* The timer or the wait goroutine wakes a parked worker; what <-doneChan waits
\* for after a Kill is a Wait that finds the sample ended.
SomeoneWakes ==
    /\ pc = "select" => done \/ runCtx \in {"live", "done"}
    /\ pc = "parked" => waiting /\ runCtx = "live"
    /\ pc = "join" => done \/ (waiting /\ proc[cur] = "zombie")

LEMMA ContextStep == IInv /\ PContext /\ [Next]_vars => PContext'
<1> SUFFICES ASSUME IInv, PContext, [Next]_vars  PROVE PContext'
  OBVIOUS
<1>1. CASE UNCHANGED <<pc, waiting, done, runCtx>>
  BY <1>1 DEF PContext
<1>2. CASE pc' \notin {"monitor", "select", "expired", "join", "parked"}
  BY <1>2 DEF PContext
<1>3. CASE CreateProcess \/ StartMonitor
  BY <1>3 DEF CreateProcess, StartMonitor, PContext
<1>4. CASE SelectExpired \/ KillExpired
  BY <1>4 DEF SelectExpired, KillExpired, PContext
<1>5. CASE SelectParks
  <2>1. pc = "select" /\ pc' = "parked" /\ ~done /\ runCtx = "live"
        /\ UNCHANGED <<waiting, done, runCtx>>
    BY <1>5 DEF SelectParks
  <2>2. waiting
    BY <2>1 DEF IInv, PWorker
  <2> QED BY <2>1, <2>2 DEF PContext
<1>6. CASE WaitReturns \/ WaitFails
  <2>1. UNCHANGED runCtx /\ (pc = "parked" => pc' = "teardown") /\ (pc # "parked" => pc' = pc)
    BY <1>6 DEF WaitReturns, WaitFails, CloseDone
  <2> QED BY <2>1 DEF PContext
<1>7. CASE Deadline
  <2>1. runCtx' = "done" /\ pc' = IF pc = "parked" THEN "expired" ELSE pc
    BY <1>7 DEF Deadline, WakeExpired
  <2> QED BY <2>1 DEF PContext
<1>8. CASE Cancel
  <2>1. CASE runCtx' = "done" /\ WakeExpired
    BY <2>1 DEF WakeExpired, PContext
  <2>2. CASE UNCHANGED <<runCtx, pc>>
    BY <1>1, <1>8, <2>2 DEF Cancel
  <2> QED BY <1>8, <2>1, <2>2 DEF Cancel
<1>9. \/ UNCHANGED <<pc, waiting, done, runCtx>>
      \/ pc' \notin {"monitor", "select", "expired", "join", "parked"}
      \/ CreateProcess \/ StartMonitor \/ SelectExpired \/ KillExpired \/ SelectParks
      \/ WaitReturns \/ WaitFails \/ Deadline \/ Cancel
  BY DEF Next, Worker, vars, CheckContext, Pop, MarkRunning, FailJob, SelectDone, JoinWait,
     TearDown, SaveFinalStatus, ReadJob, ScoreJob, SaveFindings, WriteHTML, CreateJSON, EncodeJSON,
     Return, SampleExits, WatcherKills, Close, Crash, ProcessEnds, NewOrchestrator,
     AnalyzeFileStatic, SaveQueued, Push
<1> QED BY <1>1, <1>2, <1>3, <1>4, <1>5, <1>6, <1>7, <1>8, <1>9

\* The select and the <-doneChan of executeJob never wait for a wakeup that was
\* missed or that nobody is left to give: neither for a sample that ends before,
\* while or after its deadline passes, nor for a cancelled daemon
\* (orchestrator.go:217-250).
THEOREM WorkerIsWoken == Spec => []SomeoneWakes
<1>1. Init => PContext
  BY DEF Init, PContext
<1>2. IInv /\ PContext => SomeoneWakes
  <2> SUFFICES ASSUME IInv, PContext  PROVE SomeoneWakes
    OBVIOUS
  <2>1. ASSUME pc = "join", ~done  PROVE waiting /\ proc[cur] = "zombie"
    <3>1. waiting /\ cur # NoJob
      BY <2>1 DEF IInv, PWorker
    <3> QED BY <2>1, <3>1 DEF IInv, PCurrent
  <2> QED BY <2>1 DEF PContext, SomeoneWakes
<1> QED BY <1>1, <1>2, ContextStep, Inductive, PTL DEF Spec

-----------------------------------------------------------------------------
(* What a job leaves.                                                      *)

\* A job that was accepted, waits in no queue and is in no worker's hands: it is
\* over, or it was lost in a crash.
Left(j) == ~Unseen(j) /\ j # cur

LEMMA LeftStep ==
  ASSUME IInv, [Next]_vars, NEW j \in Job, Left(j)
  PROVE  Left(j)' /\ UNCHANGED <<row[j], verdict[j], findings[j], html[j], json[j]>>
<1>l. submit[j] = "accepted" /\ j # cur /\ j # NoJob /\ \A i \in 1..Len(queue) : queue[i] # j
  BY OrchestratorAssumption DEF Left, Unseen
<1>t. /\ submit \in [Job -> {"none", "analysed", "saved", "accepted", "rejected", "lost"}]
      /\ row \in [Job -> Status \cup {"absent"}] /\ verdict \in [Job -> BOOLEAN]
      /\ queue \in Seq(Job)
  BY DEF IInv, TypeOK
<1>1. ASSUME NEW i \in Job, AnalyzeFileStatic(i) \/ SaveQueued(i)
      PROVE  Left(j)' /\ UNCHANGED <<row[j], verdict[j], findings[j], html[j], json[j]>>
  <2>1. i # j
    BY <1>1, <1>l DEF AnalyzeFileStatic, SaveQueued
  <2>2. /\ submit'[j] = submit[j] /\ row'[j] = row[j] /\ verdict'[j] = verdict[j]
        /\ findings'[j] = findings[j]
    BY <1>1, <1>t, <2>1 DEF AnalyzeFileStatic, SaveQueued, SaveJobOk, SaveJobFails
  <2>3. UNCHANGED <<queue, cur, html, json>>
    BY <1>1 DEF AnalyzeFileStatic, SaveQueued
  <2> QED BY <1>l, <2>2, <2>3 DEF Left, Unseen
<1>2. ASSUME NEW i \in Job, Push(i)
      PROVE  Left(j)' /\ UNCHANGED <<row[j], verdict[j], findings[j], html[j], json[j]>>
  <2>1. i # j /\ submit'[j] = submit[j] /\ UNCHANGED <<cur, row, verdict, findings, html, json>>
    BY <1>2, <1>l, <1>t DEF Push
  <2>2. queue' = Append(queue, i)
    BY <1>2 DEF Push
  <2>3. \A k \in 1..Len(queue') : queue'[k] # j
    BY <1>l, <1>t, <2>1, <2>2
  <2> QED BY <1>l, <2>1, <2>3 DEF Left, Unseen
<1>3. CASE Pop
  <2>1. UNCHANGED <<submit, row, verdict, findings, html, json>> /\ queue # <<>> /\ cur' = queue[1]
    BY <1>3, <1>t DEF Pop
  <2>2. \A k \in 1..Len(queue') : k + 1 \in 1..Len(queue) /\ queue'[k] = queue[k + 1]
    BY <1>3, <1>t DEF Pop
  <2>3. cur' # j
    BY <1>l, <1>t, <2>1
  <2>4. \A k \in 1..Len(queue') : queue'[k] # j
    BY <1>l, <2>2
  <2> QED BY <1>l, <2>1, <2>3, <2>4 DEF Left, Unseen
<1>4. CASE (Worker /\ ~Pop) \/ WaitReturns \/ WaitFails
  <2>1. OthersKept /\ UNCHANGED submit
    BY <1>4, OthersFrame
  <2>2. UNCHANGED queue /\ cur' \in {cur, NoJob}
    BY <1>4 DEF Worker, CheckContext, MarkRunning, CreateProcess, StartMonitor, FailJob, SelectDone,
       SelectExpired, SelectParks, KillExpired, JoinWait, TearDown, SaveFinalStatus, ReadJob,
       ScoreJob, SaveFindings, WriteHTML, CreateJSON, EncodeJSON, Return, WaitReturns, WaitFails,
       CloseDone
  <2> QED BY <1>l, <2>1, <2>2 DEF OthersKept, Left, Unseen
<1>5. CASE Crash
  <2>1. UNCHANGED <<row, verdict, findings, html, json>> /\ cur' = NoJob /\ queue' = <<>>
    BY <1>5 DEF Crash, ProcessEnds
  <2>2. submit'[j] = "accepted"
    BY <1>5, <1>l DEF Crash, ProcessEnds
  <2> QED BY <1>l, <2>1, <2>2 DEF Left, Unseen
<1>6. CASE UNCHANGED <<submit, queue, cur, row, verdict, findings, html, json>>
  BY <1>l, <1>6 DEF Left, Unseen
<1>7. \/ \E i \in Job : AnalyzeFileStatic(i) \/ SaveQueued(i) \/ Push(i)
      \/ Pop \/ (Worker /\ ~Pop) \/ WaitReturns \/ WaitFails \/ Crash
      \/ UNCHANGED <<submit, queue, cur, row, verdict, findings, html, json>>
  BY DEF Next, WatcherKills, Deadline, Cancel, Close, NewOrchestrator, SampleExits, vars
<1> QED BY <1>1, <1>2, <1>3, <1>4, <1>5, <1>6, <1>7

\* Once a job has left the queue and the worker, its row, its verdict and its files
\* are what they are for ever, through later jobs, shutdowns, crashes and restarts.
\* A job lost in a crash therefore keeps "queued", "running" or "timeout":
\* NewOrchestrator takes up no row that it finds (orchestrator.go:37-57).
THEOREM LeftIsFinal ==
  Spec => [][\A j \in Job : Left(j) =>
                 Left(j)' /\ UNCHANGED <<row[j], verdict[j], findings[j], html[j], json[j]>>]_vars
<1>1. IInv /\ [Next]_vars => [\A j \in Job : Left(j) =>
                 Left(j)' /\ UNCHANGED <<row[j], verdict[j], findings[j], html[j], json[j]>>]_vars
  BY LeftStep
<1> QED BY <1>1, Inductive, PTL DEF Spec

-----------------------------------------------------------------------------
(* Shutdown.                                                               *)

\* What a step does for as long as the daemon lives on, cancelled.
WindsDown == (ctxDone /\ up') => /\ ctxDone'
                                 /\ pc' = "pop" => pc = "pop"
                                 /\ started' # started => pc = "pop" /\ pc' = "claimed"

LEMMA WindsDownStep == [Next]_vars => WindsDown
<1> SUFFICES ASSUME [Next]_vars, ctxDone, up'
             PROVE  /\ ctxDone'
                    /\ pc' = "pop" => pc = "pop"
                    /\ started' # started => pc = "pop" /\ pc' = "claimed"
  BY DEF WindsDown
<1>1. CASE Pop
  BY <1>1 DEF Pop, daemonVars
<1>2. CASE CheckContext
  BY <1>2 DEF CheckContext, daemonVars, queueVars
<1>3. CASE UNCHANGED <<ctxDone, pc, started>>
  BY <1>3
<1>4. CASE UNCHANGED <<ctxDone, started>> /\ pc' # "pop"
  BY <1>4
<1>5. CASE WaitReturns \/ WaitFails \/ Deadline \/ Cancel
  <2>1. ctxDone' /\ UNCHANGED started
    BY <1>5 DEF WaitReturns, WaitFails, CloseDone, Deadline, Cancel, daemonVars, queueVars
  <2>2. UNCHANGED pc \/ pc' # "pop"
    BY <1>5 DEF WaitReturns, WaitFails, CloseDone, Deadline, Cancel, WakeExpired
  <2> QED BY <2>1, <2>2
<1>6. CASE Crash
  BY <1>6 DEF Crash, ProcessEnds
<1>7. \/ Pop \/ CheckContext \/ WaitReturns \/ WaitFails \/ Deadline \/ Cancel \/ Crash
      \/ UNCHANGED <<ctxDone, pc, started>>
      \/ UNCHANGED <<ctxDone, started>> /\ pc' # "pop"
  BY DEF Next, Worker, vars, daemonVars, queueVars, workerVars, MarkRunning, CreateProcess,
     StartMonitor, FailJob, SelectDone, SelectExpired, SelectParks, KillExpired, JoinWait, TearDown,
     SaveFinalStatus, ReadJob, ScoreJob, SaveFindings, WriteHTML, CreateJSON, EncodeJSON, Return,
     SampleExits, WatcherKills, Close, NewOrchestrator, AnalyzeFileStatic, SaveQueued, Push
<1> QED BY <1>1, <1>2, <1>3, <1>4, <1>5, <1>6, <1>7

\* A daemon that was cancelled takes no job but one, and that one only if its worker
\* was in Pop already, which cancel does not wake: from anywhere else in executeJob
\* it comes to ctx.Done() first (orchestrator.go:96-106).
THEOREM CancelledTakesOne == Spec => [][WindsDown]_vars
BY WindsDownStep, PTL DEF Spec
=============================================================================
