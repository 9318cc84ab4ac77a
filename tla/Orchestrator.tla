---------------------------- MODULE Orchestrator ----------------------------
(***************************************************************************)
(* The life of an analysis job (pkg/orchestrator, pkg/storage job rows,    *)
(* pkg/report files, the Process contract of pkg/isolation).               *)
(*                                                                         *)
(* Any number of callers submit jobs concurrently.  One worker goroutine   *)
(* pops them in order and runs executeJob, beside three goroutines of the  *)
(* job it is running: the one that waits for the sample process, the timer *)
(* of the run context, and the watcher that kills the sample when that     *)
(* context ends.  The daemon may be shut down or die at any step and be    *)
(* started again; job rows and report files are all that survives.         *)
(*                                                                         *)
(* The telemetry that flows while a sample runs is module Pipeline.        *)
(***************************************************************************)
EXTENDS Naturals, Sequences

CONSTANTS
    Job,          \* the submissions, each of which gets a fresh job ID
    NoJob,        \* "the worker holds no job"
    Faults,       \* what may go wrong in this instance, see FaultKinds
    KillOnClose   \* the OS kills the sample when the daemon dies (Job Object)

\* "store": a call of the store returns an error (SQLITE_BUSY), which every
\*    caller of SaveJob but SubmitJob ignores
\* "file": creating or writing a report file fails
\* "wait": proc.Wait returns an error, which its goroutine discards
\* "shutdown": cancel() and then Close() are called
\* "crash": the daemon process ends at an arbitrary point
FaultKinds == {"store", "file", "wait", "shutdown", "crash"}

ASSUME OrchestratorAssumption ==
    /\ NoJob \notin Job
    /\ Faults \subseteq FaultKinds
    /\ KillOnClose \in BOOLEAN

VARIABLES
    (* the daemon process *)
    up, ctxDone, storeOpen,
    (* history: jobs being scored and reported when the store was closed *)
    cutOff,
    (* callers of SubmitJob, one per job, and the in-memory queue *)
    submit, queue,
    (* what survives the daemon: the jobs table and the report files *)
    (* (findings: all IOC and TTP rows of the job are in the store) *)
    row, verdict, findings, html, json,
    (* the worker: its program counter, the job it holds, that job's Status *)
    pc, cur, mem,
    (* the sample process of each job, and the run context, doneChan and   *)
    (* wait goroutine of the current one                                   *)
    proc, runCtx, waiting, done,
    (* history of this daemon process: jobs pushed, jobs popped *)
    pushed, started

daemonVars == <<up, ctxDone, storeOpen, cutOff>>
storeVars  == <<row, verdict, findings>>
fileVars   == <<html, json>>
workerVars == <<pc, cur, mem>>
runVars    == <<proc, runCtx, waiting, done>>
queueVars  == <<queue, pushed, started>>
vars == <<daemonVars, submit, queueVars, storeVars, fileVars, workerVars, runVars>>

Terminal  == {"completed", "failed", "timeout"}
Status    == {"queued", "running"} \cup Terminal
FileState == {"none", "partial", "full"}
\* "zombie" and "reaped": it has ended, and been waited for.  "adrift" and "lost":
\* Wait has failed on it, and it still runs, or has ended.
ProcState == {"none", "alive", "zombie", "reaped", "adrift", "lost"}
\* Program points of the worker, in the order of the code.
Label == {"loop", "pop", "claimed", "launch", "monitor", "fail",
          "select", "parked", "expired", "join", "teardown", "finish",
          "report", "score", "findings", "html", "json", "encode", "exited"}

TypeOK ==
    /\ up \in BOOLEAN /\ ctxDone \in BOOLEAN /\ storeOpen \in BOOLEAN
    /\ cutOff \subseteq Job
    /\ submit \in [Job -> {"none", "analysed", "saved", "accepted", "rejected", "lost"}]
    /\ queue \in Seq(Job) /\ pushed \in Seq(Job) /\ started \in Seq(Job)
    /\ row \in [Job -> Status \cup {"absent"}]
    /\ verdict \in [Job -> BOOLEAN] /\ findings \in [Job -> BOOLEAN]
    /\ html \in [Job -> FileState] /\ json \in [Job -> FileState]
    /\ pc \in Label /\ cur \in Job \cup {NoJob}
    /\ mem \in {"none", "running", "completed", "timeout"}
    /\ proc \in [Job -> ProcState]
    /\ runCtx \in {"none", "live", "done"}
    /\ waiting \in BOOLEAN /\ done \in BOOLEAN

Init ==
    /\ up = TRUE /\ ctxDone = FALSE /\ storeOpen = TRUE /\ cutOff = {}
    /\ submit = [j \in Job |-> "none"]
    /\ queue = <<>> /\ pushed = <<>> /\ started = <<>>
    /\ row = [j \in Job |-> "absent"] /\ verdict = [j \in Job |-> FALSE]
    /\ findings = [j \in Job |-> FALSE]
    /\ html = [j \in Job |-> "none"] /\ json = [j \in Job |-> "none"]
    /\ pc = "loop" /\ cur = NoJob /\ mem = "none"
    /\ proc = [j \in Job |-> "none"]
    /\ runCtx = "none" /\ waiting = FALSE /\ done = FALSE

-----------------------------------------------------------------------------
(* The store.  SaveJob replaces the whole row: the status and the threat   *)
(* level, which only GenerateReport ever sets.                             *)
SaveJobOk(j, status, scored) ==
    /\ storeOpen
    /\ row' = [row EXCEPT ![j] = status]
    /\ verdict' = [verdict EXCEPT ![j] = scored]
    /\ UNCHANGED findings

StoreErrs == ~storeOpen \/ "store" \in Faults

SaveJobFails == StoreErrs /\ UNCHANGED storeVars

\* A call whose error is ignored: the row changes or it does not.
SaveJob(j, status, scored) == SaveJobOk(j, status, scored) \/ SaveJobFails

-----------------------------------------------------------------------------
(* SubmitJob, run by the caller's goroutine: hash the file, write the row, *)
(* and only then push.  Both errors are returned to the caller.            *)
AnalyzeFileStatic(j) ==
    /\ up /\ submit[j] = "none"
    /\ \E outcome \in {"analysed", "rejected"} : submit' = [submit EXCEPT ![j] = outcome]
    /\ UNCHANGED <<daemonVars, queueVars, storeVars, fileVars, workerVars, runVars>>

\* Mutants: the row is saved once more after the push; the job is pushed before
\* its row is saved.
SaveQueuedAgain(j) ==
    /\ up /\ submit[j] \in {"analysed", "accepted"} /\ SaveJobOk(j, "queued", FALSE)
    /\ submit' = [submit EXCEPT ![j] = IF @ = "analysed" THEN "saved" ELSE @]
    /\ UNCHANGED <<daemonVars, queueVars, fileVars, workerVars, runVars>>

PushUnsaved(j) ==
    /\ up /\ submit[j] \in {"analysed", "saved"}
    /\ queue' = Append(queue, j) /\ pushed' = Append(pushed, j)
    /\ submit' = [submit EXCEPT ![j] = "accepted"]
    /\ UNCHANGED <<daemonVars, started, storeVars, fileVars, workerVars, runVars>>

SaveQueued(j) ==
    /\ up /\ submit[j] = "analysed"
    /\ \/ SaveJobOk(j, "queued", FALSE) /\ submit' = [submit EXCEPT ![j] = "saved"]
       \/ SaveJobFails /\ submit' = [submit EXCEPT ![j] = "rejected"]
    /\ UNCHANGED <<daemonVars, queueVars, fileVars, workerVars, runVars>>

Push(j) ==
    /\ up /\ submit[j] = "saved"
    /\ queue' = Append(queue, j)
    /\ pushed' = Append(pushed, j)
    /\ submit' = [submit EXCEPT ![j] = "accepted"]
    /\ UNCHANGED <<daemonVars, started, storeVars, fileVars, workerVars, runVars>>

-----------------------------------------------------------------------------
(* The worker goroutine.  The context is looked at between jobs only: Pop  *)
(* waits on the queue's condition variable, which cancel does not signal.  *)
CheckContext ==
    /\ up /\ pc = "loop"
    /\ pc' = IF ctxDone THEN "exited" ELSE "pop"
    /\ UNCHANGED <<daemonVars, submit, queueVars, storeVars, fileVars, cur, mem, runVars>>

\* Mutant: the job stays in the queue.
PopKeeps ==
    /\ up /\ pc = "pop" /\ queue # <<>>
    /\ cur' = Head(queue) /\ started' = Append(started, Head(queue))
    /\ pc' = "claimed" /\ mem' = "none"
    /\ UNCHANGED <<daemonVars, submit, queue, pushed, storeVars, fileVars, runVars>>

Pop ==
    /\ up /\ pc = "pop" /\ queue # <<>>
    /\ cur' = Head(queue) /\ queue' = Tail(queue)
    /\ started' = Append(started, Head(queue))
    /\ pc' = "claimed" /\ mem' = "none"
    /\ UNCHANGED <<daemonVars, submit, pushed, storeVars, fileVars, runVars>>

\* Mutant: the job keeps the status it was submitted with.
MarkNothing ==
    /\ up /\ pc = "claimed"
    /\ SaveJob(cur, "running", FALSE)
    /\ mem' = "queued" /\ pc' = "launch"
    /\ UNCHANGED <<daemonVars, submit, queueVars, fileVars, cur, runVars>>

\* Status "running", then the static scan, the bus and its goroutines.
MarkRunning ==
    /\ up /\ pc = "claimed"
    /\ SaveJob(cur, "running", FALSE)
    /\ mem' = "running" /\ pc' = "launch"
    /\ UNCHANGED <<daemonVars, submit, queueVars, fileVars, cur, runVars>>

\* The run context inherits a cancellation that already happened.
CreateProcess ==
    /\ up /\ pc = "launch"
    /\ runCtx' = IF ctxDone THEN "done" ELSE "live"
    /\ \/ proc' = [proc EXCEPT ![cur] = "alive"] /\ pc' = "monitor"
       \/ UNCHANGED proc /\ pc' = "fail"
    /\ UNCHANGED <<daemonVars, submit, queueVars, storeVars, fileVars, cur, mem, waiting, done>>

Killed(p) == CASE p = "alive" -> "zombie" [] p = "adrift" -> "lost" [] OTHER -> p

\* When the monitor does not start, the sample is killed but never waited for.
StartMonitor ==
    /\ up /\ pc = "monitor"
    /\ \/ pc' = "select" /\ waiting' = TRUE /\ UNCHANGED proc
       \/ pc' = "fail" /\ proc' = [proc EXCEPT ![cur] = Killed(@)] /\ UNCHANGED waiting
    /\ UNCHANGED <<daemonVars, submit, queueVars, storeVars, fileVars, cur, mem, runCtx, done>>

\* return from executeJob: the deferred runCancel, whose watcher finds the
\* job's process gone, and the next turn of the worker's loop.
Return ==
    /\ pc' = "loop" /\ cur' = NoJob /\ mem' = "none"
    /\ runCtx' = "none" /\ done' = FALSE

\* Mutant: no return after failJob.
FailJobGoesOn ==
    /\ up /\ pc = "fail"
    /\ SaveJob(cur, "failed", FALSE)
    /\ pc' = "report"
    /\ UNCHANGED <<daemonVars, submit, queueVars, fileVars, cur, mem, runVars>>

FailJob ==
    /\ up /\ pc = "fail"
    /\ SaveJob(cur, "failed", FALSE)
    /\ Return
    /\ UNCHANGED <<daemonVars, submit, queueVars, fileVars, proc, waiting>>

\* select { case <-doneChan: ... case <-runCtx.Done(): ... }: with both ready
\* on arrival either case runs, with neither the worker parks.
SelectDone ==
    /\ up /\ pc = "select" /\ done
    /\ mem' = "completed" /\ pc' = "teardown"
    /\ UNCHANGED <<daemonVars, submit, queueVars, storeVars, fileVars, cur, runVars>>

SelectExpired ==
    /\ up /\ pc = "select" /\ runCtx = "done"
    /\ pc' = "expired"
    /\ UNCHANGED <<daemonVars, submit, queueVars, storeVars, fileVars, cur, mem, runVars>>

SelectParks ==
    /\ up /\ pc = "select" /\ ~done /\ runCtx = "live"
    /\ pc' = "parked"
    /\ UNCHANGED <<daemonVars, submit, queueVars, storeVars, fileVars, cur, mem, runVars>>

\* Mutants: no Kill at the deadline; no <-doneChan after it.
ExpiredUnkilled ==
    /\ up /\ pc = "expired"
    /\ mem' = "timeout" /\ pc' = "join"
    /\ UNCHANGED <<daemonVars, submit, queueVars, storeVars, fileVars, cur, runVars>>

JoinSkipped ==
    /\ up /\ pc = "join"
    /\ pc' = "teardown"
    /\ UNCHANGED <<daemonVars, submit, queueVars, storeVars, fileVars, cur, mem, runVars>>

KillExpired ==
    /\ up /\ pc = "expired"
    /\ proc' = [proc EXCEPT ![cur] = Killed(@)]
    /\ mem' = "timeout" /\ pc' = "join"
    /\ UNCHANGED <<daemonVars, submit, queueVars, storeVars, fileVars, cur, runCtx, waiting, done>>

JoinWait ==
    /\ up /\ pc = "join" /\ done
    /\ pc' = "teardown"
    /\ UNCHANGED <<daemonVars, submit, queueVars, storeVars, fileVars, cur, mem, runVars>>

\* Monitor stopped, channels and PCAP closed, memory inspected and scanned;
\* none of it touches the state kept here (module Pipeline has it).
TearDown ==
    /\ up /\ pc = "teardown"
    /\ pc' = "finish"
    /\ UNCHANGED <<daemonVars, submit, queueVars, storeVars, fileVars, cur, mem, runVars>>

SaveFinalStatus ==
    /\ up /\ pc = "finish"
    /\ SaveJob(cur, mem, FALSE)
    /\ pc' = "report"
    /\ UNCHANGED <<daemonVars, submit, queueVars, fileVars, cur, mem, runVars>>

-----------------------------------------------------------------------------
(* GenerateReport: its own copy of the row, read back from the store, gets *)
(* the verdict and the status "completed", whatever the worker saved.      *)

\* GetJob and GetJobEvents: an error of either returns before anything is written.
ReadJob ==
    /\ up /\ pc = "report"
    /\ \/ /\ storeOpen /\ row[cur] # "absent"
          /\ pc' = "score" /\ UNCHANGED <<cur, mem, runCtx, done>>
       \/ (StoreErrs \/ row[cur] = "absent") /\ Return
    /\ UNCHANGED <<daemonVars, submit, queueVars, storeVars, fileVars, proc, waiting>>

\* Mutant: the verdict is saved with the status the row already has.
ScoreKeepsStatus ==
    /\ up /\ pc = "score"
    /\ SaveJob(cur, row[cur], TRUE)
    /\ pc' = "findings"
    /\ UNCHANGED <<daemonVars, submit, queueVars, fileVars, cur, mem, runVars>>

\* The error is ignored, that of a store closed since ReadJob included.
ScoreJob ==
    /\ up /\ pc = "score"
    /\ SaveJob(cur, "completed", TRUE)
    /\ pc' = "findings"
    /\ UNCHANGED <<daemonVars, submit, queueVars, fileVars, cur, mem, runVars>>

\* SaveIOC and SaveTTP, in a loop each, errors ignored: all of the rows are saved,
\* or the loops are cut off or err somewhere.
SaveFindings ==
    /\ up /\ pc = "findings"
    /\ \/ storeOpen /\ findings' = [findings EXCEPT ![cur] = TRUE]
       \/ StoreErrs /\ UNCHANGED findings
    /\ pc' = "html"
    /\ UNCHANGED <<daemonVars, submit, queueVars, row, verdict, fileVars, cur, mem, runVars>>

\* os.Create, then template execution: a failure may leave a partial file.
WriteHTML ==
    /\ up /\ pc = "html"
    /\ \/ /\ html' = [html EXCEPT ![cur] = "full"]
          /\ pc' = "json" /\ UNCHANGED <<cur, mem, runCtx, done>>
       \/ /\ "file" \in Faults
          /\ \E left \in {"none", "partial"} : html' = [html EXCEPT ![cur] = left]
          /\ Return
    /\ UNCHANGED <<daemonVars, submit, queueVars, storeVars, json, proc, waiting>>

\* The JSON file exists, empty, as soon as it is created ...
CreateJSON ==
    /\ up /\ pc = "json"
    /\ \/ /\ json' = [json EXCEPT ![cur] = "partial"]
          /\ pc' = "encode" /\ UNCHANGED <<cur, mem, runCtx, done>>
       \/ "file" \in Faults /\ UNCHANGED json /\ Return
    /\ UNCHANGED <<daemonVars, submit, queueVars, storeVars, html, proc, waiting>>

\* ... and is complete when the encoder returns without an error.
EncodeJSON ==
    /\ up /\ pc = "encode"
    /\ \/ json' = [json EXCEPT ![cur] = "full"]
       \/ "file" \in Faults /\ UNCHANGED json
    /\ Return
    /\ UNCHANGED <<daemonVars, submit, queueVars, storeVars, html, proc, waiting>>

Worker ==
    \/ CheckContext \/ Pop \/ MarkRunning \/ CreateProcess \/ StartMonitor \/ FailJob
    \/ SelectDone \/ SelectExpired \/ SelectParks \/ KillExpired \/ JoinWait
    \/ TearDown \/ SaveFinalStatus
    \/ ReadJob \/ ScoreJob \/ SaveFindings \/ WriteHTML \/ CreateJSON \/ EncodeJSON

-----------------------------------------------------------------------------
(* The sample and the goroutines beside the worker.                        *)

\* The sample ends on its own (it may also never do so).  One that outlived
\* its daemon is reaped by the operating system.
SampleExits(j) ==
    /\ \/ /\ proc[j] = "alive"
          /\ proc' = [proc EXCEPT ![j] = IF up /\ cur = j THEN "zombie" ELSE "reaped"]
       \/ proc[j] = "adrift" /\ proc' = [proc EXCEPT ![j] = "lost"]
    /\ UNCHANGED <<daemonVars, submit, queueVars, storeVars, fileVars, workerVars,
                   runCtx, waiting, done>>

\* The job was taken by this daemon.
Taken(j) == \E i \in 1..Len(started) : started[i] = j

\* The watcher of CreateProcess kills the sample once the run context is done:
\* that of the job in hand, or, by the deferred runCancel, of one let go.
WatcherKills ==
    /\ up
    /\ \E j \in Job :
        /\ Taken(j) /\ (cur = j => runCtx = "done")
        /\ proc[j] \in {"alive", "adrift"}
        /\ proc' = [proc EXCEPT ![j] = Killed(@)]
    /\ UNCHANGED <<daemonVars, submit, queueVars, storeVars, fileVars, workerVars,
                   runCtx, waiting, done>>

\* Mutant: doneChan is not closed.
WaitReturnsQuietly ==
    /\ up /\ waiting /\ proc[cur] = "zombie"
    /\ proc' = [proc EXCEPT ![cur] = "reaped"] /\ waiting' = FALSE
    /\ UNCHANGED <<daemonVars, submit, queueVars, storeVars, fileVars, workerVars, runCtx, done>>

\* The wait goroutine closes doneChan, which wakes a parked select in that case.
CloseDone ==
    /\ waiting' = FALSE /\ done' = TRUE
    /\ IF pc = "parked" THEN pc' = "teardown" /\ mem' = "completed"
                        ELSE UNCHANGED <<pc, mem>>
    /\ UNCHANGED <<daemonVars, submit, queueVars, storeVars, fileVars, cur, runCtx>>

\* proc.Wait returns because the sample has ended ...
WaitReturns ==
    /\ up /\ waiting /\ proc[cur] = "zombie"
    /\ proc' = [proc EXCEPT ![cur] = "reaped"]
    /\ CloseDone

\* ... or with an error, at any time; to the worker the two are the same.
WaitFails ==
    /\ "wait" \in Faults
    /\ up /\ waiting
    /\ proc' = [proc EXCEPT ![cur] = IF @ = "alive" THEN "adrift" ELSE "lost"]
    /\ CloseDone

\* The run context ends: its timer fires, or its parent is cancelled.  A
\* parked select wakes in its runCtx.Done case.
WakeExpired == pc' = IF pc = "parked" THEN "expired" ELSE pc

Deadline ==
    /\ up /\ runCtx = "live"
    /\ runCtx' = "done" /\ WakeExpired
    /\ UNCHANGED <<daemonVars, submit, queueVars, storeVars, fileVars, cur, mem,
                   proc, waiting, done>>

-----------------------------------------------------------------------------
(* Shutdown and crash.  main's deferred calls and LemasClose both cancel    *)
(* the context first and then close the store, without waiting for the     *)
(* worker.                                                                 *)
Cancel ==
    /\ "shutdown" \in Faults
    /\ up /\ ~ctxDone
    /\ ctxDone' = TRUE
    /\ IF runCtx = "live" THEN runCtx' = "done" /\ WakeExpired
                          ELSE UNCHANGED <<runCtx, pc>>
    /\ UNCHANGED <<up, storeOpen, cutOff, submit, queueVars, storeVars, fileVars, cur, mem,
                   proc, waiting, done>>

Close ==
    /\ up /\ ctxDone /\ storeOpen
    /\ storeOpen' = FALSE
    /\ cutOff' = cutOff \cup {j \in Job : j = cur /\ pc \in {"score", "findings"}}
    /\ UNCHANGED <<up, ctxDone, submit, queueVars, storeVars, fileVars, workerVars, runVars>>

\* Everything in memory is gone.  Calls of SubmitJob in flight are lost; a
\* zombie is reaped, and a live sample dies with its Job Object on Windows.
ProcessEnds ==
    /\ up /\ up' = FALSE /\ ctxDone' = FALSE /\ storeOpen' = FALSE
    /\ submit' = [j \in Job |-> IF submit[j] \in {"analysed", "saved"} THEN "lost" ELSE submit[j]]
    /\ queue' = <<>> /\ pushed' = <<>> /\ started' = <<>>
    /\ pc' = "loop" /\ cur' = NoJob /\ mem' = "none"
    /\ runCtx' = "none" /\ waiting' = FALSE /\ done' = FALSE
    /\ proc' = [j \in Job |->
                  LET left == IF KillOnClose THEN Killed(proc[j]) ELSE proc[j]
                  IN  IF left = "zombie" THEN "reaped" ELSE left]
    /\ UNCHANGED <<cutOff, storeVars, fileVars>>

Crash == "crash" \in Faults /\ ProcessEnds

\* Mutant: a row left "running" by the last daemon is queued once more.
NewOrchestratorRequeues ==
    /\ ~up
    /\ up' = TRUE /\ storeOpen' = TRUE
    /\ \E j \in Job : row[j] = "running" /\ queue' = <<j>> /\ pushed' = <<j>>
    /\ UNCHANGED <<ctxDone, cutOff, submit, started, storeVars, fileVars, workerVars, runVars>>

\* NewOrchestrator opens the store and makes an empty queue; nothing reads the
\* rows a previous daemon left behind.
NewOrchestrator ==
    /\ ~up
    /\ up' = TRUE /\ storeOpen' = TRUE
    /\ UNCHANGED <<ctxDone, cutOff, submit, queueVars, storeVars, fileVars, workerVars, runVars>>

Next ==
    \/ \E j \in Job : AnalyzeFileStatic(j) \/ SaveQueued(j) \/ Push(j) \/ SampleExits(j)
    \/ Worker
    \/ WatcherKills \/ WaitReturns \/ WaitFails \/ Deadline
    \/ Cancel \/ Close \/ Crash \/ NewOrchestrator

Spec == Init /\ [][Next]_vars

\* The Go scheduler runs every goroutine that can run, the timer fires, and a
\* caller that has started a submission goes on with it.  A sample owes no
\* progress, nor do a shutdown or a crash happen.
Fairness ==
    /\ WF_vars(Worker) /\ WF_vars(WatcherKills) /\ WF_vars(WaitReturns)
    /\ WF_vars(Deadline)
    /\ \A j \in Job : WF_vars(SaveQueued(j) \/ Push(j))

FairSpec == Spec /\ Fairness
-----------------------------------------------------------------------------
(* Properties.                                                             *)

\* Wait has returned, with or without an error.
AfterWait == {"reaped", "adrift", "lost"}

\* Between a submission's Push and the worker's Pop no job is lost, doubled or
\* overtaken: what was popped, followed by what waits, is what was pushed.
FifoOrder ==
    /\ Len(pushed) = Len(started) + Len(queue)
    /\ \A i \in 1..Len(started) : started[i] = pushed[i]
    /\ \A i \in 1..Len(queue) : queue[i] = pushed[Len(started) + i]

\* The store never runs ahead of or behind the queue: a job that waits in
\* memory has the row "queued".  SubmitJob saves before it pushes, so the
\* worker cannot have overwritten the row in between.
QueuedRowsAreQueued == \A i \in 1..Len(queue) : row[queue[i]] = "queued"

\* A caller holding a job ID finds a row for it, after any crash too.
AcceptedHasRow == \A j \in Job : submit[j] = "accepted" => row[j] # "absent"

\* "completed" and "timeout" are said only once Wait has returned: the worker joins
\* the wait goroutine even after a kill.  A sample that timed out has ended even
\* if Wait failed; one that "completed" may then still run.
VerdictAfterExit ==
    \A j \in Job : /\ row[j] \in {"completed", "timeout"} => proc[j] \in AfterWait
                   /\ row[j] = "timeout" => proc[j] # "adrift"

\* With a Job Object, a sample that runs is the one the living worker holds,
\* before that worker starts to tear the job down; one on which Wait failed runs
\* in the daemon that took it, where its watcher will end it.
SampleSupervised ==
    KillOnClose =>
        \A j \in Job :
            /\ proc[j] = "alive" =>
                   up /\ cur = j /\ pc \in {"monitor", "select", "parked", "expired"}
            /\ proc[j] = "adrift" => up /\ Taken(j)

\* A report file in any state, even still empty, means that the HTML is whole; and
\* if saves do not fail and the store was not closed between the reading of the
\* job and the saving of what was found, that the store already holds the verdict
\* and the findings and that the row says "completed" (no poll can see "timeout"
\* beside a report).
ReportImpliesVerdict ==
    \A j \in Job : json[j] # "none" =>
        /\ html[j] = "full"
        /\ "store" \notin Faults /\ j \notin cutOff =>
               verdict[j] /\ findings[j] /\ row[j] = "completed"

\* A failed job leaves no report behind and never had its sample scored.
FailedHasNoReport ==
    \A j \in Job : row[j] = "failed" =>
        ~verdict[j] /\ html[j] = "none" /\ json[j] = "none"

Rank(s) == CASE s = "absent" -> 0 [] s = "queued" -> 1 [] s = "running" -> 2
             [] s \in {"failed", "timeout"} -> 3 [] s = "completed" -> 4

\* A row only moves forward, with any store error, shutdown or crash between two
\* steps; "failed" is final, a verdict is never erased, and the one change of a
\* terminal status is GenerateReport's "completed" over "timeout".
StatusForward ==
    [][\A j \in Job :
        /\ row'[j] # row[j] => row[j] # "failed" /\ Rank(row[j]) < Rank(row'[j])
        /\ verdict[j] => verdict'[j]]_storeVars

\* A sample is launched at most once, across crashes and restarts too.
RunsAtMostOnce ==
    [][\A j \in Job : proc'[j] = "alive" => proc[j] \in {"none", "alive"}
                                           /\ row[j] \notin Terminal]_proc

\* The jobs this daemon still owes an end.
Held == {j \in Job : cur = j \/ \E i \in 1..Len(queue) : queue[i] = j}

\* If saves do not fail, a job that waits or runs ends, whatever its sample, its
\* Wait and its report files do: the worker lets go of it as "failed" or scored and
\* "completed", and the sample ends, unless the daemon is told to stop or dies first.
AcceptedFinishes ==
    "store" \notin Faults =>
        \A j \in Job : j \in Held ~>
            \/ ctxDone \/ ~up
            \/ /\ j \notin Held /\ proc[j] \notin {"alive", "adrift"}
               /\ row[j] = "failed" \/ (row[j] = "completed" /\ verdict[j])

\* The jobs a caller was given an ID for, which are over for this daemon.
Past == {j \in Job : /\ submit[j] = "accepted" /\ cur # j
                     /\ \A i \in 1..Len(queue) : queue[i] # j}

\* The orchestrator implements the ledger of JobLedger.
Ledger == INSTANCE JobLedger WITH
              line <- queue, active <- cur, past <- Past,
              published <- {j \in Job : json[j] # "none"}
LedgerSpec == Ledger!Spec
=============================================================================
