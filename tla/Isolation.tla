----------------------------- MODULE Isolation -----------------------------
(***************************************************************************)
(* CreateProcess, Kill and Wait of pkg/isolation/isolation_windows.go, as  *)
(* the worker of the orchestrator calls them, one run after the other.     *)
(*                                                                         *)
(* A handle is a value of the daemon's handle table, free again once it is *)
(* closed.  A Job Object of which the last handle is closed ends what runs *)
(* in it.  The context of a run ends by its deadline or, by the deferred   *)
(* runCancel, when the worker returns; each run leaves a goroutine that    *)
(* waits for that end and then terminates the job by its handle.           *)
(***************************************************************************)
EXTENDS Naturals

CONSTANTS
    Run,     \* the jobs the worker executes
    NoRun,
    Handle,  \* the values of the handle table
    Closed   \* a value that is free

VARIABLES
    current,      \* the run the worker is in
    stage,        \* how far each run is
    handles,      \* what each value refers to: <<kind, run>>
    jobHandle,    \* the value the run holds for its Job Object
    pipes,        \* the pipe ends of each run that are open
    killOnClose,  \* the Job Object has its limits
    inJob,        \* the sample is in it
    sample,       \* "none", "suspended", "running", "dead"
    children,     \* what the sample started: "inside" and "outside" its job
    context,      \* of each run: "none", "live", "done"
    watcher,      \* the goroutine that waits for it: "none", "waiting", "gone"
    killer        \* history: whose call terminated the job

processVars == <<sample, children, inJob, killOnClose>>
vars == <<current, stage, handles, jobHandle, pipes, processVars, context, watcher, killer>>

Ends == {"outR", "outW", "errR", "errW"}

Init ==
    /\ current = NoRun /\ stage = [r \in Run |-> "idle"]
    /\ handles = [h \in Handle |-> Closed] /\ jobHandle = [r \in Run |-> Closed]
    /\ pipes = [r \in Run |-> {}]
    /\ killOnClose = [r \in Run |-> FALSE] /\ inJob = [r \in Run |-> FALSE]
    /\ sample = [r \in Run |-> "none"] /\ children = [r \in Run |-> {}]
    /\ context = [r \in Run |-> "none"] /\ watcher = [r \in Run |-> "none"]
    /\ killer = [r \in Run |-> NoRun]

Free == {h \in Handle : handles[h] = Closed}
Goto(r, s) == stage' = [stage EXCEPT ![r] = s]

\* The handles of r of these kinds, closed.
Closing(r, kinds) == [h \in Handle |-> IF handles[h] \in {<<k, r>> : k \in kinds} THEN Closed ELSE handles[h]]

\* The end of everything in the job of r.
Terminate(r) ==
    /\ sample' = [sample EXCEPT ![r] = IF inJob[r] THEN "dead" ELSE @]
    /\ children' = [children EXCEPT ![r] = @ \ {"inside"}]

\* CreateProcess fails: whatever it had opened is closed.
GiveUp(r) ==
    /\ handles' = Closing(r, {"job", "process", "thread"})
    /\ pipes' = [pipes EXCEPT ![r] = {}]
    /\ Goto(r, "error")

-----------------------------------------------------------------------------
(* CreateProcess, call by call.                                            *)

Begin(r) ==
    /\ current = NoRun /\ stage[r] = "idle"
    /\ current' = r /\ context' = [context EXCEPT ![r] = "live"]
    /\ \/ \E h \in Free : /\ handles' = [handles EXCEPT ![h] = <<"job", r>>]
                          /\ jobHandle' = [jobHandle EXCEPT ![r] = h] /\ Goto(r, "job")
       \/ Goto(r, "error") /\ UNCHANGED <<handles, jobHandle>>
    /\ UNCHANGED <<pipes, processVars, watcher, killer>>

\* The error of the CPU rate is ignored, that of the other limits is not.
ApplyJobLimits(r) ==
    /\ stage[r] = "job"
    /\ \/ /\ killOnClose' = [killOnClose EXCEPT ![r] = TRUE] /\ Goto(r, "limited")
          /\ UNCHANGED <<handles, pipes>>
       \/ GiveUp(r) /\ UNCHANGED killOnClose
    /\ UNCHANGED <<current, jobHandle, sample, children, inJob, context, watcher, killer>>

\* Two pipes; the first is closed when the second fails.
NewInheritablePipes(r) ==
    /\ stage[r] = "limited"
    /\ \/ pipes' = [pipes EXCEPT ![r] = Ends] /\ Goto(r, "piped") /\ UNCHANGED handles
       \/ GiveUp(r)
    /\ UNCHANGED <<current, jobHandle, processVars, context, watcher, killer>>

\* Mutant: the process is not created suspended.
CreateRunning(r) ==
    /\ stage[r] = "piped"
    /\ \E h \in Free, g \in Free :
        h # g /\ handles' = [handles EXCEPT ![h] = <<"process", r>>, ![g] = <<"thread", r>>]
    /\ sample' = [sample EXCEPT ![r] = "running"] /\ Goto(r, "suspended")
    /\ UNCHANGED <<current, jobHandle, pipes, children, inJob, killOnClose, context, watcher, killer>>

CreateSuspended(r) ==
    /\ stage[r] = "piped"
    /\ \/ /\ \E h \in Free, g \in Free :
                h # g /\ handles' = [handles EXCEPT ![h] = <<"process", r>>, ![g] = <<"thread", r>>]
          /\ sample' = [sample EXCEPT ![r] = "suspended"] /\ Goto(r, "suspended")
          /\ UNCHANGED pipes
       \/ GiveUp(r) /\ UNCHANGED sample
    /\ UNCHANGED <<current, jobHandle, children, inJob, killOnClose, context, watcher, killer>>

AssignProcessToJobObject(r) ==
    /\ stage[r] = "suspended"
    /\ \/ /\ inJob' = [inJob EXCEPT ![r] = TRUE] /\ Goto(r, "assigned")
          /\ UNCHANGED <<handles, pipes, sample>>
       \/ GiveUp(r) /\ sample' = [sample EXCEPT ![r] = "dead"] /\ UNCHANGED inJob
    /\ UNCHANGED <<current, jobHandle, children, killOnClose, context, watcher, killer>>

\* Then the thread handle is closed and the watcher started.
ResumeThread(r) ==
    /\ stage[r] = "assigned"
    /\ \/ /\ sample' = [sample EXCEPT ![r] = IF @ = "suspended" THEN "running" ELSE @]
          /\ handles' = Closing(r, {"thread"}) /\ Goto(r, "running")
          /\ watcher' = [watcher EXCEPT ![r] = "waiting"] /\ UNCHANGED pipes
       \/ GiveUp(r) /\ sample' = [sample EXCEPT ![r] = "dead"] /\ UNCHANGED watcher
    /\ UNCHANGED <<current, jobHandle, children, inJob, killOnClose, context, killer>>

-----------------------------------------------------------------------------
(* What runs beside the worker.                                            *)

SampleSpawns(r) ==
    /\ sample[r] = "running"
    /\ children' = [children EXCEPT ![r] = @ \cup {IF inJob[r] THEN "inside" ELSE "outside"}]
    /\ UNCHANGED <<current, stage, handles, jobHandle, pipes, sample, inJob, killOnClose,
                   context, watcher, killer>>

SampleExits(r) ==
    /\ sample[r] = "running"
    /\ sample' = [sample EXCEPT ![r] = "dead"]
    /\ UNCHANGED <<current, stage, handles, jobHandle, pipes, children, inJob, killOnClose,
                   context, watcher, killer>>

Deadline(r) ==
    /\ context[r] = "live" /\ stage[r] \in {"running", "waited", "abandoned"}
    /\ context' = [context EXCEPT ![r] = "done"]
    /\ UNCHANGED <<current, stage, handles, jobHandle, pipes, processVars, watcher, killer>>

\* TerminateJobObject by value: what the value refers to now.
TerminateJobObject(h, by) ==
    \/ \E r \in Run :
        /\ h # Closed /\ handles[h] = <<"job", r>>
        /\ Terminate(r) /\ killer' = [killer EXCEPT ![r] = IF sample[r] = "running" THEN by ELSE @]
    \/ /\ h = Closed \/ \A r \in Run : handles[h] # <<"job", r>>
       /\ UNCHANGED <<sample, children, killer>>

\* Kill, by the worker: at the deadline, or when the monitor does not start,
\* after which nobody waits.
Kill(r) ==
    /\ current = r /\ stage[r] \in {"running", "waited", "abandoned"}
    /\ TerminateJobObject(jobHandle[r], r)
    /\ \/ context[r] = "done" /\ UNCHANGED stage
       \/ context[r] = "live" /\ stage[r] = "running" /\ Goto(r, "unwaited")
    /\ UNCHANGED <<current, handles, jobHandle, pipes, inJob, killOnClose, context, watcher>>

\* <-ctx.Done(), and TerminateJobObject on the handle it has kept.
WatcherKills(r) ==
    /\ watcher[r] = "waiting" /\ context[r] = "done"
    /\ watcher' = [watcher EXCEPT ![r] = "gone"]
    /\ TerminateJobObject(jobHandle[r], r)
    /\ UNCHANGED <<current, stage, handles, jobHandle, pipes, inJob, killOnClose, context>>

\* Wait: the sample itself has ended; the close of the job's only handle ends
\* the rest.  The read ends are left to the finalizer.  When the wait itself fails
\* nothing is closed, and the sample may go on.
Wait(r) ==
    /\ stage[r] = "running"
    /\ \/ /\ sample[r] = "dead"
          /\ handles' = Closing(r, {"process", "job"})
          /\ pipes' = [pipes EXCEPT ![r] = {"outR", "errR"}]
          /\ IF killOnClose[r] THEN Terminate(r) ELSE UNCHANGED <<sample, children>>
          /\ Goto(r, "waited")
       \/ Goto(r, "abandoned") /\ UNCHANGED <<handles, pipes, sample, children>>
    /\ UNCHANGED <<current, jobHandle, inJob, killOnClose, context, watcher, killer>>

\* executeJob returns, and runCancel with it.
Return(r) ==
    /\ current = r /\ stage[r] \in {"error", "waited", "unwaited", "abandoned"}
    /\ current' = NoRun /\ context' = [context EXCEPT ![r] = "done"]
    /\ UNCHANGED <<stage, handles, jobHandle, pipes, processVars, watcher, killer>>

\* The daemon dies: every handle is closed, no goroutine is left.
Crash ==
    /\ handles' = [h \in Handle |-> Closed]
    /\ stage' = [r \in Run |-> "crashed"] /\ current' = NoRun
    /\ watcher' = [r \in Run |-> "gone"] /\ context' = [r \in Run |-> "done"]
    /\ pipes' = [r \in Run |-> {}]
    /\ sample' = [r \in Run |-> IF inJob[r] /\ killOnClose[r] THEN "dead" ELSE sample[r]]
    /\ children' = [r \in Run |-> IF killOnClose[r] THEN children[r] \ {"inside"} ELSE children[r]]
    /\ UNCHANGED <<jobHandle, inJob, killOnClose, killer>>

Next ==
    \/ \E r \in Run :
        \/ Begin(r) \/ ApplyJobLimits(r) \/ NewInheritablePipes(r) \/ CreateSuspended(r)
        \/ AssignProcessToJobObject(r) \/ ResumeThread(r)
        \/ SampleSpawns(r) \/ SampleExits(r) \/ Deadline(r)
        \/ Kill(r) \/ WatcherKills(r) \/ Wait(r) \/ Return(r)
    \/ Crash

Spec == Init /\ [][Next]_vars

-----------------------------------------------------------------------------
(* Properties.                                                             *)

\* Nothing of a sample executes outside a Job Object that the daemon holds open
\* and that dies with its handle; a CreateProcess that fails at any of its calls
\* leaves no process, pipe or handle; and nothing outlives a Wait that succeeds, nor
\* the goroutine that waits for the end of the context
\* (CreateProcess, Wait, KILL_ON_JOB_CLOSE, isolation_windows.go:346-349).
Contained ==
    \A r \in Run :
        /\ sample[r] = "running" \/ children[r] # {} =>
                /\ inJob[r] /\ killOnClose[r] /\ "outside" \notin children[r]
                /\ \E h \in Handle : handles[h] = <<"job", r>>
        /\ stage[r] = "error" =>
                /\ sample[r] \in {"none", "dead"} /\ pipes[r] = {}
                /\ \A h \in Handle : handles[h] = Closed \/ handles[h][2] # r
        /\ stage[r] = "waited" => sample[r] = "dead"
        /\ stage[r] = "waited" \/ watcher[r] = "gone" => sample[r] # "running" /\ children[r] = {}

\* "Honour context cancellation - kill the job if ctx is cancelled": a running
\* sample is terminated only for the end of its own context.  The watcher of an
\* earlier run still holds the value of a handle that Wait has closed.
OwnContextKills == \A r \in Run : killer[r] \in {NoRun, r}
=============================================================================
