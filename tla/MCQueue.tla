------------------------------ MODULE MCQueue ------------------------------
(***************************************************************************)
(* Instances for TLC of the two descriptions of the job queue, side by     *)
(* side: Orchestrator, which uses it in single steps, and JobQueue, which  *)
(* shows that its mutex and condition variable make it so.  Each behaviour *)
(* is one of the part that `part` names.                                   *)
(***************************************************************************)
EXTENDS Orchestrator

CONSTANTS Pusher, Popper, Nobody
\* q.mu knows its holder, and NewOrchestrator starts a worker.
ASSUME NobodyAssumption == Nobody \notin Pusher \cup Popper
ASSUME PopperAssumption == Popper # {}

VARIABLES part, mu, jobs, notify, at, popped, failed

Slice == INSTANCE JobQueue

sliceVars == <<mu, jobs, notify, at, popped, failed>>

QueueInit == part \in {"orchestrator", "slice"} /\ Init /\ Slice!Init

QueueNext ==
    \/ part = "orchestrator" /\ Next /\ UNCHANGED <<part, sliceVars>>
    \/ part = "slice" /\ Slice!Next /\ UNCHANGED <<part, vars>>

\* The fairness of Orchestrator and of JobQueue, each where that part moves.
QueueFairness ==
    /\ WF_vars(part = "orchestrator" /\ Worker)
    /\ WF_vars(part = "orchestrator" /\ WatcherKills)
    /\ WF_vars(part = "orchestrator" /\ WaitReturns)
    /\ WF_vars(part = "orchestrator" /\ Deadline)
    /\ \A j \in Job : WF_vars(part = "orchestrator" /\ (SaveQueued(j) \/ Push(j)))
    /\ \A t \in Pusher \cup Popper :
        /\ WF_sliceVars(part = "slice" /\ Slice!Step(t))
        /\ SF_sliceVars(part = "slice" /\ (Slice!Lock(t) \/ Slice!PopWakes(t)))

FairQueues == QueueInit /\ [][QueueNext]_<<part, vars, sliceVars>> /\ QueueFairness

-----------------------------------------------------------------------------
(* The properties of JobQueue, by their names there; those of Orchestrator *)
(* are in scope as they are.                                               *)

\* Pop of queue.go re-checks after every wake-up and never fails.
PopNeverFails == Slice!PopNeverFails

\* No signal is lost (queue.go).
NoLostWakeup == Slice!NoLostWakeup

\* The slice under its mutex is a FIFO (queue.go).
QueueSpec == Slice!QueueSpec

\* Every job pushed is popped (queue.go).
PushedIsPopped == Slice!PushedIsPopped
=============================================================================
