------------------------------ MODULE JobQueue ------------------------------
(***************************************************************************)
(* JobQueue of pkg/orchestrator/queue.go: a slice under a mutex, with a    *)
(* condition variable on which Pop waits.  Each caller of SubmitJob pushes *)
(* one job; the poppers pop forever (the orchestrator starts one).  Module *)
(* Orchestrator uses the queue as the Fifo that this module implements.    *)
(***************************************************************************)
EXTENDS Naturals, Sequences

CONSTANTS
    Pusher,  \* the goroutines that push, each its own job; none of them pops
    Popper,  \* the goroutines that pop
    Nobody   \* the mutex is free

VARIABLES
    mu,       \* who holds q.mu
    jobs,     \* the slice
    notify,   \* the poppers asleep in q.cond.Wait that no signal has reached
    at,       \* where each goroutine is
    popped,   \* history: the jobs returned by Pop
    failed    \* Pop has returned "queue is empty"

vars == <<mu, jobs, notify, at, popped, failed>>

TypeOK ==
    /\ mu \in Pusher \cup Popper \cup {Nobody}
    /\ jobs \in Seq(Pusher) /\ popped \in Seq(Pusher)
    /\ notify \subseteq Popper
    /\ at \in [Pusher \cup Popper ->
               {"start", "locked", "check", "appended", "unlock", "asleep", "taking", "end"}]
    /\ failed \in BOOLEAN

Init ==
    /\ mu = Nobody /\ jobs = <<>> /\ notify = {} /\ popped = <<>> /\ failed = FALSE
    /\ at = [t \in Pusher \cup Popper |-> "start"]

Goto(t, label) == at' = [at EXCEPT ![t] = label]

Lock(t) ==
    /\ at[t] = "start" /\ mu = Nobody
    /\ mu' = t /\ Goto(t, IF t \in Popper THEN "check" ELSE "locked")
    /\ UNCHANGED <<jobs, notify, popped, failed>>

\* The deferred q.mu.Unlock.  A popper comes back for the next job.
Unlock(t) ==
    /\ at[t] = "unlock"
    /\ mu' = Nobody /\ Goto(t, IF t \in Popper THEN "start" ELSE "end")
    /\ UNCHANGED <<jobs, notify, popped, failed>>

PushAppend(t) ==
    /\ at[t] = "locked" /\ t \in Pusher
    /\ jobs' = Append(jobs, t) /\ Goto(t, "appended")
    /\ UNCHANGED <<mu, notify, popped, failed>>

\* Mutant: no signal.
PushSilent(t) ==
    /\ at[t] = "appended" /\ Goto(t, "unlock")
    /\ UNCHANGED <<mu, jobs, notify, popped, failed>>

\* q.cond.Signal wakes one sleeper, if there is one.
PushSignal(t) ==
    /\ at[t] = "appended"
    /\ \/ notify = {} /\ UNCHANGED notify
       \/ \E w \in notify : notify' = notify \ {w}
    /\ Goto(t, "unlock")
    /\ UNCHANGED <<mu, jobs, popped, failed>>

\* for len(q.jobs) == 0 { q.cond.Wait() }: Wait joins the notify list before
\* it gives the mutex up ...
PopCheck(t) ==
    /\ at[t] = "check"
    /\ \/ /\ jobs = <<>>
          /\ notify' = notify \cup {t} /\ mu' = Nobody /\ Goto(t, "asleep")
       \/ /\ jobs # <<>>
          /\ Goto(t, "taking") /\ UNCHANGED <<mu, notify>>
    /\ UNCHANGED <<jobs, popped, failed>>

\* Mutant: if instead of for.
PopWakesUnchecked(t) ==
    /\ at[t] = "asleep" /\ t \notin notify /\ mu = Nobody
    /\ mu' = t /\ Goto(t, "taking")
    /\ UNCHANGED <<jobs, notify, popped, failed>>

\* ... and takes it again once signalled, to look at the slice anew.
PopWakes(t) ==
    /\ at[t] = "asleep" /\ t \notin notify /\ mu = Nobody
    /\ mu' = t /\ Goto(t, "check")
    /\ UNCHANGED <<jobs, notify, popped, failed>>

\* Mutant: q.jobs is not cut.
PopLooks(t) ==
    /\ at[t] = "taking" /\ Goto(t, "unlock") /\ jobs # <<>>
    /\ popped' = Append(popped, Head(jobs))
    /\ UNCHANGED <<mu, jobs, notify, failed>>

PopTake(t) ==
    /\ at[t] = "taking" /\ Goto(t, "unlock")
    /\ \/ /\ jobs # <<>>
          /\ popped' = Append(popped, Head(jobs)) /\ jobs' = Tail(jobs)
          /\ UNCHANGED failed
       \/ jobs = <<>> /\ failed' = TRUE /\ UNCHANGED <<popped, jobs>>
    /\ UNCHANGED <<mu, notify>>

Step(t) == Lock(t) \/ Unlock(t) \/ PushAppend(t) \/ PushSignal(t)
           \/ PopCheck(t) \/ PopWakes(t) \/ PopTake(t)

Next == \E t \in Pusher \cup Popper : Step(t)

Spec == Init /\ [][Next]_vars

\* Goroutines are scheduled, and sync.Mutex does not starve a waiter for ever
\* (it hands itself over after a millisecond).
Fairness == \A t \in Pusher \cup Popper :
                WF_vars(Step(t)) /\ SF_vars(Lock(t) \/ PopWakes(t))

FairSpec == Spec /\ Fairness

-----------------------------------------------------------------------------
(* Properties.                                                             *)

\* The queue is a FIFO for any number of goroutines: refinement.
Queue == INSTANCE Fifo WITH Item <- Pusher, items <- jobs, taken <- popped
QueueSpec == Queue!Spec

\* Pop re-checks under the mutex after every wake-up, so its error return, and
\* with it the orchestrator's 500 ms retry, is never reached.
PopNeverFails == ~failed

\* No wake-up is lost, in one state: while a job is in the slice a popper is
\* awake or signalled, or the pusher that appended is about to signal.
NoLostWakeup ==
    jobs # <<>> => \/ \E w \in Popper : w \notin notify
                   \/ \E p \in Pusher : at[p] = "appended"

\* No wake-up is lost, in the end: every job that is pushed is popped.
PushedIsPopped ==
    \A p \in Pusher : at[p] = "appended" ~> \E i \in 1..Len(popped) : popped[i] = p
=============================================================================
