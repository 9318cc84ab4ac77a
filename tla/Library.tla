------------------------------ MODULE Library ------------------------------
(***************************************************************************)
(* The C library of cmd/lemas-c: LemasInit, LemasSubmit and LemasClose,    *)
(* called by any number of threads, over the orchestrators they make.      *)
(* Every call holds orchMutex throughout; the worker of an orchestrator    *)
(* does not.  LemasClose waits for nothing, so the workers of several      *)
(* lives may be there at once.                                             *)
(***************************************************************************)
EXTENDS Naturals, Sequences

CONSTANTS
    Thread,   \* the callers
    NoThread,
    MaxLives, \* bound: how many orchestrators are made
    MaxJobs   \* bound: how many jobs are submitted to each

Life == 1..MaxLives

VARIABLES
    mutex,      \* who holds orchMutex
    call,       \* where each caller is
    orch,       \* the life that orch points to, 0 for nil
    born,       \* how many lives there have been
    cancelled,  \* the context of each life
    storeOpen,  \* its store
    queued,     \* how many jobs wait in its queue
    submitted,  \* how many it was given
    worker,     \* its worker: "none", "loop", "pop", "run", "exited"
    late,       \* history: jobs its worker took after it was cancelled
    refused     \* history: a row was saved, or not, in a closed store

lifeVars == <<born, cancelled, storeOpen, queued, submitted, worker, late, refused>>
vars == <<mutex, call, orch, lifeVars>>

Init ==
    /\ mutex = NoThread /\ call = [t \in Thread |-> "idle"]
    /\ orch = 0 /\ born = 0
    /\ cancelled = [l \in Life |-> FALSE] /\ storeOpen = [l \in Life |-> FALSE]
    /\ queued = [l \in Life |-> 0] /\ submitted = [l \in Life |-> 0]
    /\ worker = [l \in Life |-> "none"] /\ late = [l \in Life |-> 0]
    /\ refused = FALSE

Goto(t, label) == call' = [call EXCEPT ![t] = label]

Enter(t) ==
    /\ call[t] = "idle" /\ mutex = NoThread
    /\ mutex' = t
    /\ \E label \in {"init", "submit", "cancel"} : Goto(t, label)
    /\ UNCHANGED <<orch, lifeVars>>

\* The deferred Unlock.
Leave(t) == mutex' = NoThread /\ Goto(t, "idle")

\* LemasInit: 1 if there is an orchestrator, 0 if NewOrchestrator fails.
LemasInit(t) ==
    /\ call[t] = "init"
    /\ \/ /\ orch = 0 /\ born < MaxLives
          /\ born' = born + 1 /\ orch' = born + 1
          /\ storeOpen' = [storeOpen EXCEPT ![born + 1] = TRUE]
          /\ worker' = [worker EXCEPT ![born + 1] = "loop"]
       \/ UNCHANGED <<born, orch, storeOpen, worker>>
    /\ Leave(t)
    /\ UNCHANGED <<cancelled, queued, submitted, late, refused>>

\* LemasSubmit: SubmitJob saves the row ...
LemasSubmit(t) ==
    /\ call[t] = "submit"
    /\ \/ /\ orch # 0 /\ submitted[orch] < MaxJobs
          /\ Goto(t, "push") /\ UNCHANGED mutex
          /\ refused' = (refused \/ ~storeOpen[orch])
       \/ Leave(t) /\ UNCHANGED refused
    /\ UNCHANGED <<orch, born, cancelled, storeOpen, queued, submitted, worker, late>>

\* ... and pushes the job.
Push(t) ==
    /\ call[t] = "push"
    /\ queued' = [queued EXCEPT ![orch] = @ + 1]
    /\ submitted' = [submitted EXCEPT ![orch] = @ + 1]
    /\ Leave(t)
    /\ UNCHANGED <<orch, born, cancelled, storeOpen, worker, late, refused>>

\* LemasClose: cancel (again, if it was called before) ...
LemasClose(t) ==
    /\ call[t] = "cancel"
    /\ cancelled' = IF born = 0 THEN cancelled ELSE [cancelled EXCEPT ![born] = TRUE]
    /\ IF orch = 0 THEN Leave(t) ELSE Goto(t, "close") /\ UNCHANGED mutex
    /\ UNCHANGED <<orch, born, storeOpen, queued, submitted, worker, late, refused>>

\* ... then orch.Close and orch = nil.
CloseStore(t) ==
    /\ call[t] = "close"
    /\ storeOpen' = [storeOpen EXCEPT ![orch] = FALSE] /\ orch' = 0
    /\ Leave(t)
    /\ UNCHANGED <<born, cancelled, queued, submitted, worker, late, refused>>

\* Mutant: the worker does not look at its context.
KeepGoing(l) ==
    /\ worker[l] = "loop"
    /\ worker' = [worker EXCEPT ![l] = "pop"]
    /\ UNCHANGED <<mutex, call, orch, born, cancelled, storeOpen, queued, submitted, late, refused>>

\* The worker: the context is looked at, then Pop waits.
CheckContext(l) ==
    /\ worker[l] = "loop"
    /\ worker' = [worker EXCEPT ![l] = IF cancelled[l] THEN "exited" ELSE "pop"]
    /\ UNCHANGED <<mutex, call, orch, born, cancelled, storeOpen, queued, submitted, late, refused>>

Pop(l) ==
    /\ worker[l] = "pop" /\ queued[l] > 0
    /\ queued' = [queued EXCEPT ![l] = @ - 1]
    /\ late' = [late EXCEPT ![l] = IF cancelled[l] THEN @ + 1 ELSE @]
    /\ worker' = [worker EXCEPT ![l] = "run"]
    /\ UNCHANGED <<mutex, call, orch, born, cancelled, storeOpen, submitted, refused>>

ExecuteJob(l) ==
    /\ worker[l] = "run"
    /\ worker' = [worker EXCEPT ![l] = "loop"]
    /\ UNCHANGED <<mutex, call, orch, born, cancelled, storeOpen, queued, submitted, late, refused>>

Next ==
    \/ \E t \in Thread : \/ Enter(t) \/ LemasInit(t) \/ LemasSubmit(t) \/ Push(t)
                         \/ LemasClose(t) \/ CloseStore(t)
    \/ \E l \in Life : CheckContext(l) \/ Pop(l) \/ ExecuteJob(l)

Spec == Init /\ [][Next]_vars

-----------------------------------------------------------------------------
(* Properties.                                                             *)

\* LemasClose is final for the life it closes: its worker takes at most one more
\* job, no submission reaches it, and only the life that is open is not
\* cancelled, though workers of earlier lives may still run (LemasClose, Start).
CloseIsFinal ==
    /\ ~refused
    /\ \A l \in Life :
        /\ late[l] <= 1
        /\ l # orch /\ l <= born => cancelled[l] /\ ~storeOpen[l]
        /\ worker[l] = "exited" => cancelled[l]
=============================================================================
