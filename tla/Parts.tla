------------------------------- MODULE Parts -------------------------------
(***************************************************************************)
(* The parts of the daemon that share no state with the orchestrator or    *)
(* with each other, by the names of their modules, beside Command.  The    *)
(* rule engines join them in MCParts, which is for TLC alone.              *)
(***************************************************************************)
EXTENDS Command

CONSTANTS
    Run, NoRun, Handle, Closed,            (* Isolation *)
    Store, MaxRows,                        (* Storage *)
    Thread, NoThread, MaxLives, MaxJobs    (* Library *)

VARIABLES
    current, stage, handles, jobHandle, pipes, killOnClose, inJob, sample, children,
    context, watcher, killer,
    tables, column, keyRow, nextKey, rows, open, hmacKey,
    mutex, call, orch, born, cancelled, lifeStore, queued, submitted, worker, late, refused

Iso == INSTANCE Isolation
Db  == INSTANCE Storage
Lib == INSTANCE Library WITH storeOpen <- lifeStore

\* A free handle value refers to nothing; an older version is none of the
\* openers; orchMutex knows its holder.
ASSUME ClosedAssumption == Closed \notin Handle \cup ({"job", "process", "thread"} \X Run)
ASSUME StoreAssumption  == Db!Old \notin Store
ASSUME ThreadAssumption == NoThread \notin Thread /\ MaxLives \in Nat

isoVars == <<current, stage, handles, jobHandle, pipes, killOnClose, inJob, sample, children,
             context, watcher, killer>>
dbVars  == <<tables, column, keyRow, nextKey, rows, open, hmacKey>>
libVars == <<mutex, call, orch, born, cancelled, lifeStore, queued, submitted, worker, late, refused>>

-----------------------------------------------------------------------------
(* The properties of the parts, by their names there; those of Command are *)
(* in scope as they are.                                                   *)

\* No sample executes outside its Job Object (isolation_windows.go).
Contained == Iso!Contained

\* Every open store verifies every row any store saved (sqlite.go).
SavedVerifies == Db!SavedVerifies

\* LemasClose ends the life it closes (cmd/lemas-c/main.go).
CloseIsFinal == Lib!CloseIsFinal
=============================================================================
