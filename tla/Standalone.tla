----------------------------- MODULE Standalone -----------------------------
(***************************************************************************)
(* lemas -file: the standalone mode of cmd/lemas, composed with the        *)
(* orchestrator it runs in the same process.  The main goroutine submits   *)
(* one file and polls its status once a second; for what it finds it stats *)
(* and reads the report file, each a step of its own beside the worker.    *)
(* main returning, or log.Fatal, ends the process and the worker with it.  *)
(***************************************************************************)
EXTENDS Orchestrator

CONSTANT Target   \* the job of the one file that is submitted

ASSUME StandaloneAssumption == Target \in Job

VARIABLES
    cli,   \* "submit", "poll", "stat", "read", or how it ended: "refused", "failed",
           \* "printed", "unparsable", "noreport", "gaveup"
    seen   \* the status it read last

cliVars == <<cli, seen>>

\* "unparsable": Fatal "failed to parse report JSON"; "noreport": Fatal
\* "analysis timed out with no report generated".
CliInit == Init /\ cli = "submit" /\ seen = "absent"

Exit(how) == cli' = how /\ ProcessEnds /\ UNCHANGED seen

\* SubmitJob runs on this goroutine, in its three steps.
CliSubmit ==
    /\ cli = "submit"
    /\ AnalyzeFileStatic(Target) \/ SaveQueued(Target) \/ Push(Target)
    /\ cli' = IF submit'[Target] = "accepted" THEN "poll" ELSE "submit"
    /\ UNCHANGED seen

CliRefused == cli = "submit" /\ submit[Target] = "rejected" /\ Exit("refused")

\* GetJobStatus, and the switch over the status; a store error is only logged.
CliPoll ==
    /\ cli = "poll" /\ storeOpen
    /\ seen' = row[Target]
    /\ cli' = IF row[Target] \in {"completed", "timeout"} THEN "stat" ELSE "poll"
    /\ row[Target] # "failed"
    /\ UNCHANGED vars

CliFailed == cli = "poll" /\ row[Target] = "failed" /\ Exit("failed")

\* os.Stat of report.json.
CliStat ==
    /\ cli = "stat"
    /\ \/ json[Target] # "none" /\ cli' = "read" /\ UNCHANGED <<seen, vars>>
       \/ json[Target] = "none" /\ seen = "timeout" /\ Exit("noreport")
       \/ json[Target] = "none" /\ seen # "timeout" /\ cli' = "poll" /\ UNCHANGED <<seen, vars>>

\* printSummary: a file still being encoded does not parse.
CliReadUnchecked == cli = "read" /\ Exit("printed")   \* Mutant: err is ignored.

CliRead ==
    /\ cli = "read"
    /\ Exit(IF json[Target] = "full" THEN "printed" ELSE "unparsable")

\* max_timeout_seconds + 30 have passed.
CliGivesUp == cli = "poll" /\ Exit("gaveup")

Cli == CliSubmit \/ CliRefused \/ CliPoll \/ CliFailed \/ CliStat \/ CliRead \/ CliGivesUp

Engine == /\ \/ Worker \/ WatcherKills \/ WaitReturns \/ WaitFails \/ Deadline
             \/ \E j \in Job : SampleExits(j)
          /\ UNCHANGED cliVars

CliNext == Cli \/ Engine

CliSpec == CliInit /\ [][CliNext]_<<vars, cliVars>>

-----------------------------------------------------------------------------
(* Properties.                                                             *)

\* A summary is printed only of a whole report of a sample that ran, ended and
\* was scored; a job refused or failed left none.
PrintedMeansScored ==
    /\ cli = "printed" => json[Target] = "full" /\ html[Target] = "full"
                          /\ proc[Target] \in AfterWait
                          /\ \/ "store" \in Faults
                             \/ verdict[Target] /\ findings[Target] /\ row[Target] = "completed"
    /\ cli \in {"refused", "failed"} => json[Target] = "none" /\ ~verdict[Target]

\* "analysis timed out with no report generated" is said of a job whose report
\* is not about to be generated.
NoReportMeansNone ==
    [][(cli' = "noreport" /\ cli # "noreport") =>
         pc \notin {"report", "score", "findings", "html", "json", "encode"}]_<<vars, cliVars>>
=============================================================================
