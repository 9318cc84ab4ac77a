------------------------------ MODULE Command ------------------------------
(***************************************************************************)
(* cmd/lemas: main chooses the daemon or the analysis of one file, each of *)
(* which runs beside the same orchestrator.                                *)
(***************************************************************************)
EXTENDS Standalone, Daemon

VARIABLE mode   \* *daemonMode

commandVars == <<vars, cliVars, httpVars, mode>>

CommandInit == CliInit /\ DaemonInit /\ mode \in {"file", "daemon"}

CommandNext ==
    /\ UNCHANGED mode
    /\ \/ mode = "file" /\ CliNext /\ UNCHANGED httpVars
       \/ mode = "daemon" /\ DaemonNext /\ UNCHANGED cliVars

CommandSpec == CommandInit /\ [][CommandNext]_commandVars
=============================================================================
