----------------------------- MODULE ProcMonitor -----------------------------
(***************************************************************************)
(* The Linux monitor without eBPF (pkg/monitor/monitor_linux.go): every    *)
(* 200 ms a goroutine lists /proc, adopts the children of the processes it *)
(* tracks, and looks at each tracked process in turn, while processes come *)
(* and go.  Whether an event gets through the channel is module Pipeline's *)
(* matter: here it is heard.                                               *)
(***************************************************************************)
EXTENDS Processes

CONSTANTS
    LateFailures,   \* eBPF may fail after its programs were loaded
    NoPid

C == INSTANCE Correlation WITH PrimaryWindow <- 0, MaxWindow <- 0

ASSUME ProcMonitorAssumption == LateFailures \in BOOLEAN /\ NoPid \notin Pid

VARIABLES
    pc,          \* where procPollLoop is
    ctx,         \* the monitor's context: live, or cancelled by Stop or by a failed start
    monitored,   \* monitoredPIDs
    known,       \* known: the tracked IDs already announced
    snapshot,    \* pids: the tracked IDs still to be looked at in this turn
    listing,     \* allProcPIDs still to be looked at
    cur,         \* the ID being looked at
    knownFiles,  \* knownFiles, by ID: there is one file and one descriptor
    knownConns,  \* knownConns, by ID and connection
    correlator,  \* the correlation engine
    announced,   \* history: IDs with a create event and no exit event since
    strangers    \* history: a file or connection of a process outside the tree was reported

monVars == <<pc, ctx, monitored, known, snapshot, listing, cur, knownFiles,
             knownConns, correlator, announced, strangers>>
vars == <<worldVars, monVars>>

-----------------------------------------------------------------------------
(* Start *)

Init ==
    /\ WorldInit
    /\ pc = "start" /\ ctx = "live"
    /\ monitored = {Sample} /\ known = {}
    /\ snapshot = {} /\ listing = {} /\ cur = NoPid
    /\ knownFiles = {} /\ knownConns = {}
    /\ correlator = C!NewEngine
    /\ announced = {} /\ strangers = FALSE

\* No root or no object file: nothing was set up yet.
StartEBPFFailsEarly ==
    /\ pc = "start"
    /\ pc' = "root"
    /\ UNCHANGED ctx

\* A program that does not attach: cleanup() cancels the context of the monitor,
\* which the goroutine of the fallback is then given.
StartEBPFFailsLate ==
    /\ pc = "start" /\ LateFailures
    /\ pc' = "root"
    /\ ctx' = "failed"

StartProcFallback ==
    /\ StartEBPFFailsEarly \/ StartEBPFFailsLate
    /\ UNCHANGED <<worldVars, monitored, known, snapshot, listing, cur, knownFiles, knownConns,
                   correlator, announced, strangers>>

Stop ==
    /\ pc # "start" /\ ctx = "live"
    /\ ctx' = "stopped"
    /\ UNCHANGED <<worldVars, pc, monitored, known, snapshot, listing, cur, knownFiles,
                   knownConns, correlator, announced, strangers>>

-----------------------------------------------------------------------------
(* procPollLoop *)

\* The alerts change nothing here; what they lean on is module EbpfMonitor's matter.
Correlate(ev) == correlator' = C!ProcessEvent(correlator, ev)

EmitProcCreate(p, ppid) ==
    /\ Correlate([type |-> "create", pid |-> p, time |-> births, ppid |-> ppid,
                  integrity |-> "", user |-> "", traits |-> {}])
    /\ announced' = announced \cup {p}

EmitRoot ==
    /\ pc = "root"
    /\ EmitProcCreate(Sample, NoPid)
    /\ pc' = "stat"
    /\ UNCHANGED <<worldVars, ctx, monitored, known, snapshot, listing, cur,
                   knownFiles, knownConns, strangers>>

ReadRoot ==
    /\ pc = "stat"
    /\ known' = known \cup (Living \cap {Sample})
    /\ pc' = "wait"
    /\ UNCHANGED <<worldVars, ctx, monitored, snapshot, listing, cur, knownFiles,
                   knownConns, correlator, announced, strangers>>

LoopEnds ==
    /\ pc = "wait" /\ ctx # "live"
    /\ pc' = "ended"
    /\ UNCHANGED <<worldVars, ctx, monitored, known, snapshot, listing, cur,
                   knownFiles, knownConns, correlator, announced, strangers>>

\* With both channels of the select ready either branch may run; the first tick is
\* 200 ms away, a context cancelled before the loop starts always wins.
BeginTurn ==
    /\ pc = "wait" /\ ctx # "failed"
    /\ snapshot' = monitored
    /\ listing' = Living
    /\ pc' = "scan"
    /\ UNCHANGED <<worldVars, ctx, monitored, known, cur, knownFiles, knownConns,
                   correlator, announced, strangers>>

\* Mutant: a process is known before its parent is looked up.
ScanKnownFirst(p) ==
    /\ pc = "scan" /\ p \in listing
    /\ listing' = listing \ {p}
    /\ known' = known \cup {p}
    /\ IF p \notin known /\ p \in Living /\ proc[p].ppid \in monitored
       THEN /\ monitored' = monitored \cup {p}
            /\ EmitProcCreate(p, proc[p].ppid)
       ELSE UNCHANGED <<monitored, correlator, announced>>
    /\ UNCHANGED <<worldVars, pc, ctx, snapshot, cur, knownFiles, knownConns, strangers>>

\* Mutant: any process that is not known yet is adopted.
ScanUnrelated(p) ==
    /\ pc = "scan" /\ p \in listing
    /\ listing' = listing \ {p}
    /\ IF p \notin known /\ p \in Living
       THEN /\ monitored' = monitored \cup {p}
            /\ known' = known \cup {p}
            /\ EmitProcCreate(p, proc[p].ppid)
       ELSE UNCHANGED <<monitored, known, correlator, announced>>
    /\ UNCHANGED <<worldVars, pc, ctx, snapshot, cur, knownFiles, knownConns, strangers>>

\* The list is a moment old: the process may be gone, or another one.
ScanOne(p) ==
    /\ pc = "scan" /\ p \in listing
    /\ listing' = listing \ {p}
    /\ IF p \notin known /\ p \in Living /\ proc[p].ppid \in monitored
       THEN /\ monitored' = monitored \cup {p}
            /\ known' = known \cup {p}
            /\ EmitProcCreate(p, proc[p].ppid)
       ELSE UNCHANGED <<monitored, known, correlator, announced>>
    /\ UNCHANGED <<worldVars, pc, ctx, snapshot, cur, knownFiles, knownConns, strangers>>

ScansDone ==
    /\ pc = "scan" /\ listing = {}
    /\ pc' = "check"
    /\ UNCHANGED <<worldVars, ctx, monitored, known, snapshot, listing, cur,
                   knownFiles, knownConns, correlator, announced, strangers>>

\* Mutant: the exit is sent but the ID stays tracked.
CheckExitKeeps(p) ==
    /\ pc = "check" /\ p \in snapshot /\ p \notin Living
    /\ snapshot' = snapshot \ {p}
    /\ announced' = announced \ {p}
    /\ known' = known \ {p}
    /\ UNCHANGED <<worldVars, pc, ctx, monitored, listing, cur, knownFiles,
                   knownConns, correlator, strangers>>

\* The exit event goes to the channel only, not to the correlation engine.
CheckExit(p) ==
    /\ pc = "check" /\ p \in snapshot /\ p \notin Living
    /\ snapshot' = snapshot \ {p}
    /\ monitored' = monitored \ {p}
    /\ known' = known \ {p}
    /\ announced' = announced \ {p}
    /\ UNCHANGED <<worldVars, pc, ctx, listing, cur, knownFiles, knownConns,
                   correlator, strangers>>

CheckLiving(p) ==
    /\ pc = "check" /\ p \in snapshot /\ p \in Living
    /\ snapshot' = snapshot \ {p}
    /\ cur' = p
    /\ pc' = "files"
    /\ UNCHANGED <<worldVars, ctx, monitored, known, listing, knownFiles,
                   knownConns, correlator, announced, strangers>>

Outsider(birth) == \E q \in Living : proc[q].birth = birth /\ ~proc[q].tree

\* /proc/<pid>/fd of whatever process has the ID now.
ReadFiles ==
    /\ pc = "files"
    /\ IF proc[cur].file /\ cur \notin knownFiles
       THEN /\ knownFiles' = knownFiles \cup {cur}
            /\ strangers' = (strangers \/ Outsider(proc[cur].birth))
            /\ Correlate([type |-> "write", pid |-> cur, time |-> births, place |-> "lasting"])
       ELSE UNCHANGED <<knownFiles, strangers, correlator>>
    /\ pc' = "conns"
    /\ UNCHANGED <<worldVars, ctx, monitored, known, snapshot, listing, cur,
                   knownConns, announced>>

ScanProcNetTCP ==
    /\ pc = "conns"
    /\ LET new == IF cur \in Living
                  THEN {c \in NetTable(cur) : <<cur, c>> \notin knownConns} ELSE {}
       IN  IF new # {}
           THEN /\ knownConns' = knownConns \cup {<<cur, c>> : c \in new}
                /\ strangers' = (strangers \/ \E c \in new : Outsider(c))
                /\ Correlate([type |-> "connect", pid |-> cur, time |-> births, dest |-> TRUE])
           ELSE UNCHANGED <<knownConns, strangers, correlator>>
    /\ pc' = "check" /\ cur' = NoPid
    /\ UNCHANGED <<worldVars, ctx, monitored, known, snapshot, listing,
                   knownFiles, announced>>

EndTurn ==
    /\ pc = "check" /\ snapshot = {}
    /\ pc' = "wait"
    /\ UNCHANGED <<worldVars, ctx, monitored, known, snapshot, listing, cur,
                   knownFiles, knownConns, correlator, announced, strangers>>

ProcPollLoop ==
    \/ EmitRoot \/ ReadRoot \/ LoopEnds \/ BeginTurn \/ ScansDone \/ ReadFiles
    \/ ScanProcNetTCP \/ EndTurn
    \/ \E p \in Pid : ScanOne(p) \/ CheckExit(p) \/ CheckLiving(p)

Next ==
    \/ World /\ UNCHANGED monVars
    \/ StartProcFallback
    \/ Stop
    \/ ProcPollLoop

Spec == Init /\ [][Next]_vars

\* The goroutine runs, and its ticker ticks.
FairSpec == Spec /\ WF_vars(StartProcFallback) /\ WF_vars(ProcPollLoop)

-----------------------------------------------------------------------------
TypeOK ==
    /\ WorldTypeOK
    /\ pc \in {"start", "root", "stat", "wait", "scan", "check", "files", "conns", "ended"}
    /\ ctx \in {"live", "stopped", "failed"}
    /\ monitored \subseteq Pid /\ known \subseteq Pid
    /\ snapshot \subseteq Pid /\ listing \subseteq Pid /\ cur \in Pid \cup {NoPid}
    /\ (cur = NoPid) <=> (pc \notin {"files", "conns"})
    /\ knownFiles \subseteq Pid /\ knownConns \subseteq Pid \X Nat
    /\ announced \subseteq Pid /\ strangers \in BOOLEAN
    /\ correlator \in C!EngineType

\* Only IDs whose creation was announced are tracked once the loop runs, and an ID
\* is passed over as known only while it is tracked: the scan never skips a process
\* nobody looks at (monitor_linux.go:340-344, 353-357, 363-367).
PassedOverIsTracked ==
    /\ known \subseteq monitored
    /\ pc \notin {"start", "root"} => monitored \subseteq announced

\* An exit event is sent once, for an ID whose creation was announced.
ExitSent(p) == p \in snapshot \ snapshot' /\ pc' = "check" /\ cur' = NoPid
ExitOfAnnounced == [][\A p \in Pid : ExitSent(p) => p \in announced]_vars

\* "harvesting events from the target PID and its descendants" (monitor.go:10): as long
\* as no ID is used again, no file or connection of a process outside of the sample's
\* tree is reported, whatever starts and ends between two looks at /proc.
StrangersUnheard == NoneReused => ~strangers

\* "it automatically falls back to the /proc poller" (monitor_linux.go:70): the
\* loop ends only because somebody stopped it.
PollsUntilStopped == pc = "ended" => ctx = "stopped"

\* "harvesting events from the target PID and its descendants" (monitor.go:10): a
\* descendant that goes on living is tracked in the end, if there is a PID namespace
\* in which the sample adopts orphans, and unless the loop is stopped before.
DescendantsTracked ==
    \A p \in Pid \ {Sample}, b \in 2..MaxBirths :
        (Namespaces /\ proc[p].birth = b /\ proc[p].tree) ~>
            (p \in monitored \/ ctx # "live" \/ proc[p].birth # b)
=============================================================================
