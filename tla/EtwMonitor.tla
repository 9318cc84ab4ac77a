----------------------------- MODULE EtwMonitor ------------------------------
(***************************************************************************)
(* The Windows monitor (pkg/monitor/monitor_windows.go): one handler for   *)
(* the events of twelve ETW providers, which adopts the children of the    *)
(* processes it tracks, translates what they do, and feeds the correlation *)
(* engine.  The trace delivers in order and the handler looks at nothing   *)
(* but the event, so what happens and its handling are one action.  The    *)
(* sample runs before the session does, and a provider that cannot be      *)
(* enabled is done without: an unheard event of the other providers is no  *)
(* step here, one of Kernel-Process still changes the world.  A consumer   *)
(* that fails is a session without providers.  Events of AMSI and          *)
(* PowerShell go to lists only, and are left out.                          *)
(***************************************************************************)
EXTENDS Processes

CONSTANTS
    NoPid,
    Providers    \* the providers whose events occur, but for Kernel-Process

C == INSTANCE Correlation WITH PrimaryWindow <- 0, MaxWindow <- 0

\* Windows has no PID namespaces.
ASSUME EtwMonitorAssumption ==
    /\ NoPid \notin Pid /\ ~Namespaces
    /\ Providers \subseteq {"Kernel-File", "Kernel-Registry", "Kernel-Network", "Kernel-Thread",
                            "Kernel-Image", "Kernel-Handle", "WMI-Activity", "TaskScheduler"}

VARIABLES
    session,     \* whether Kernel-Process, the first provider, is enabled:
                 \* "pending", "enabled" or "unavailable"
    monitored,   \* monitoredPIDs
    correlator,  \* the correlation engine
    level,       \* the integrity of the living processes
    spoofed,     \* history: a process was started under the name of another parent
    missed,      \* history: the living processes started unheard, or by one of these
    created,     \* history: the ID whose start was handled last, right now, or NoPid
    raised,      \* history: the alerts of the last action
    did          \* history: what the living process with the ID was heard to do

vars == <<worldVars, session, monitored, correlator, level, spoofed, missed, created, raised, did>>

\* The sample has been resumed; Start puts its ID into monitoredPIDs and makes the
\* engine before there is a session that looks at either.
Init ==
    /\ WorldInit
    /\ session = "pending"
    /\ monitored = {Sample}
    /\ correlator = C!NewEngine
    /\ level = [p \in Pid |-> "low"]
    /\ spoofed = FALSE /\ missed = {}
    /\ created = NoPid /\ raised = {}
    /\ did = [p \in Pid |-> {}]

-----------------------------------------------------------------------------
(* One event through the engine, or two.                                   *)
Handled(ev) ==
    /\ correlator' = C!ProcessEvent(correlator, ev)
    /\ raised' = C!Alerts(correlator, ev)
    /\ created' = IF ev.type = "create" THEN ev.pid ELSE NoPid

HandledTwice(first, second) ==
    LET between == C!ProcessEvent(correlator, first)
    IN  /\ correlator' = C!ProcessEvent(between, second)
        /\ raised' = C!Alerts(correlator, first) \cup C!Alerts(between, second)
        /\ created' = NoPid

Ignored == created' = NoPid /\ raised' = {} /\ UNCHANGED correlator

\* EnableProvider, with its failure, which is reported and ends nothing.
EnableProvider ==
    /\ session = "pending"
    /\ session' \in {"enabled", "unavailable"}
    /\ Ignored
    /\ UNCHANGED <<worldVars, monitored, level, spoofed, missed, did>>

CreateEvent(p, ppid, integrity) ==
    [type |-> "create", pid |-> p, time |-> births + 1, ppid |-> ppid, integrity |-> integrity,
     user |-> "", traits |-> {}]

\* The event of a create is about the new process if its parent is tracked;
\* otherwise it passes the filter if its creator is tracked, and is then taken
\* to be about the creator.
Subject(creator, parent, p) ==
    IF parent \in monitored THEN p ELSE IF creator \in monitored THEN creator ELSE NoPid

\* Mutant: the children of the target only.
AdoptedFromTarget(creator, parent, p) ==
    IF parent = Sample THEN monitored \cup {p} ELSE monitored

Adopted(creator, parent, p) == IF parent \in monitored THEN monitored \cup {p} ELSE monitored

ProcessStart(creator, parent, p) ==
    \E integrity \in {"low", "high"} :
        /\ Spawn(creator, parent, p)
        /\ spoofed' = (spoofed \/ parent # creator)
        /\ missed' = IF session # "enabled" \/ creator \in missed THEN missed \cup {p} ELSE missed \ {p}
        /\ level' = [level EXCEPT ![p] = integrity]
        /\ IF session = "enabled"
           THEN /\ monitored' = Adopted(creator, parent, p)
                /\ LET about == Subject(creator, parent, p)
                   IN  IF about = NoPid THEN Ignored ELSE Handled(CreateEvent(about, parent, integrity))
           ELSE Ignored /\ UNCHANGED monitored
        /\ did' = [did EXCEPT ![p] = {}]
        /\ UNCHANGED session

\* Mutant: an exit is not fed to the engine.
ProcessStopUncorrelated(p) ==
    /\ Exit(p)
    /\ Ignored
    /\ did' = [did EXCEPT ![p] = {}] /\ missed' = missed \ {p}
    /\ UNCHANGED <<session, monitored, level, spoofed>>

\* monitoredPIDs keeps the ID.
ProcessStop(p) ==
    /\ Exit(p)
    /\ IF session = "enabled" /\ p \in monitored
       THEN Handled([type |-> "exit", pid |-> p, time |-> births])
       ELSE Ignored
    /\ did' = [did EXCEPT ![p] = {}] /\ missed' = missed \ {p}
    /\ UNCHANGED <<session, monitored, level, spoofed>>

\* Start comes to the other providers after Kernel-Process.
Filtered(provider, p, deed, handling) ==
    /\ session # "pending" /\ provider \in Providers /\ p \in Living
    /\ IF p \in monitored
       THEN handling /\ did' = [did EXCEPT ![p] = @ \cup deed]
       ELSE Ignored /\ UNCHANGED did
    /\ UNCHANGED <<worldVars, session, monitored, level, spoofed, missed>>

Write(p, place) == [type |-> "write", pid |-> p, time |-> births, place |-> place]

\* The engine does not look at deletions.
Deletion(p) == [type |-> "delete", pid |-> p, time |-> births]

\* Write and rename alike: a rename gives the old name as the path.
KernelFile(p) ==
    \/ \E place \in C!Place :
           Filtered("Kernel-File", p, IF place = "lasting" THEN {"lasting"} ELSE {},
                    Handled(Write(p, place)))
    \/ Filtered("Kernel-File", p, {}, Handled(Deletion(p)))

\* A value set under a service's key, whatever its name, is a service event before it
\* is a registry event.
KernelRegistry(p) ==
    \/ \E place \in C!Place :
           Filtered("Kernel-Registry", p, IF place = "lasting" THEN {"lasting"} ELSE {},
                    Handled(Write(p, place)))
    \/ Filtered("Kernel-Registry", p, {},
                HandledTwice([type |-> "install", pid |-> p, time |-> births,
                              install |-> "service"], Write(p, "other")))
    \/ Filtered("Kernel-Registry", p, {}, Handled(Deletion(p)))

\* A DNS query counts as a connection, too.
KernelNetwork(p) ==
    Filtered("Kernel-Network", p, {"connected"},
             Handled([type |-> "connect", pid |-> p, time |-> births, dest |-> TRUE]))

\* A thread in another process is an API call and then a thread creation.
KernelThread(p) ==
    \E owner \in Pid \ {p} :
        LET call == [type |-> "call", pid |-> p, time |-> births, target |-> owner,
                     call |-> "execute"]
        IN  Filtered("Kernel-Thread", p, {},
                     HandledTwice(call, [call EXCEPT !.type = "thread"]))

KernelImage(p) ==
    \E reflective \in BOOLEAN :
        Filtered("Kernel-Image", p, {},
                 Handled([type |-> "image", pid |-> p, time |-> births,
                          reflective |-> reflective]))

\* A handle to a process is an event of its own, which the engine does not know.
KernelHandle(p) ==
    \E process \in BOOLEAN, lsass \in BOOLEAN :
        Filtered("Kernel-Handle", p, {},
                 Handled([type |-> IF process THEN "access" ELSE "handle", pid |-> p,
                          time |-> births, lsass |-> lsass]))

WMIActivity(p) ==
    \E what \in {"subscription", "method", "none"} :
        Filtered("WMI-Activity", p, {},
                 Handled([type |-> "install", pid |-> p, time |-> births, install |-> what]))

TaskScheduler(p) ==
    \E what \in {"task", "none"} :
        Filtered("TaskScheduler", p, {},
                 Handled([type |-> "install", pid |-> p, time |-> births, install |-> what]))

HandleETWEvent(p) ==
    \/ KernelFile(p) \/ KernelRegistry(p) \/ KernelNetwork(p) \/ KernelThread(p)
    \/ KernelImage(p) \/ KernelHandle(p) \/ WMIActivity(p) \/ TaskScheduler(p)

Next ==
    \/ EnableProvider
    \/ \E creator, parent \in Living \cup {Outside}, p \in Pid : ProcessStart(creator, parent, p)
    \/ \E p \in Pid : ProcessStop(p)
    \/ \E p \in Living : HandleETWEvent(p)

Spec == Init /\ [][Next]_vars

-----------------------------------------------------------------------------
TypeOK ==
    /\ WorldTypeOK
    /\ session \in {"pending", "enabled", "unavailable"}
    /\ monitored \subseteq Pid /\ missed \subseteq Pid
    /\ correlator \in C!EngineType
    /\ level \in [Pid -> {"low", "high"}] /\ spoofed \in BOOLEAN
    /\ created \in Pid \cup {NoPid}
    /\ did \in [Pid -> SUBSET {"lasting", "connected"}]

\* A process of the sample's tree is tracked from its start, however deep it is and
\* although its parents may be gone (monitor_windows.go:197-216), if it and its
\* ancestors up to the sample were started with the session live, and no process was
\* started under the name of another parent.
DescendantsTracked ==
    ~spoofed => \A p \in Living \ missed : proc[p].tree => p \in monitored

\* With the exits heard, an alert that joins a write and a connection, or makes a
\* finding critical for a connection, leans on what the process with the ID now did,
\* although the ID was another's before (monitor_windows.go:316-328, 859).
CleanSlate ==
    session = "enabled" =>
        \A a \in raised :
            /\ a.kind \in {"persistence", "aftermath"} => "connected" \in did[a.pid]
            /\ a.kind = "aftermath" => "lasting" \in did[a.pid]
            /\ (a.kind \in {"subscription", "task", "service"} /\ a.severity = "critical") =>
                   "connected" \in did[a.pid]

\* A child above the integrity of its parent is reported, if the parent and its
\* ancestors up to the sample were started under observation (correlation.go:415-436).
\* The sample itself was not: it has no node in the graph, and what it starts is
\* compared with nothing.  As before, no parent may be spoofed.
EscalationReported ==
    \A p \in Living :
        LET parent == proc[p].ppid
        IN  (/\ ~spoofed /\ created = p /\ proc[p].tree
             /\ parent \in Pid \ missed /\ proc[parent].birth # 1
             /\ level[parent] = "low" /\ level[p] = "high") =>
                \E a \in raised : a.kind = "escalation" /\ a.pid = p
=============================================================================
