----------------------------- MODULE Correlation -----------------------------
(***************************************************************************)
(* CorrelationEngine of pkg/monitor/correlation.go: the state it keeps per *)
(* process ID, what one event does to it, and the alerts the event raises. *)
(* It is called by one goroutine at a time (the monitor's), so the engine  *)
(* is a value and ProcessEvent a function; the monitors' modules hold the  *)
(* value.  Lists that are only appended to (apiCalls, dllLoads,            *)
(* handleAccess, scriptBlocks, wmiSubscriptions, scheduledTasks,           *)
(* servicesInstalled) are left out.  Whether an alert gets into the bounded*)
(* channel is module Pipeline's TrySend.                                   *)
(***************************************************************************)
EXTENDS Naturals

CONSTANTS
    Pid,            \* process IDs
    NoPid,          \* ID 0: a missing or unparsable one
    PrimaryWindow,  \* injectionPrimaryWindow, in ticks of the clock
    MaxWindow       \* injectionMaxWindow

ASSUME CorrelationAssumption ==
    /\ NoPid \notin Pid
    /\ PrimaryWindow \in Nat /\ MaxWindow \in Nat /\ PrimaryWindow <= MaxWindow

Never == 0   \* the clock starts at 1

\* What a process creation event says of the new process, as far as a check
\* looks at it; "" is a missing field, "low" stands for Low and Medium, "high"
\* for High and System.
Integrity == {"", "low", "high"}
User      == {"", "user", "root"}
Trait     == {"consent", "sudo", "renamed", "tool"}
Node      == [pid : Pid, spawn : Nat, integrity : Integrity, user : User]

\* Where a write goes.  "lasting": the persistence locations both checks know;
\* "early": those only checkPersistenceToC2 knows (\taskcache\, /etc/rc.local,
\* /etc/profile); "other": everything else.
Place == {"lasting", "early", "other"}

EngineType ==
    [ processes : SUBSET Node,                       \* keyed by pid and spawn
      pidToKey  : [Pid -> Nat],                      \* spawn of the latest, or Never
      injection : [Pid \X Pid -> Nat],               \* firstSeen by source and target
      contacted : SUBSET Pid,                        \* netConns is not empty
      written   : SUBSET Pid ]                       \* regWrites or fileWrites has a lasting place

NewEngine ==
    [ processes |-> {},
      pidToKey  |-> [p \in Pid |-> Never],
      injection |-> [pair \in Pid \X Pid |-> Never],
      contacted |-> {},
      written   |-> {} ]

-----------------------------------------------------------------------------
(* What each event does to the engine.  ev.pid is the process, ev.time the  *)
(* time stamp.                                                             *)
NodeOf(ev) == [pid |-> ev.pid, spawn |-> ev.time, integrity |-> ev.integrity, user |-> ev.user]

AfterCreate(e, ev) ==
    [e EXCEPT !.processes = {n \in @ : n.pid # ev.pid \/ n.spawn # ev.time} \cup {NodeOf(ev)},
              !.pidToKey[ev.pid] = ev.time]

\* Mutant: pidToKey keeps its entry.
AfterExitKeepsKey(e, ev) ==
    [e EXCEPT !.processes = {n \in @ : n.pid # ev.pid \/ n.spawn # e.pidToKey[ev.pid]},
              !.injection = [pair \in Pid \X Pid |->
                                IF pair[1] = ev.pid THEN Never ELSE @[pair]],
              !.contacted = @ \ {ev.pid},
              !.written = @ \ {ev.pid}]

\* Mutant: netConns is not cleared.
AfterExitKeepsContacts(e, ev) ==
    [e EXCEPT !.processes = {n \in @ : n.pid # ev.pid \/ n.spawn # e.pidToKey[ev.pid]},
              !.pidToKey[ev.pid] = Never,
              !.injection = [pair \in Pid \X Pid |->
                                IF pair[1] = ev.pid THEN Never ELSE @[pair]],
              !.written = @ \ {ev.pid}]

\* All that is kept under the ID goes; what other sources did to it stays.
AfterExit(e, ev) ==
    [e EXCEPT !.processes = {n \in @ : n.pid # ev.pid \/ n.spawn # e.pidToKey[ev.pid]},
              !.pidToKey[ev.pid] = Never,
              !.injection = [pair \in Pid \X Pid |->
                                IF pair[1] = ev.pid THEN Never ELSE @[pair]],
              !.contacted = @ \ {ev.pid},
              !.written = @ \ {ev.pid}]

\* Of all paths written only the lasting ones are looked for again.
AfterWrite(e, ev) ==
    IF ev.place = "lasting" THEN [e EXCEPT !.written = @ \cup {ev.pid}] ELSE e

\* An event without a destination is not recorded.
AfterConnect(e, ev) == IF ev.dest THEN [e EXCEPT !.contacted = @ \cup {ev.pid}] ELSE e

\* The state of a pair that has not expired.
FirstSeen(e, ev) ==
    LET first == e.injection[<<ev.pid, ev.target>>]
    IN  IF first # Never /\ ev.time - first > MaxWindow THEN Never ELSE first

Foreign(ev) == ev.target # NoPid /\ ev.target # ev.pid

\* "prepare": WriteProcessMemory, VirtualAllocEx, PTRACE_POKETEXT; "execute":
\* CreateRemoteThread, NtCreateThread, PTRACE_ATTACH, PTRACE_SEIZE; "other": any
\* other name, which only lets a stale state expire.
AfterCall(e, ev) ==
    IF ~Foreign(ev) THEN e
    ELSE [e EXCEPT !.injection[<<ev.pid, ev.target>>] =
             CASE ev.call = "prepare" /\ FirstSeen(e, ev) = Never -> ev.time
               [] ev.call = "execute" -> Never
               [] OTHER -> FirstSeen(e, ev)]

ProcessEvent(e, ev) ==
    CASE ev.type = "create" -> AfterCreate(e, ev)
      [] ev.type = "exit" -> AfterExit(e, ev)
      [] ev.type = "write" -> AfterWrite(e, ev)
      [] ev.type = "connect" -> AfterConnect(e, ev)
      [] ev.type = "call" -> AfterCall(e, ev)
      [] ev.type = "thread" -> AfterCall(e, [ev EXCEPT !.call = "execute"])
      [] OTHER -> e

-----------------------------------------------------------------------------
(* The alerts of an event: the kind and, where a check compares, what it    *)
(* compared.  e is the engine before the event.                            *)
Alert(ev, kind) == [pid |-> ev.pid, kind |-> kind]

\* Mutant: users are compared, integrity levels are not.
CheckEscalationOfUsers(e, ev) ==
    LET now == AfterCreate(e, ev)
        parents == {n \in now.processes : n.pid = ev.ppid /\ n.spawn = now.pidToKey[n.pid]}
    IN  {Alert(ev, "escalation") : n \in {m \in parents : m.user = "user" /\ ev.user = "root"}}

\* The parent is looked up by its ID, after the child has been entered.
CheckPrivilegeEscalation(e, ev) ==
    LET now == AfterCreate(e, ev)
        parents == {n \in now.processes : n.pid = ev.ppid /\ n.spawn = now.pidToKey[n.pid]}
    IN  {Alert(ev, "escalation") : n \in
            {n \in parents : \/ n.integrity = "low" /\ ev.integrity = "high"
                                /\ "consent" \notin ev.traits
                             \/ n.user = "user" /\ ev.user = "root"
                                /\ "sudo" \notin ev.traits}}

CheckLolbinRename(ev) == IF "renamed" \in ev.traits THEN {Alert(ev, "renamed")} ELSE {}

CheckPersistenceToolSpawn(ev) == IF "tool" \in ev.traits THEN {Alert(ev, "tool")} ELSE {}

\* Mutant: no look back at the connections.
CheckPersistenceBlind(e, ev) == {}

CheckPersistenceToC2(e, ev) ==
    IF ev.place # "other" /\ ev.pid \in e.contacted THEN {Alert(ev, "persistence")} ELSE {}

CheckC2Aftermath(e, ev) ==
    IF ev.dest /\ ev.pid \in e.written THEN {Alert(ev, "aftermath")} ELSE {}

\* Mutant: the window of a late call is the whole of MaxWindow.
CheckInjectionWide(e, ev) ==
    LET first == FirstSeen(e, ev)
        kind == IF first = Never THEN "unprepared" ELSE "confirmed"
    IN  IF Foreign(ev) /\ ev.call = "execute"
        THEN {[pid |-> ev.pid, kind |-> kind, target |-> ev.target]} ELSE {}

CheckProcessInjectionWindowed(e, ev) ==
    LET first == FirstSeen(e, ev)
        kind == IF first = Never THEN "unprepared"
                ELSE IF ev.time - first <= PrimaryWindow THEN "confirmed" ELSE "late"
    IN  IF Foreign(ev) /\ ev.call = "execute"
        THEN {[pid |-> ev.pid, kind |-> kind, target |-> ev.target]} ELSE {}

\* Subscriptions, tasks and services are critical beside a connection.
CheckInstallation(e, ev) ==
    IF ev.install = "none" THEN {}
    ELSE {[pid |-> ev.pid, kind |-> ev.install,
           severity |-> IF ev.install # "method" /\ ev.pid \in e.contacted
                        THEN "critical" ELSE "high"]}

Alerts(e, ev) ==
    CASE ev.type = "create" -> CheckPrivilegeEscalation(e, ev) \cup CheckLolbinRename(ev)
                               \cup CheckPersistenceToolSpawn(ev)
      [] ev.type = "write" -> CheckPersistenceToC2(e, ev)
      [] ev.type = "connect" -> CheckC2Aftermath(e, ev)
      [] ev.type = "call" -> CheckProcessInjectionWindowed(e, ev)
      [] ev.type = "thread" ->
             CheckProcessInjectionWindowed(e, [ev EXCEPT !.call = "execute"])
      [] ev.type = "image" -> IF ev.reflective THEN {Alert(ev, "reflective")} ELSE {}
      [] ev.type = "handle" -> IF ev.lsass THEN {Alert(ev, "lsass")} ELSE {}
      [] ev.type = "install" -> CheckInstallation(e, ev)
      [] OTHER -> {}
=============================================================================
