----------------------------- MODULE EbpfMonitor -----------------------------
(***************************************************************************)
(* The Linux monitor with eBPF: tracepoint programs in the kernel          *)
(* (pkg/monitor/bpf/monitoring.bpf.c), which filter by the map target_pids *)
(* and submit to a ring buffer, and the goroutine that reads the ring      *)
(* (monitor_linux.go, ebpfReadLoop), which filters again and writes to the *)
(* same map.  The programs run beside each other, one on a CPU, in the     *)
(* threads of whatever processes made them run: each is a step that looks  *)
(* into the map and one that submits.  Whether an event gets through the   *)
(* channel is module Pipeline's matter: here it is heard.                  *)
(***************************************************************************)
EXTENDS Processes, Sequences

CONSTANTS
    NoPid,
    CPU,         \* the CPUs
    RingSize,    \* events the ring buffer holds
    Threads,     \* the IDs whose processes have more than one thread
    Calls,       \* the system calls made, each with the ID of who makes it
    MaxEvents    \* bound on the events submitted

C == INSTANCE Correlation WITH PrimaryWindow <- 0, MaxWindow <- 0

ASSUME EbpfMonitorAssumption ==
    /\ NoPid \notin Pid
    /\ RingSize \in Nat /\ MaxEvents \in Nat
    /\ Threads \subseteq Pid
    /\ Calls \subseteq {"openat", "write", "connect", "ptrace"} \X Pid

VARIABLES
    attached,     \* the programs are attached
    target_pids,  \* the kernel's map
    cpu,          \* the program each CPU is in the middle of
    ring,         \* the ring buffer
    submitted,    \* events submitted so far, lost ones included
    lost,         \* history: the ring was full for one of them
    raced,        \* history: what a program submitted too late
    monitored,    \* monitoredPIDs of the user side
    stopped,      \* the ring's reader is closed
    correlator,   \* the correlation engine
    shown,        \* history: type and birth of the event sent last
    raised,       \* history: the alerts of that event
    heard         \* history: type and birth of every event sent

kernelVars == <<attached, target_pids, cpu, ring, submitted, lost, raced>>
userVars   == <<monitored, stopped, correlator, shown, raised, heard>>
vars       == <<worldVars, kernelVars, userVars>>

None == [type |-> "none", birth |-> 0]

\* "leans": the parent through whom a process that execs is let in, if it is not
\* tracked itself.
Idle == [type |-> "idle", pid |-> NoPid, leans |-> NoPid, target |-> NoPid]

Init ==
    /\ WorldInit
    /\ attached = FALSE /\ target_pids = {Sample}
    /\ cpu = [c \in CPU |-> Idle]
    /\ ring = <<>> /\ submitted = 0 /\ lost = FALSE /\ raced = {}
    /\ monitored = {Sample} /\ stopped = FALSE
    /\ correlator = C!NewEngine
    /\ shown = None /\ raised = {} /\ heard = {}

-----------------------------------------------------------------------------
(* Kernel side *)

\* The map is seeded with the sample, which runs already; then the programs are
\* attached.
StartEBPF ==
    /\ ~attached /\ attached' = TRUE
    /\ UNCHANGED <<worldVars, target_pids, cpu, ring, submitted, lost, raced, userVars>>

On(p) == {c \in CPU : cpu[c].pid = p}

\* A thread of p may run: an exec and the exit of the last thread run alone.
Able(p) == p \in Living /\ \A c \in On(p) : p \in Threads /\ cpu[c].type \notin {"create", "last"}

\* The first process of a PID namespace ends after the others in it.
End(p) ==
    /\ (Namespaces /\ proc[p].birth = 1) => \A q \in Living : proc[q].tree => q = p
    /\ Exit(p)

(* The first half of a program, up to the look into the map.  One that looks in   *)
(* vain changes nothing.                                                          *)
Enter(type, p, leans, target) ==
    \E c \in CPU :
        /\ cpu[c] = Idle
        /\ cpu' = [cpu EXCEPT ![c] = [type |-> type, pid |-> p, leans |-> leans, target |-> target]]

Silent == UNCHANGED <<attached, ring, submitted, lost, raced, userVars>>

\* Marking needs no step of its own: who looks for p before it is marked finds the
\* same as before its parent was looked for.
HandleProcessExec(p) ==
    /\ attached /\ p \in Living /\ On(p) = {}
    /\ p \in target_pids \/ proc[p].ppid \in target_pids
    /\ target_pids' = target_pids \cup {p}
    /\ Enter("create", p, IF p \in target_pids THEN NoPid ELSE proc[p].ppid, NoPid)
    /\ UNCHANGED worldVars /\ Silent

\* The exit of the last thread: the process ends with its event, or, untracked, here.
HandleProcessExit(p) ==
    /\ p \in Living /\ On(p) = {}
    /\ IF attached /\ p \in target_pids
       THEN Enter("last", p, NoPid, NoPid) /\ UNCHANGED worldVars
       ELSE End(p) /\ UNCHANGED cpu
    /\ UNCHANGED target_pids /\ Silent

\* A traced call, or the exit of a thread that is not the last.
Traced(type, p, target) ==
    /\ attached /\ Able(p) /\ p \in target_pids
    /\ Enter(type, p, NoPid, target)
    /\ UNCHANGED <<worldVars, target_pids>> /\ Silent

\* The tracepoint fires for each thread, and the program takes the thread group's ID.
HandleThreadExit(p) == p \in Threads /\ Traced("exit", p, NoPid)

HandleSysOpenat(p) == <<"openat", p>> \in Calls /\ Traced("openat", p, NoPid)

HandleSysWrite(p) == <<"write", p>> \in Calls /\ proc[p].file /\ Traced("write", p, NoPid)

HandleSysConnect(p) == <<"connect", p>> \in Calls /\ Traced("connect", p, NoPid)

\* PTRACE_ATTACH; the requests differ in a number only.
HandleSysPtrace(p, target) ==
    <<"ptrace", p>> \in Calls /\ target \in Living \ {p} /\ Traced("ptrace", p, target)

(* The second half: the event is filled in and submitted.  A full ring loses it.  *)
Submit(type, p, target, named) ==
    LET e == [type |-> type, pid |-> p, ppid |-> proc[p].ppid, birth |-> proc[p].birth,
              target |-> target, named |-> named]
    IN  /\ submitted < MaxEvents
        /\ submitted' = submitted + 1
        /\ ring' = IF Len(ring) < RingSize THEN Append(ring, e) ELSE ring
        /\ lost' = (lost \/ Len(ring) = RingSize)

Leave(c) == cpu' = [cpu EXCEPT ![c] = Idle] /\ UNCHANGED <<attached, userVars>>

Making == {cpu[c].pid : c \in {d \in CPU : cpu[d].type = "create"}}

\* Too late: the parent that let p in is gone, or has not submitted its own creation.
SubmitExec(c) ==
    LET p == cpu[c].pid
        late == /\ cpu[c].leans # NoPid
                /\ proc[p].ppid \notin monitored \cup ({cpu[c].leans} \ Making)
    IN  /\ cpu[c].type = "create"
        /\ Submit("create", p, NoPid, "other")
        /\ raced' = IF late THEN raced \cup {"exec"} ELSE raced
        /\ UNCHANGED <<worldVars, target_pids>> /\ Leave(c)

\* The deletion needs no step of its own: what comes between it and the event might
\* as well have come before or after both.
SubmitExit(c) ==
    LET p == cpu[c].pid
    IN  /\ cpu[c].type \in {"exit", "last"}
        /\ target_pids' = target_pids \ {p}
        /\ Submit("exit", p, NoPid, "other")
        /\ IF cpu[c].type = "last" THEN End(p) ELSE UNCHANGED worldVars
        /\ UNCHANGED raced /\ Leave(c)

\* An exit of p will be submitted.
ExitToCome(p) == p \in target_pids \/ \E c \in On(p) : cpu[c].type \in {"exit", "last"}

\* An open of a lasting place for writing, or one that only reads and is not of a
\* suspicious path; the map of paths a write looks into is never filled, so its event
\* has a placeholder.  Too late: the exit of another thread was submitted before.
SubmitCall(c) ==
    LET p == cpu[c].pid
    IN  /\ cpu[c].type \in {"openat", "write", "connect", "ptrace"}
        /\ \E named \in IF cpu[c].type = "openat" THEN {"lasting", "reading"} ELSE {"other"} :
               Submit(cpu[c].type, p, cpu[c].target, named)
        /\ raced' = IF ExitToCome(p) THEN raced ELSE raced \cup {"exit"}
        /\ UNCHANGED <<worldVars, target_pids>> /\ Leave(c)

-----------------------------------------------------------------------------
(* User side *)

\* readlink of the descriptor of whatever process has the ID now, if any.
ResolvePath(e) ==
    CASE e.type = "write" /\ proc[e.pid].file -> "lasting"
      [] OTHER -> e.named

\* The event the correlation engine gets: a ptrace call goes by the name "ptrace".
Meaning(e) ==
    LET base == [pid |-> e.pid, time |-> e.birth]
    IN  CASE e.type = "create" ->
                 [type |-> "create", pid |-> e.pid, time |-> e.birth, ppid |-> e.ppid,
                  integrity |-> "high", user |-> "root", traits |-> {}]
          [] e.type = "exit" -> [type |-> "exit", pid |-> e.pid, time |-> e.birth]
          [] e.type \in {"openat", "write"} ->
                 [type |-> "write", pid |-> e.pid, time |-> e.birth, place |-> ResolvePath(e)]
          [] e.type = "connect" ->
                 [type |-> "connect", pid |-> e.pid, time |-> e.birth, dest |-> TRUE]
          [] e.type = "ptrace" ->
                 [type |-> "call", pid |-> e.pid, time |-> e.birth, target |-> e.target,
                  call |-> "other"]

\* Mutant: an exit does not reach the engine.
CorrelateNoExit(e) ==
    IF e.type = "exit" THEN UNCHANGED correlator /\ raised' = {}
    ELSE /\ correlator' = C!ProcessEvent(correlator, Meaning(e))
         /\ raised' = C!Alerts(correlator, Meaning(e))

Correlate(e) ==
    /\ correlator' = C!ProcessEvent(correlator, Meaning(e))
    /\ raised' = C!Alerts(correlator, Meaning(e))

Emit(e) ==
    /\ shown' = [type |-> e.type, birth |-> e.birth]
    /\ heard' = heard \cup {<<e.type, e.birth>>}
    /\ Correlate(e)

Drop == shown' = None /\ raised' = {} /\ UNCHANGED <<heard, correlator>>

\* An open that neither writes nor is of a suspicious path is of no interest.
Discards(e) == e.type = "openat" /\ e.named = "reading"

\* Mutant: the filter comes before the adoption.
HandleBPFEventFiltersFirst ==
    /\ attached /\ ~stopped /\ ring # <<>>
    /\ LET e == Head(ring)
           adopt == e.type = "create" /\ e.ppid \in monitored
       IN  /\ monitored' = IF adopt THEN monitored \cup {e.pid} ELSE monitored
           /\ target_pids' = IF adopt THEN target_pids \cup {e.pid} ELSE target_pids
           /\ IF e.pid \in monitored /\ ~Discards(e) THEN Emit(e) ELSE Drop
    /\ ring' = Tail(ring)
    /\ UNCHANGED <<worldVars, attached, cpu, submitted, lost, raced, stopped>>

\* Mutant: no filter, the kernel has filtered already.
HandleBPFEventUnfiltered ==
    /\ attached /\ ~stopped /\ ring # <<>>
    /\ LET e == Head(ring)
           adopt == e.type = "create" /\ e.ppid \in monitored
       IN  /\ monitored' = IF adopt THEN monitored \cup {e.pid} ELSE monitored
           /\ target_pids' = IF adopt THEN target_pids \cup {e.pid} ELSE target_pids
           /\ IF Discards(e) THEN Drop ELSE Emit(e)
    /\ ring' = Tail(ring)
    /\ UNCHANGED <<worldVars, attached, cpu, submitted, lost, raced, stopped>>

\* A child that execs is adopted here as well, and put into the kernel's map, where
\* it may not be any more.  The programs submit no type the reader does not know.
HandleBPFEvent ==
    /\ attached /\ ~stopped /\ ring # <<>>
    /\ LET e == Head(ring)
           adopt == e.type = "create" /\ e.ppid \in monitored
       IN  /\ monitored' = IF adopt THEN monitored \cup {e.pid} ELSE monitored
           /\ target_pids' = IF adopt THEN target_pids \cup {e.pid} ELSE target_pids
           /\ IF e.pid \in monitored' /\ ~Discards(e) THEN Emit(e) ELSE Drop
    /\ ring' = Tail(ring)
    /\ UNCHANGED <<worldVars, attached, cpu, submitted, lost, raced, stopped>>

Stop ==
    /\ attached /\ ~stopped
    /\ stopped' = TRUE
    /\ UNCHANGED <<worldVars, kernelVars, monitored, correlator, shown, raised, heard>>

\* What no program is attached to: a fork, and the rest of a call that opens.
Untraced ==
    /\ \/ \E p \in Pid, parent \in {q \in Pid : Able(q)} \cup {Outside} : Fork(parent, p)
       \/ \E p \in Pid : Able(p) /\ OpenFile(p)
    /\ UNCHANGED <<kernelVars, userVars>>

Kernel ==
    \/ Untraced
    \/ \E p \in Pid :
          \/ HandleProcessExec(p) \/ HandleProcessExit(p) \/ HandleThreadExit(p)
          \/ HandleSysOpenat(p) \/ HandleSysWrite(p) \/ HandleSysConnect(p)
          \/ \E target \in Pid : HandleSysPtrace(p, target)
    \/ \E c \in CPU : SubmitExec(c) \/ SubmitExit(c) \/ SubmitCall(c)

Next == StartEBPF \/ Kernel \/ HandleBPFEvent \/ Stop

Spec == Init /\ [][Next]_vars

-----------------------------------------------------------------------------
EventType == {"create", "exit", "openat", "write", "connect", "ptrace"}

KernelEvent == [type : EventType, pid : Pid, ppid : Pid \cup {Outside}, birth : 1..MaxBirths,
                target : Pid \cup {NoPid}, named : {"lasting", "reading", "other"}]

Program == [type : EventType \cup {"last"}, pid : Pid,
            leans : Pid \cup {NoPid}, target : Pid \cup {NoPid}]

TypeOK ==
    /\ WorldTypeOK
    /\ attached \in BOOLEAN /\ stopped \in BOOLEAN
    /\ target_pids \subseteq Pid /\ monitored \subseteq Pid
    /\ ring \in Seq(KernelEvent) /\ Len(ring) <= RingSize
    /\ cpu \in [CPU -> Program \cup {Idle}]
    /\ submitted \in 0..MaxEvents /\ lost \in BOOLEAN /\ raced \subseteq {"exec", "exit"}
    /\ shown \in [type : EventType, birth : 1..MaxBirths] \cup {None}
    /\ heard \subseteq EventType \X (1..MaxBirths)

\* What the kernel lets through the user side lets through, but for opens of no
\* interest: the two filters agree, although they learn of a new process at different
\* times (monitoring.bpf.c:115-119, monitor_linux.go:568-588), as long as the ring
\* loses nothing and no creation came after the end of the parent that let it in, or
\* before the parent's own creation.
NoneDiscarded ==
    [][(submitted' = submitted /\ ring' # ring /\ ~lost /\ "exec" \notin raced) =>
           shown' # None \/ Discards(Head(ring))]_vars

\* An alert that joins a write and a connection joins two of one process.
DeedsOfOne ==
    \A a \in raised :
        a.kind \in {"persistence", "aftermath"} =>
            /\ <<"connect", shown.birth>> \in heard
            /\ <<"openat", shown.birth>> \in heard \/ <<"write", shown.birth>> \in heard

\* Joined deeds are those of one process although its ID was another's before
\* (monitor_linux.go:604-611, correlation.go:133), unless the ring lost what would have
\* told the two apart or a thread's call was submitted after the exit of another thread
\* had taken the ID off the map (monitoring.bpf.c:156, 253-258).
CleanSlate == (~lost /\ "exit" \notin raced) => DeedsOfOne

\* As long as no ID is used again, a process other than the sample is introduced by a
\* creation event before anything else is heard of it, although the ring may lose any
\* event: what the kernel lets through of a process whose creation was lost is
\* discarded (monitor_linux.go:584-589).
CreateFirst ==
    NoneReused => \A h \in heard : h[2] # 1 => <<"create", h[2]>> \in heard

\* "sched_process_exit   process exit + cleanup" (monitoring.bpf.c:5): an exit event
\* is about a process that has ended.
ExitMeansGone ==
    shown.type = "exit" => \A p \in Pid : proc[p].birth # shown.birth
=============================================================================
